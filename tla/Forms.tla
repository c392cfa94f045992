------------------------------- MODULE Forms -------------------------------
(***************************************************************************)
(* The parts of forms and events that keep their own rows, side by side,   *)
(* as in Hackathon: a behaviour is one part's, of one of the sizes that    *)
(* part is given, both picked at the start, and the variables of the other *)
(* parts are Unused.                                                       *)
(*                                                                         *)
(* A size is a record of the values of the part's constants.               *)
(***************************************************************************)
EXTENDS Integers, FiniteSets

CONSTANTS SeatSizes, ReminderSizes, UploadSizes, LogicSizes, HistorySizes, RuleSizes

VARIABLES
    part, size,
    status, cap, window, by, row, eventCap, req,                          \* Submissions
    clock, since, claimed, sent, run, moves,                              \* Reminders
    file, bucket, response, answer, picking, swept, due,                  \* Uploads, with req
    rule, phase, answers, visible, forced, skipped, rounds, passes,       \* FormLogic
    vetted, version, question, deleted, history,                          \* FormHistory, with status, response
    kind, flags, verdict                                                  \* QuestionRules, with rule

Unused == "UNUSED"

Seats(s)   == INSTANCE Submissions WITH People <- s.people, Requests <- s.requests, Rows <- s.rows,
                  Capacities <- s.capacities, PerUser <- s.perUser, Editing <- s.editing,
                  Picks <- s.picks, OptionLimit <- s.optionLimit, Windows <- s.windows,
                  Overlap <- s.overlap
Remind(s)  == INSTANCE Reminders WITH People <- s.people, Runs <- s.runs, MaxMoves <- s.maxMoves
Files(s)   == INSTANCE Uploads WITH Own <- s.own, Swaps <- s.swaps, MaxFiles <- s.maxFiles,
                  Requests <- s.requests, Overlap <- s.overlap
Logic(s)   == INSTANCE FormLogic WITH Last <- s.last, Breaks <- s.breaks, Actions <- s.actions
History(s) == INSTANCE FormHistory WITH Fields <- s.fields, Payloads <- s.payloads,
                  Respondents <- s.respondents, Kept <- s.kept, MaxVersion <- s.maxVersion
Rules(s)   == INSTANCE QuestionRules WITH Kinds <- s.kinds, Written <- s.written, Moments <- s.moments,
                  Limits <- s.limits, Reach <- s.reach

ASSUME FormsAssumption ==
    /\ \A s \in SeatSizes : Seats(s)!LimitsNumbered
    /\ \A s \in ReminderSizes : Remind(s)!MovesBounded
    /\ \A s \in UploadSizes : Files(s)!FilesNamed
    /\ \A s \in LogicSizes : Logic(s)!FieldsNumbered
    /\ \A s \in HistorySizes : History(s)!QuestionsNamed
    /\ \A s \in RuleSizes : Rules(s)!BoundsReadable

seatVars    == <<cap, window, by, row, eventCap>>
remindVars  == <<clock, since, claimed, sent, run, moves>>
fileVars    == <<file, bucket, answer, picking, swept, due>>
logicVars   == <<phase, answers, visible, forced, skipped, rounds, passes>>
historyVars == <<vetted, version, question, deleted, history>>
ruleVars    == <<kind, flags, verdict>>
sharedVars  == <<status, req, response, rule>>
vars == <<part, size, sharedVars, seatVars, remindVars, fileVars, logicVars, historyVars, ruleVars>>

NoSeats == /\ cap = Unused /\ window = Unused /\ by = Unused
           /\ row = Unused /\ eventCap = Unused
NoRemind == /\ clock = Unused /\ since = Unused /\ claimed = Unused /\ sent = Unused
            /\ run = Unused /\ moves = Unused
NoFiles == /\ file = Unused /\ bucket = Unused /\ answer = Unused
           /\ picking = Unused /\ swept = Unused /\ due = Unused
NoLogic == /\ phase = Unused /\ answers = Unused /\ visible = Unused
           /\ forced = Unused /\ skipped = Unused /\ rounds = Unused /\ passes = Unused
NoHistory == /\ vetted = Unused /\ version = Unused /\ question = Unused /\ deleted = Unused
             /\ history = Unused
NoRules == kind = Unused /\ flags = Unused /\ verdict = Unused

\* The behaviour is that of part p, of size s.
Playing(p, s) == part = p /\ size = s

Init ==
    \/ /\ \E s \in SeatSizes : Playing("SEATS", s) /\ Seats(s)!Init
       /\ NoRemind /\ NoFiles /\ NoLogic /\ NoHistory /\ NoRules
       /\ response = Unused /\ rule = Unused
    \/ /\ \E s \in ReminderSizes : Playing("REMIND", s) /\ Remind(s)!Init
       /\ NoSeats /\ NoFiles /\ NoLogic /\ NoHistory /\ NoRules
       /\ status = Unused /\ req = Unused /\ response = Unused /\ rule = Unused
    \/ /\ \E s \in UploadSizes : Playing("FILES", s) /\ Files(s)!Init
       /\ NoSeats /\ NoRemind /\ NoLogic /\ NoHistory /\ NoRules
       /\ status = Unused /\ rule = Unused
    \/ /\ \E s \in LogicSizes : Playing("LOGIC", s) /\ Logic(s)!Init
       /\ NoSeats /\ NoRemind /\ NoFiles /\ NoHistory /\ NoRules
       /\ status = Unused /\ req = Unused /\ response = Unused
    \/ /\ \E s \in HistorySizes : Playing("HISTORY", s) /\ History(s)!Init
       /\ NoSeats /\ NoRemind /\ NoFiles /\ NoLogic /\ NoRules
       /\ req = Unused /\ rule = Unused
    \/ /\ \E s \in RuleSizes : Playing("RULES", s) /\ Rules(s)!Init
       /\ NoSeats /\ NoRemind /\ NoFiles /\ NoLogic /\ NoHistory
       /\ status = Unused /\ req = Unused /\ response = Unused

Next ==
    /\ UNCHANGED <<part, size>>
    /\ \/ /\ \E s \in SeatSizes : Playing("SEATS", s) /\ Seats(s)!Next
          /\ UNCHANGED <<response, rule, remindVars, fileVars, logicVars, historyVars, ruleVars>>
       \/ /\ \E s \in ReminderSizes : Playing("REMIND", s) /\ Remind(s)!Next
          /\ UNCHANGED <<sharedVars, seatVars, fileVars, logicVars, historyVars, ruleVars>>
       \/ /\ \E s \in UploadSizes : Playing("FILES", s) /\ Files(s)!Next
          /\ UNCHANGED <<status, rule, seatVars, remindVars, logicVars, historyVars, ruleVars>>
       \/ /\ \E s \in LogicSizes : Playing("LOGIC", s) /\ Logic(s)!Next
          /\ UNCHANGED <<status, req, response, seatVars, remindVars, fileVars, historyVars, ruleVars>>
       \/ /\ \E s \in HistorySizes : Playing("HISTORY", s) /\ History(s)!Next
          /\ UNCHANGED <<req, rule, seatVars, remindVars, fileVars, logicVars, ruleVars>>
       \/ /\ \E s \in RuleSizes : Playing("RULES", s) /\ Rules(s)!Next
          /\ UNCHANGED <<status, req, response, seatVars, remindVars, fileVars, logicVars, historyVars>>
Spec == Init /\ [][Next]_vars

-----------------------------------------------------------------------------
(* Every part keeps its types (see the module each instance names). *)
TypeOK ==
    /\ \A s \in SeatSizes : Playing("SEATS", s) => Seats(s)!TypeOK
    /\ \A s \in ReminderSizes : Playing("REMIND", s) => Remind(s)!TypeOK
    /\ \A s \in UploadSizes : Playing("FILES", s) => Files(s)!TypeOK
    /\ \A s \in LogicSizes : Playing("LOGIC", s) => Logic(s)!TypeOK
    /\ \A s \in HistorySizes : Playing("HISTORY", s) => History(s)!TypeOK
    /\ \A s \in RuleSizes : Playing("RULES", s) => Rules(s)!TypeOK

(* Submissions, one request at a time: a form closed for being full is     *)
(* full. *)
ClosedFormIsFull ==
    \A s \in SeatSizes : Playing("SEATS", s) => s.overlap \/ Seats(s)!ClosedFormIsFull

(* Submissions: a submission goes over no limit it has read. *)
LimitsHold ==
    [][\A s \in SeatSizes : Playing("SEATS", s) => Seats(s)!SubmissionRespectsLimits]_vars

(* Reminders: nobody is sent the same reminder twice. *)
RemindedOnce == \A s \in ReminderSizes : Playing("REMIND", s) => Remind(s)!RemindedOnce

(* Uploads: an answer names every attached file, and the files it names    *)
(* have their objects; one request at a time, they are attached. *)
AnswerNamesItsFiles ==
    \A s \in UploadSizes : Playing("FILES", s) => Files(s)!AnswerNamesItsFiles

(* FormLogic: the layout a submission is checked against has settled. *)
LayoutSettles == \A s \in LogicSizes : Playing("LOGIC", s) => Logic(s)!LayoutSettles

(* FormHistory: answers keep the type they were given for, the versions    *)
(* they name explain them, and a checked form keeps its conditions. *)
AnswersKeepMeaning ==
    \A s \in HistorySizes : Playing("HISTORY", s) => History(s)!AnswersKeepMeaning

(* QuestionRules: the check refuses what no answer can satisfy, and nothing *)
(* else, but for the cases the module names. *)
RulesJudged == \A s \in RuleSizes : Playing("RULES", s) => Rules(s)!RulesJudged
=============================================================================
