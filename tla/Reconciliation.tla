--------------------------- MODULE Reconciliation ---------------------------
(***************************************************************************)
(* A sheet of past members is compared with the accounts and acted on, row *)
(* by row: accounts/services/member_reconciliation.py over the club ids.   *)
(*                                                                         *)
(* An action locks its row, classifies it again, acts through the registry *)
(* and classifies it once more, in one transaction: it begins and ends     *)
(* with the registry's request.  A bulk action lists its rows first and    *)
(* acts on them in turn.  Names are left out: NAME_DIFFERS is a MATCH.     *)
(***************************************************************************)
EXTENDS ClubIds

CONSTANT Lines     \* the lines of a sheet, a set of numbers

VARIABLES
    sheet,         \* what each line says, NoSheet without a run
    outcome, resolution, invited,
    batch,         \* lines a bulk action has listed and not come to
    acting         \* the line each request has locked, and for what

sheetVars == <<sheet, outcome, resolution, invited, batch, acting>>
idVars    == vars
reconVars == <<idVars, sheetVars>>

NoSheet == <<>>
NoEmail == "NO_EMAIL"
NoLine  == [how |-> "NOTHING"]

LinesNumbered == Lines \subseteq Nat /\ NoEmail \notin People
Says    == [email : People \cup {NoEmail}, id : Ids \cup {None}]
Outcomes == {"MATCH", "ID_MISSING_IN_APP", "ID_MISMATCH", "ID_HELD_BY_OTHER", "EMAIL_MISMATCH",
             "ID_RESERVED", "ID_RETIRED", "NO_ACCOUNT", "NO_ACCOUNT_NO_ID", "NO_ID_IN_SHEET",
             "INVALID", "DUPLICATE"}
Verdicts  == {"KEPT_APP", "FOLLOW_UP", "DISMISSED"}

ReconTypeOK ==
    /\ TypeOK
    /\ sheet \in {NoSheet} \cup [Lines -> Says]
    /\ outcome \in [Lines -> Outcomes]
    /\ resolution \in [Lines -> {"PENDING", "LINKED", "USED_SHEET", "INVITED"} \cup Verdicts]
    /\ invited \subseteq Lines /\ batch \subseteq Lines
    /\ acting \in [Requests -> {NoLine} \cup [line : Lines, how : {"LINKED", "USED_SHEET", "INVITED"}]]

Unread   == [r \in Lines |-> "INVALID"]
Undecided == [r \in Lines |-> "PENDING"]

ReconInit ==
    /\ Init
    /\ sheet = NoSheet /\ outcome = Unread /\ resolution = Undecided
    /\ invited = {} /\ batch = {} /\ acting = [q \in Requests |-> NoLine]

-----------------------------------------------------------------------------
\* classify: what an e-mail address and an id come to now.
Compared(e, x) ==
    CASE x # None /\ e # NoEmail /\ Exists(e) ->
            (CASE id[e] = x               -> "MATCH"
               [] id[e] \notin {x, None}  -> "ID_MISMATCH"
               [] id[e] = None /\ Held(x) -> "ID_HELD_BY_OTHER"
               [] OTHER -> (IF hold[x] \notin {Nobody, e} THEN "ID_RESERVED"
                            ELSE IF x \in retired THEN "ID_RETIRED" ELSE "ID_MISSING_IN_APP"))
Unheld(e, x) ==
    IF hold[x] \notin {Nobody, e} /\ ~(hold[x] = Anyone /\ e = NoEmail) THEN "ID_RESERVED" ELSE "NO_ACCOUNT"

Classify(e, x) ==
    CASE e = NoEmail /\ x = None                         -> "INVALID"
      [] e # NoEmail /\ Exists(e) /\ x = None            -> "NO_ID_IN_SHEET"
      [] e # NoEmail /\ Exists(e) /\ x # None            -> Compared(e, x)
      [] (e = NoEmail \/ ~Exists(e)) /\ x # None         -> IF Held(x) THEN "EMAIL_MISMATCH" ELSE Unheld(e, x)
      [] e # NoEmail /\ ~Exists(e) /\ x = None           -> "NO_ACCOUNT_NO_ID"

Reread(r) == Classify(sheet[r].email, sheet[r].id)

\* refresh: a repeated line stays a repeat.
Now(r) == IF outcome[r] = "DUPLICATE" THEN "DUPLICATE" ELSE Reread(r)

\* A line repeats one that is not a repeat itself.
Repeats(s) ==
    LET Same(q, r) == \/ s[q].email = s[r].email /\ s[r].email # NoEmail
                      \/ s[q].id = s[r].id /\ s[r].id # None
        repeat[r \in Lines] == \E q \in Lines : q < r /\ ~repeat[q] /\ Same(q, r)
    IN  {r \in Lines : repeat[r]}

CreateRun(s) ==
    /\ sheet = NoSheet
    /\ sheet' = s
    /\ outcome' = [r \in Lines |-> IF r \in Repeats(s) THEN "DUPLICATE" ELSE Classify(s[r].email, s[r].id)]
    /\ resolution' = Undecided /\ invited' = {} /\ batch' = {}
    /\ UNCHANGED <<idVars, acting>>

\* Nobody has the row locked.
LineFree(r) == \A q \in Requests : acting[q] # NoLine => acting[q].line # r

DeleteRun ==
    /\ sheet # NoSheet /\ \A r \in Lines : LineFree(r)
    /\ sheet' = NoSheet /\ outcome' = Unread /\ resolution' = Undecided
    /\ invited' = {} /\ batch' = {}
    /\ UNCHANGED <<idVars, acting>>

\* The page, a recheck, or an action that was refused.
Recheck(rows) ==
    /\ sheet # NoSheet /\ \A r \in rows : LineFree(r)
    /\ outcome' = [r \in Lines |-> IF r \in rows THEN Now(r) ELSE outcome[r]]
    /\ UNCHANGED <<idVars, sheet, resolution, invited, batch, acting>>

-----------------------------------------------------------------------------
(* Actions on one line                                                     *)

Done(r, how) ==
    /\ UNCHANGED sheet
    /\ resolution' = [resolution EXCEPT ![r] = how]
    /\ outcome' = [outcome EXCEPT ![r] = IF @ = "DUPLICATE" THEN @ ELSE Reread(r)']

Lock(q, r, how) ==
    /\ acting' = [acting EXCEPT ![q] = [line |-> r, how |-> how]]
    /\ UNCHANGED <<sheet, outcome, resolution, invited>>

BeginLink(q, r, allowRetired) ==
    /\ LineFree(r)
    /\ Now(r) \in {"ID_MISSING_IN_APP"} \cup (IF allowRetired THEN {"ID_RETIRED"} ELSE {})
    /\ BeginAssign(q, sheet[r].email, sheet[r].id, allowRetired)
    /\ Lock(q, r, "LINKED")

BeginUse(q, r) ==
    /\ LineFree(r) /\ Now(r) = "ID_MISMATCH"
    /\ BeginReplace(q, sheet[r].email, sheet[r].id)
    /\ Lock(q, r, "USED_SHEET")

\* The id is kept for the address, unless it is already.
MayInvite(r) ==
    LineFree(r) /\ Now(r) = "NO_ACCOUNT" /\ sheet[r].email # NoEmail /\ r \notin invited

BeginInvite(q, r) ==
    /\ MayInvite(r) /\ hold[sheet[r].id] # sheet[r].email
    /\ BeginReserve(q, sheet[r].email, sheet[r].id)
    /\ Lock(q, r, "INVITED")

InviteKept(q, r) ==
    /\ pend[q] = Idle
    /\ MayInvite(r) /\ hold[sheet[r].id] = sheet[r].email
    /\ invited' = invited \cup {r}
    /\ UNCHANGED <<idVars, acting>>
    /\ Done(r, "INVITED")

Decide(q, r, verdict) ==
    /\ sheet # NoSheet /\ pend[q] = Idle /\ LineFree(r)
    /\ UNCHANGED <<idVars, invited, acting>>
    /\ Done(r, verdict)

FinishLine(q, r) ==
    /\ acting[q] # NoLine /\ acting[q].line = r
    /\ SaveMember(q) \/ SaveReservation(q)
    /\ Done(r, acting[q].how)
    /\ invited' = IF acting[q].how = "INVITED" THEN invited \cup {r} ELSE invited
    /\ acting' = [acting EXCEPT ![q] = NoLine]
    /\ UNCHANGED batch

\* The registry's refusal is reported; a recheck follows.
RefuseLine(q) ==
    /\ acting[q] # NoLine /\ RollBack(q)
    /\ acting' = [acting EXCEPT ![q] = NoLine]
    /\ UNCHANGED <<sheet, outcome, resolution, invited, batch>>

-----------------------------------------------------------------------------
(* Bulk: every open line with an outcome                                   *)

ListOpen(q, which) ==
    /\ sheet # NoSheet /\ batch = {} /\ pend[q] = Idle
    /\ batch' = {r \in Lines : outcome[r] = which /\ resolution[r] = "PENDING"}
    /\ UNCHANGED <<idVars, sheet, outcome, resolution, invited, acting>>

\* No address, invited already, or an id reserve refuses: a retired one, or
\* any other if one is kept for the address.
InviteRefused(r) ==
    LET e == sheet[r].email  x == sheet[r].id
    IN  \/ e = NoEmail \/ r \in invited
        \/ hold[x] # e /\ (x \in retired \/ \E y \in Ids : hold[y] = e)

\* A line that is refused is reported, and the next one comes.
BulkStep(q, r) ==
    /\ r \in batch
    /\ batch' = batch \ {r}
    /\ \/ BeginLink(q, r, FALSE) \/ BeginInvite(q, r) \/ InviteKept(q, r)
       \/ /\ pend[q] = Idle /\ LineFree(r)
          /\ Now(r) # "ID_MISSING_IN_APP" /\ (Now(r) = "NO_ACCOUNT" => InviteRefused(r))
          /\ outcome' = [outcome EXCEPT ![r] = Now(r)]
          /\ UNCHANGED <<idVars, sheet, resolution, invited, acting>>

-----------------------------------------------------------------------------
Act(q, r) ==
    /\ sheet # NoSheet
    /\ \/ \E allowRetired \in BOOLEAN : BeginLink(q, r, allowRetired)
       \/ BeginUse(q, r) \/ BeginInvite(q, r) \/ InviteKept(q, r)
       \/ \E verdict \in Verdicts : Decide(q, r, verdict)
    /\ UNCHANGED batch

\* The run itself, and its page.
Run(q) ==
    /\ pend[q] = Idle
    /\ \/ \E s \in [Lines -> Says] : CreateRun(s)
       \/ DeleteRun \/ Recheck(Lines) \/ \E r \in Lines : Recheck({r})

\* What goes on meanwhile, of what changes ids (edits and imports give and
\* take them as the registry does).
Elsewhere(q) == Registry(q) \/ Registration(q)

ReconNext ==
    \E q \in Requests :
        \/ /\ OneAtATime => batch = {}
           /\ \/ Elsewhere(q) /\ UNCHANGED sheetVars
              \/ Run(q) \/ \E r \in Lines : Act(q, r)
              \/ \E which \in {"ID_MISSING_IN_APP", "NO_ACCOUNT"} : ListOpen(q, which)
        \/ acting[q] = NoLine /\ GoOn(q) /\ UNCHANGED sheetVars
        \/ RefuseLine(q) \/ \E r \in Lines : FinishLine(q, r) \/ BulkStep(q, r)
ReconSpec == ReconInit /\ [][ReconNext]_reconVars

-----------------------------------------------------------------------------
(* Following the sheet takes an id from nobody: the person it is given to  *)
(* ends with it, nobody held it when it was given, and no reservation of   *)
(* it is left.  Of requests that take turns also: it was not kept for      *)
(* somebody else, and an invited person has it kept for them.              *)
TakesFromNobody ==
    \A r \in Lines : resolution'[r] # resolution[r] =>
       LET e == sheet[r].email  x == sheet[r].id
       IN  /\ resolution'[r] \in {"LINKED", "USED_SHEET"} =>
                 /\ id'[e] = x /\ hold'[x] = Nobody /\ ~Held(x)
                 /\ OneAtATime => hold[x] \in {Nobody, e}
           /\ resolution'[r] = "INVITED" /\ OneAtATime => hold'[x] = e
=============================================================================
