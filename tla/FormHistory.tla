---------------------------- MODULE FormHistory ----------------------------
(***************************************************************************)
(* A form's questions, the versions kept of them, and the answers given    *)
(* under each version: FormSerializer and the builder's actions of         *)
(* forms/views.py, versions.py and definition_io.py.                       *)
(*                                                                         *)
(* A save of the builder, a submission and an edit are one transaction     *)
(* each, and run one at a time here.                                       *)
(***************************************************************************)
EXTENDS Naturals, FiniteSets

CONSTANTS
    Fields,       \* FormField ids
    Payloads,     \* the questions a builder can send, NoQuestion where none
    Respondents,
    Kept,         \* MAX_VERSIONS_KEPT
    MaxVersion    \* bound: how often the form is saved or published

VARIABLES
    status,    \* LIVE: PUBLISHED or SCHEDULED
    vetted,    \* the definition was checked when, or since, the form went live
    version, question, deleted,
    history,   \* FormVersion.snapshot by version
    response   \* the form_version and the answers, by the type they were given for

vars == <<status, vetted, version, question, deleted, history, response>>
formVars == <<status, vetted, version, question, deleted, history>>

Types      == {"NUMBER", "TEXT", "CALCULATED"}
\* watches: in its condition; uses: in its formula.
Question(t, watches, uses) == [type |-> t, watches |-> watches, uses |-> uses]
NoQuestion == Question("NONE", {}, {})
NoVersion  == <<>>
NoResponse == [version |-> 0]
Blank      == "BLANK"
Questions  == [type : Types, watches : SUBSET Fields, uses : SUBSET Fields]
Answers    == [version : 1..MaxVersion, given : [Fields -> Types \cup {Blank}]]

QuestionsNamed ==
    Payloads \subseteq [Fields -> Questions \cup {NoQuestion}] /\ Kept \in Nat /\ MaxVersion \in Nat \ {0}

TypeOK ==
    /\ status \in {"DRAFT", "LIVE", "CLOSED"} /\ vetted \in BOOLEAN
    /\ version \in 1..MaxVersion
    /\ question \in [Fields -> Questions \cup {NoQuestion}]
    /\ deleted \subseteq {q \in Fields : question[q] # NoQuestion}
    /\ DOMAIN history = 1..MaxVersion
    /\ \A v \in 1..MaxVersion :
           history[v] = NoVersion \/ history[v] \in [Fields -> Questions \cup {NoQuestion}]
    /\ response \in [Respondents -> Answers \cup {NoResponse}]

-----------------------------------------------------------------------------
Asked(qs)     == {q \in Fields : qs[q] # NoQuestion}
Snapshot(qs, gone) == [q \in Fields |-> IF q \in gone THEN NoQuestion ELSE qs[q]]
Answered      == {q \in Fields : \E r \in Respondents :
                     response[r] # NoResponse /\ response[r].given[q] # Blank}

ConditionsResolve(qs) == \A q \in Asked(qs) : qs[q].watches \subseteq Asked(qs) \ {q}
FormulasResolve(qs) ==
    \A q \in Asked(qs) :
        /\ qs[q].uses \subseteq Asked(qs) \ {q}
        /\ \A u \in qs[q].uses : qs[u].type \in {"NUMBER", "CALCULATED"}
ConditionCircle(qs) == \E circle \in SUBSET Asked(qs) :
    circle # {} /\ \A q \in circle : qs[q].watches \cap circle # {}
FormulaCircle(qs) == \E circle \in SUBSET Asked(qs) :
    circle # {} /\ \A q \in circle : qs[q].uses \cap circle # {}

\* validate_form_definition, as far as questions refer to one another.
Publishable(qs) == /\ ConditionsResolve(qs) /\ FormulasResolve(qs)
                   /\ ~ConditionCircle(qs) /\ ~FormulaCircle(qs)

\* record_version: in place of that number's, and only the newest are kept.
Record(v, snapshot) ==
    LET all == [history EXCEPT ![v] = snapshot]
        recorded == {w \in 1..MaxVersion : all[w] # NoVersion}
    IN  history' = [w \in 1..MaxVersion |->
            IF Cardinality({x \in recorded : x > w}) >= Kept THEN NoVersion ELSE all[w]]

\* A new form's questions get new ids, so that references come with it only
\* from a copy (_materialize), and only those to a question of the copy.
Materialized(qs) ==
    [q \in Fields |-> IF qs[q] = NoQuestion THEN NoQuestion
                      ELSE [qs[q] EXCEPT !.watches = @ \cap Asked(qs)]]

\* Created by the builder, copied or imported; or the bare form of a one-click
\* registration, published without a version.
Init ==
    /\ version = 1 /\ deleted = {}
    /\ \/ /\ status = "DRAFT"
          /\ \E qs \in Payloads :
                /\ \A q \in Asked(qs) : qs[q].uses \subseteq Asked(qs)
                /\ question = Materialized(qs)
          /\ history = [v \in 1..MaxVersion |-> IF v = 1 THEN question ELSE NoVersion]
       \/ /\ status = "LIVE"
          /\ question = [q \in Fields |-> NoQuestion]
          /\ history = [v \in 1..MaxVersion |-> NoVersion]
    /\ vetted = (status = "LIVE")
    /\ response = [r \in Respondents |-> NoResponse]

-----------------------------------------------------------------------------
(* The builder                                                             *)

\* Mutant: the answers of deleted questions are forgotten.
AskedTypeLocked(qs) ==
    \E q \in (Asked(qs) \cap Answered) \ deleted : qs[q].type # question[q].type

\* _check_no_type_changes_on_answered_fields, deleted questions included.
TypeLocked(qs) ==
    \E q \in Asked(qs) \cap Answered : qs[q].type # question[q].type

\* The payload's questions are made, changed or brought back, and the others
\* deleted.  Only a form that is or goes live is checked.
SaveFields(qs, s) ==
    /\ ~TypeLocked(qs)
    /\ s = "LIVE" => Publishable(qs)
    /\ status' = s /\ vetted' = (s = "LIVE")
    /\ version' = version + 1 /\ version' <= MaxVersion
    /\ question' = [q \in Fields |-> IF qs[q] = NoQuestion THEN question[q] ELSE qs[q]]
    /\ deleted' = Asked(question) \ Asked(qs)
    /\ Record(version', Snapshot(question', deleted'))
    /\ UNCHANGED response

\* A question that is not there yet has no id to refer to.
Save(qs, s) ==
    /\ \A q \in Asked(qs) : qs[q].watches \cup qs[q].uses \subseteq Asked(question)
    /\ SaveFields(qs, s)

\* A save without questions can send the form live unchecked.
SaveSettings(s) ==
    /\ status' = s /\ vetted' = (vetted /\ s = "LIVE")
    /\ version' = version + 1 /\ version' <= MaxVersion
    /\ Record(version', Snapshot(question, deleted))
    /\ UNCHANGED <<question, deleted, response>>

Restore(v) ==
    /\ history[v] # NoVersion
    /\ SaveFields(history[v], status)

Publish ==
    /\ Publishable(Snapshot(question, deleted))
    /\ status' = "LIVE" /\ vetted' = TRUE
    /\ version' = version + 1 /\ version' <= MaxVersion
    /\ Record(version', Snapshot(question, deleted))
    /\ UNCHANGED <<question, deleted, response>>

\* unpublish, close, schedule, reopen.
Press(s) ==
    /\ status' = s /\ vetted' = (vetted /\ s = "LIVE")
    /\ UNCHANGED <<version, question, deleted, history, response>>

\* The conditions that watch it go with it; formulas stay.
\* Neither the version nor its snapshot changes.
SoftDelete(q) ==
    /\ q \in Asked(question) \ deleted
    /\ question' = [p \in Fields |->
           IF p \in Asked(question) \ (deleted \cup {q})
           THEN [question[p] EXCEPT !.watches = @ \ {q}] ELSE question[p]]
    /\ deleted' = deleted \cup {q}
    /\ UNCHANGED <<status, vetted, version, history, response>>

-----------------------------------------------------------------------------
(* Responses                                                               *)

\* A response, or an edit of it, which deletes the answers it does not give.
\* Open to people while the form is live, to organizers' entries always.
Respond(r) ==
    /\ \E answered \in SUBSET (Asked(question) \ deleted) :
          response' = [response EXCEPT ![r] =
              [version |-> version,
               given |-> [q \in Fields |-> IF q \in answered THEN question[q].type ELSE Blank]]]
    /\ UNCHANGED formVars

DeleteResponse(r) ==
    /\ response[r] # NoResponse
    /\ response' = [response EXCEPT ![r] = NoResponse]
    /\ UNCHANGED formVars

Build == \/ \E qs \in Payloads, s \in {"DRAFT", "LIVE", "CLOSED"} : Save(qs, s)
         \/ \E s \in {"DRAFT", "LIVE", "CLOSED"} : SaveSettings(s) \/ Press(s)
         \/ \E v \in 1..MaxVersion : Restore(v)
         \/ Publish
         \/ \E q \in Fields : SoftDelete(q)
Next  == \/ Build
         \/ \E r \in Respondents : Respond(r) \/ DeleteResponse(r)
Spec  == Init /\ [][Next]_vars

-----------------------------------------------------------------------------
(* No answer is reinterpreted: a question that was answered keeps the type *)
(* it was answered for, through every save, deletion, revival and restored *)
(* version.  (serializers.py, _check_no_type_changes_on_answered_fields.)  *)
AnswersKeepType ==
    \A r \in Respondents : response[r] # NoResponse =>
        \A q \in Fields : response[r].given[q] # Blank =>
            question[q] # NoQuestion /\ question[q].type = response[r].given[q]

(* The version a response names, while it is kept, asked the questions the *)
(* response answers; the form's own version holds what the form asks now.  *)
VersionsExplainAnswers ==
    /\ \A r \in Respondents : response[r] # NoResponse /\ history[response[r].version] # NoVersion =>
          LET asked == history[response[r].version]
          IN  \A q \in Fields : response[r].given[q] # Blank =>
                  asked[q] # NoQuestion /\ asked[q].type = response[r].given[q]
    /\ history[version] # NoVersion =>
          \A q \in Asked(question) \ deleted :
              history[version][q] # NoQuestion /\ history[version][q].type = question[q].type

(* A live form that has passed the publish checks has no condition on a    *)
(* question that is not asked, whatever was deleted since.                 *)
ConditionsHold ==
    vetted => \A q \in Asked(question) \ deleted :
                  question[q].watches \subseteq Asked(question) \ deleted

AnswersKeepMeaning == AnswersKeepType /\ VersionsExplainAnswers /\ ConditionsHold
=============================================================================
