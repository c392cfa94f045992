----------------------------- MODULE FormLogic -----------------------------
(***************************************************************************)
(* Conditional questions and page routing of a form: what the publish      *)
(* check accepts (validation/definition.py) and how a submission works out *)
(* which questions it shows (validation/conditional.py, engine.py).        *)
(*                                                                         *)
(* The layout is a bounded fixpoint, one pass over the questions a step,   *)
(* inside a bounded fixpoint over the pages that routing skips.  An answer *)
(* is there or not; an operator is true of one or of a blank.              *)
(*                                                                         *)
(* A rule has one condition, on one question: the trees of AND and OR and  *)
(* the comparison of two answers (value_field), which make a rule watch    *)
(* several questions, are not modelled.                                    *)
(***************************************************************************)
EXTENDS Naturals, FiniteSets

CONSTANTS
    Last,     \* fields are 1..Last, in display order
    Breaks,   \* those that are page breaks
    Actions   \* what a question's rule may do

Fields    == 1..Last
Questions == Fields \ Breaks
NoRule    == [action |-> "NONE"]
Leaf(a, f, op, t) == [action |-> a, field |-> f, op |-> op, target |-> t]

VARIABLES
    rule,      \* conditional_logic of each field
    phase,     \* where the builder or the submission is
    answers,   \* questions the submission answers
    visible, forced, skipped,  \* the layout so far; forced: required_overrides
    rounds, passes             \* of page routing, and over the questions in this one

vars == <<rule, phase, answers, visible, forced, skipped, rounds, passes>>
layoutVars == <<answers, visible, forced, skipped, rounds, passes>>

Page(f)   == Cardinality({b \in Breaks : b <= f})
LastPage  == Cardinality(Breaks)
BreakOf(k) == CHOOSE b \in Breaks : Page(b) = k
On(pages) == {f \in Fields : Page(f) \in pages}

\* Rules a field could carry; _check_pages and _check_conditional refuse
\* routing on a question, anything else on a page break and a rule that
\* watches its own question.
Rules(f) ==
    {NoRule} \cup
    IF f \in Breaks
    THEN {Leaf("end_form", g, op, 0) : g \in Questions, op \in {"ANSWERED", "EMPTY"}}
         \cup {Leaf("skip_to_section", g, op, b) :
                  g \in Questions, op \in {"ANSWERED", "EMPTY"}, b \in Breaks}
    ELSE {Leaf(a, g, op, 0) : a \in Actions, g \in Questions \ {f}, op \in {"ANSWERED", "EMPTY"}}

FieldsNumbered == Last \in Nat /\ Breaks \subseteq 1..Last

TypeOK ==
    /\ \A f \in DOMAIN rule : rule[f] \in Rules(f)
    /\ phase \in {"DRAFT", "LIVE", "PASS", "ROUTE", "DONE"}
    /\ answers \subseteq Questions
    /\ visible \subseteq Fields
    /\ forced \in [Questions -> {"NONE", "REQUIRED", "OPTIONAL"}]
    /\ skipped \subseteq 1..LastPage
    /\ rounds \in 0..(LastPage + 2) /\ passes \in 0..(Last + 1)

Unforced == [q \in Questions |-> "NONE"]

Init ==
    /\ rule = <<>> /\ phase = "DRAFT"
    /\ answers = {} /\ visible = {} /\ forced = Unforced /\ skipped = {}
    /\ rounds = 0 /\ passes = 0

-----------------------------------------------------------------------------
(* The builder                                                             *)

\* Rules are written in display order.
SetRule(r) ==
    LET f == Cardinality(DOMAIN rule) + 1
    IN  /\ phase = "DRAFT" /\ f <= Last
        /\ r \in Rules(f)
        /\ rule' = [g \in 1..f |-> IF g = f THEN r ELSE rule[g]]
        /\ UNCHANGED <<phase, layoutVars>>

Watches(f) == IF rule[f] = NoRule THEN {} ELSE {rule[f].field}

\* Mutant: only questions that watch each other are looked for.
CircularPair == \E f \in Fields : \E g \in Watches(f) : f \in Watches(g)

\* _check_condition_cycles: fields whose rules watch one another in a circle.
Circular == \E circle \in SUBSET Fields :
    circle # {} /\ \A f \in circle : Watches(f) \cap circle # {}

RouteAccepted(b) ==
    rule[b] # NoRule =>
        /\ Page(rule[b].field) < Page(b)
        /\ rule[b].action = "skip_to_section" => Page(rule[b].target) > Page(b)

Publish ==
    /\ phase = "DRAFT" /\ DOMAIN rule = Fields
    /\ ~Circular /\ \A b \in Breaks : RouteAccepted(b)
    /\ phase' = "LIVE"
    /\ UNCHANGED <<rule, layoutVars>>

-----------------------------------------------------------------------------
(* A submission: compute_layout                                            *)

\* Mutant: the passes of the round before still count.
StartRoundAgain(pages) ==
    /\ visible' = Fields \ On(pages)
    /\ forced' = Unforced
    /\ passes' = passes /\ rounds' = rounds + 1
    /\ phase' = "PASS"

StartRound(pages) ==
    /\ visible' = Fields \ On(pages)
    /\ forced' = Unforced
    /\ passes' = 0 /\ rounds' = rounds + 1
    /\ phase' = "PASS"

Submit(given) ==
    /\ phase = "LIVE"
    /\ answers' = given
    /\ StartRound({})
    /\ UNCHANGED <<rule, skipped>>

\* An answer on a question that is not shown counts as blank.
Fires(f, shown) ==
    LET given == rule[f].field \in answers \cap shown
    IN  rule[f] # NoRule /\ (rule[f].op = "ANSWERED") = given
Does(f, action) == rule[f].action = action

Shown(f, shown) ==
    CASE Does(f, "show") -> Fires(f, shown)
      [] Does(f, "hide") -> ~Fires(f, shown)
      [] OTHER -> TRUE
Force(q, shown) ==
    CASE Does(q, "require") /\ Fires(q, shown) -> "REQUIRED"
      [] Does(q, "optional") /\ Fires(q, shown) -> "OPTIONAL"
      [] OTHER -> "NONE"

\* One pass, with the answers that were visible when it began.
PassOver(shown) == {f \in Fields \ On(skipped) : Shown(f, shown)}

Pass ==
    /\ phase = "PASS"
    /\ visible' = PassOver(visible)
    /\ forced' = [q \in Questions |->
                     IF q \in On(skipped) THEN "NONE" ELSE Force(q, visible)]
    /\ passes' = passes + 1
    /\ phase' = IF <<visible', forced'>> = <<visible, forced>> \/ passes' = Last + 1
                THEN "ROUTE" ELSE "PASS"
    /\ UNCHANGED <<rule, answers, skipped, rounds>>

\* _skipped_pages: from a page the walk goes on to the next, unless the break
\* in between routes it to a later one or past the last.
Following(k, shown) ==
    LET b == BreakOf(k + 1)
    IN  CASE ~Fires(b, shown) -> k + 1
          [] Fires(b, shown) /\ Does(b, "end_form") -> LastPage + 1
          [] OTHER -> Page(rule[b].target)

Closed(pages, shown) ==
    0 \in pages /\ \A k \in pages : k < LastPage => Following(k, shown) \in pages
Skipped(shown) ==
    {p \in 1..LastPage :
        \E pages \in SUBSET (0..LastPage + 1) : Closed(pages, shown) /\ p \notin pages}

\* The rounds are bounded: the last one may leave pages routed away that
\* its questions were worked out with.
Route ==
    /\ phase = "ROUTE"
    /\ skipped' = Skipped(visible)
    /\ IF Skipped(visible) = skipped \/ rounds = LastPage + 2
       THEN phase' = "DONE" /\ UNCHANGED <<visible, forced, rounds, passes>>
       ELSE StartRound(Skipped(visible))
    /\ UNCHANGED <<rule, answers>>

Next ==
    \/ \E f \in Fields : \E r \in Rules(f) : SetRule(r)
    \/ Publish
    \/ \E given \in SUBSET Questions : Submit(given)
    \/ Pass \/ Route
Spec == Init /\ [][Next]_vars

-----------------------------------------------------------------------------
\* What the respondent is shown agrees with its own answers.
Settled ==
    /\ visible = PassOver(visible)
    /\ skipped = Skipped(visible)
    /\ \A q \in Questions \cap visible : forced[q] = Force(q, visible)

LooksBack == \A f \in Fields : \A g \in Watches(f) : Page(g) <= Page(f)

(* The layout of a published form has settled when the passes are over:    *)
(* every question on a page that is not skipped shows, and is forced, as   *)
(* its rule says of the answers that show, and the pages skipped are those *)
(* these answers route past.  (compute_layout's bounds and the publish     *)
(* check's refusals; forms in which no question watches a later page.)     *)
LayoutSettles == phase = "DONE" /\ LooksBack => Settled

(* The same of every form the publish check accepts.  (compute_layout:     *)
(* pages the route skips are hidden, which changes what the remaining      *)
(* conditions can see, "so the two settle together".)                      *)
RoutesSettle == phase = "DONE" => Settled
=============================================================================
