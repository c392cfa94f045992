--------------------------- MODULE QuestionRules ---------------------------
(***************************************************************************)
(* The rules of one question: what the builder's publish check says of     *)
(* them (forms/validation/definition.py, _check_rules, _check_satisfiable) *)
(* against the answers a submission takes (rules.py, field_types.py,       *)
(* values.py).                                                             *)
(*                                                                         *)
(* An answer is what its rules measure of it.  Numbers count halves, and   *)
(* bounds are whole; a date is a day relative to today.                    *)
(***************************************************************************)
EXTENDS Integers, FiniteSets

CONSTANTS
    Kinds,     \* of question
    Written,   \* the bounds the builder may write, for each kind
    Moments,   \* when a written date or time is, and how it sorts as text
    Limits,    \* the ceilings of the platform and the options of the question
    Reach      \* how far the numbers, days and counts that are considered go

VARIABLES kind, rule, flags, verdict

vars == <<kind, rule, flags, verdict>>

\* MAX_TEXT_LENGTH, the options of a choice question, DEFAULT_MAX_FILES,
\* file_limit_bytes and platform_file_limit_bytes, MAX_TOTAL_FILE_BYTES,
\* MAX_SCALE_SPAN.
Ceilings == {"length", "options", "files", "defaultSize", "size", "total", "span"}

\* RULE_COMPAT: the bounds and the switches of a kind.  LOW and HIGH are the
\* min_value and max_value columns of a scale.
Keys(k) ==
    CASE k = "TEXT"      -> {"minLength", "maxLength", "exactLength"}
      [] k = "PARAGRAPH" -> {"minLength", "maxLength", "exactLength", "minWords", "maxWords"}
      [] k = "NUMBER"    -> {"minValue", "maxValue", "exactValue"}
      [] k = "COMPARED"  -> {"gt", "gte", "lt", "lte"}
      [] k = "SCALE"     -> {"LOW", "HIGH"}
      [] k = "CHECKBOX"  -> {"minSelected", "maxSelected", "exactSelected"}
      [] k = "PHONE"     -> {"minDigits", "maxDigits"}
      [] k = "DATE"      -> {"minDate", "maxDate", "notBefore", "notAfter"}
      [] k = "TIME"      -> {"minTime", "maxTime"}
      [] k = "FILES"     -> {"minFiles", "maxFiles", "minFileSize", "maxFileSize"}
Switches(k) ==
    CASE k = "NUMBER"   -> {"positiveOnly", "noNegative", "integerOnly"}
      [] k = "COMPARED" -> {"integerOnly"}
      [] k = "CHECKBOX" -> {"allowOther"}
      [] k = "PHONE"    -> {"pattern"}
      [] k = "DATE"     -> {"pastOnly", "futureOnly", "noToday"}
      [] k = "FILES"    -> {"allowDOC", "allowEXE", "blockDOC", "blockEXE"}
      [] OTHER          -> {}

Counted  == {"TEXT", "PARAGRAPH", "CHECKBOX", "PHONE", "FILES"}
Numbered == {"NUMBER", "COMPARED", "SCALE"}
Dated    == {"DATE", "TIME"}

\* Bounds on counts are no less than zero (NON_NEGATIVE_KEYS), those on
\* numbers whole; dates and times can be read (_check_bounds_parse).
BoundsReadable ==
    /\ Kinds \subseteq Counted \cup Numbered \cup Dated
    /\ Reach \in Nat /\ Reach >= 16
    /\ \A c \in Ceilings : Limits[c] \in Nat \ {0}
    /\ \A k \in Kinds \cap Counted : Written[k] \subseteq 0..Reach
    /\ \A k \in Kinds \cap Numbered : \A n \in Written[k] :
           n \in 4 - Reach..Reach - 4 /\ n % 2 = 0
    /\ \A k \in Kinds \cap Dated : \A b \in Written[k] :
           Moments[b].at \in 1 - Reach..Reach - 1 /\ Moments[b].text \in Int

TypeOK ==
    /\ kind \in Kinds
    /\ DOMAIN rule \subseteq Keys(kind)
    /\ \A k \in DOMAIN rule : rule[k] \in Written[kind]
    /\ flags \subseteq Switches(kind)
    /\ verdict \in {"NONE", "PUBLISHABLE", "REFUSED"}

Init ==
    /\ kind \in Kinds
    /\ rule \in UNION {[keys -> Written[kind]] : keys \in SUBSET Keys(kind)}
    /\ flags \in SUBSET Switches(kind)
    /\ verdict = "NONE"

Has(k) == k \in DOMAIN rule
On(f)  == f \in flags
At(k)  == IF kind \in Dated THEN Moments[rule[k]].at ELSE rule[k]
Listed(switch) == {t \in DOMAIN switch : On(switch[t])}
Allowed == Listed([DOC |-> "allowDOC", EXE |-> "allowEXE"])
Blocked == Listed([DOC |-> "blockDOC", EXE |-> "blockEXE"])

-----------------------------------------------------------------------------
(* What a submission takes                                                 *)

\* Coerced, not blank, and fit for the kind: field_types.py.
ParagraphValues == {v \in [length : 1..Limits["length"], words : 1..Limits["length"]] :
                       2 * v.words - 1 <= v.length}
ScaleValues == {v \in [number : -Reach..Reach] :
                   /\ v.number % 2 = 0
                   /\ v.number >= IF Has("LOW") THEN At("LOW") ELSE 2
                   /\ v.number <= IF Has("HIGH") THEN At("HIGH") ELSE 10}
PhoneValues == [digits : IF On("pattern") THEN 0..Reach ELSE 7..15]
CheckboxValues == [selected : 1..IF On("allowOther") THEN Reach ELSE Limits["options"]]
SizeLimit   == IF Has("maxFileSize") THEN Limits["size"] ELSE Limits["defaultSize"]
FileValues == {v \in [files : 1..Reach, size : 1..SizeLimit, of : {"DOC", "EXE", "OTHER"}] :
                   /\ v.files * v.size <= Limits["total"]
                   /\ Has("maxFiles") \/ v.files <= Limits["files"]
                   /\ Allowed = {} \/ v.of \in Allowed
                   /\ v.of \notin Blocked
                   /\ v.of = "EXE" => v.of \in Allowed}
Values ==
    CASE kind = "TEXT"      -> [length : 1..Limits["length"]]
      [] kind = "PARAGRAPH" -> ParagraphValues
      [] kind \in {"NUMBER", "COMPARED"} -> [number : -Reach..Reach]
      [] kind = "SCALE"     -> ScaleValues
      [] kind = "CHECKBOX"  -> CheckboxValues
      [] kind = "PHONE"     -> PhoneValues
      [] kind = "DATE"      -> [day : -Reach..Reach]
      [] kind = "TIME"      -> [hour : -Reach..Reach]
      [] kind = "FILES"     -> FileValues

Measured(k, v) ==
    CASE k \in {"minLength", "maxLength", "exactLength"} -> v.length
      [] k \in {"minWords", "maxWords"} -> v.words
      [] kind \in {"NUMBER", "COMPARED", "SCALE"} -> v.number
      [] kind = "CHECKBOX" -> v.selected
      [] kind = "PHONE" -> v.digits
      [] kind = "DATE" -> v.day
      [] kind = "TIME" -> v.hour
      [] k \in {"minFiles", "maxFiles"} -> v.files
      [] k \in {"minFileSize", "maxFileSize"} -> v.size

AtLeast == {"minLength", "minWords", "minValue", "gte", "minSelected", "minDigits", "minDate",
            "notBefore", "minTime", "minFiles", "minFileSize"}
AtMost  == {"maxLength", "maxWords", "maxValue", "lte", "maxSelected", "maxDigits", "maxDate",
            "notAfter", "maxTime", "maxFiles", "maxFileSize"}
Exactly == {"exactLength", "exactValue", "exactSelected"}

Passes(k, v) ==
    /\ k \in AtLeast => Measured(k, v) >= At(k)
    /\ k \in AtMost  => Measured(k, v) <= At(k)
    /\ k \in Exactly => Measured(k, v) = At(k)
    /\ k = "gt" => Measured(k, v) > At(k)
    /\ k = "lt" => Measured(k, v) < At(k)

NumberSwitches(v) ==
    /\ On("positiveOnly") => v.number > 0
    /\ On("noNegative") => v.number >= 0
    /\ On("integerOnly") => v.number % 2 = 0
DateSwitches(v) ==
    /\ On("pastOnly") => v.day < 0
    /\ On("futureOnly") => v.day > 0
    /\ On("noToday") => v.day # 0

\* apply_rules.
Accepted(v) == /\ \A k \in DOMAIN rule : Passes(k, v)
               /\ NumberSwitches(v) /\ DateSwitches(v)
Answerable  == \E v \in Values : Accepted(v)

-----------------------------------------------------------------------------
(* What the publish check says                                             *)

Over(k, l)    == Has(k) /\ Has(l) /\ At(k) > At(l)
TextOver(k, l) == Has(k) /\ Has(l) /\ Moments[rule[k]].text > Moments[rule[l]].text

\* MIN_MAX_PAIRS.  Dates and times are compared as they are written.
Reversed ==
    \/ \E pair \in {<<"minLength", "maxLength">>, <<"minWords", "maxWords">>, <<"minValue", "maxValue">>,
                    <<"gte", "lte">>, <<"minSelected", "maxSelected">>, <<"minDigits", "maxDigits">>,
                    <<"minFiles", "maxFiles">>} : Over(pair[1], pair[2])
    \/ TextOver("minDate", "maxDate") \/ TextOver("minTime", "maxTime")

\* The first of two bounds that is set.
FirstOf(k, l) == IF Has(k) THEN {At(k)} ELSE IF Has(l) THEN {At(l)} ELSE {}

OutOfScale == /\ Has("LOW") /\ Has("HIGH")
              /\ At("LOW") >= At("HIGH") \/ At("HIGH") - At("LOW") > 2 * Limits["span"]

\* _check_satisfiable, by kind.
LengthConflict ==
    \/ Over("exactLength", "maxLength") \/ Over("minLength", "exactLength")
    \/ \E k \in {"minLength", "exactLength"} : Has(k) /\ At(k) > Limits["length"]

NumberConflict ==
    \/ Over("exactValue", "maxValue") \/ Over("minValue", "exactValue")
    \/ Has("maxValue") /\ \/ On("positiveOnly") /\ At("maxValue") <= 0
                          \/ On("noNegative") /\ At("maxValue") < 0

\* Mutant: the options are counted with "Other" allowed too.
SelectionConflictAlways ==
    \/ \E k \in {"minSelected", "exactSelected"} : Has(k) /\ At(k) > Limits["options"]
    \/ Over("exactSelected", "maxSelected") \/ Over("minSelected", "exactSelected")

SelectionConflict ==
    \/ \E k \in {"minSelected", "exactSelected"} : Has(k) /\ At(k) > Limits["options"] /\ ~On("allowOther")
    \/ Over("exactSelected", "maxSelected") \/ Over("minSelected", "exactSelected")

PhoneConflict ==
    \/ Has("maxDigits") /\ At("maxDigits") < 7
    \/ Has("minDigits") /\ At("minDigits") > 15

DateConflict ==
    \/ On("pastOnly") /\ On("futureOnly")
    \/ On("futureOnly") /\ \E d \in FirstOf("maxDate", "notAfter") : d <= 0
    \/ On("pastOnly") /\ \E d \in FirstOf("minDate", "notBefore") : d >= 0

FileConflict ==
    \/ Allowed # {} /\ Allowed \subseteq Blocked
    \/ Over("minFileSize", "maxFileSize")
    \/ Has("maxFileSize") /\ At("maxFileSize") > Limits["size"]

Conflicts == \/ LengthConflict \/ NumberConflict \/ SelectionConflict
             \/ PhoneConflict \/ DateConflict \/ FileConflict

\* validate_form_definition, for one question.
Check ==
    /\ verdict = "NONE"
    /\ verdict' = IF Reversed \/ OutOfScale \/ Conflicts THEN "REFUSED" ELSE "PUBLISHABLE"
    /\ UNCHANGED <<kind, rule, flags>>

Next == Check
Spec == Init /\ [][Next]_vars

-----------------------------------------------------------------------------
\* The fewest that a bound lets pass.
Least(k) == IF Has(k) /\ At(k) > 1 THEN At(k) ELSE 1

\* What the check overlooks: a bound of zero, which only a blank answer meets;
\* more words than the length leaves room for; pairs of bounds, switches and
\* platform limits it does not compare; text that sorts unlike its date.
Overlooked ==
    \/ kind \in {"TEXT", "PARAGRAPH", "CHECKBOX", "FILES"}
          /\ \E k \in DOMAIN rule \cap (AtMost \cup Exactly) : At(k) = 0
    \/ Has("minWords") /\ \E room \in {At(k) : k \in DOMAIN rule \cap {"maxLength", "exactLength"}}
                                         \cup {Limits["length"]} : 2 * At("minWords") - 1 > room
    \/ Has("exactValue") /\ \/ On("positiveOnly") /\ At("exactValue") <= 0
                            \/ On("noNegative") /\ At("exactValue") < 0
    \/ \E pair \in {<<"gt", "lt">>, <<"gt", "lte">>, <<"gte", "lt">>} :
          Has(pair[1]) /\ Has(pair[2]) /\ At(pair[1]) >= At(pair[2])
    \/ On("integerOnly") /\ Has("gt") /\ Has("lt") /\ At("gt") + 2 >= At("lt")
    \/ Has("LOW") /\ ~Has("HIGH") /\ At("LOW") > 10
    \/ Has("HIGH") /\ ~Has("LOW") /\ At("HIGH") < 2
    \/ \E k \in {"minDate", "notBefore"}, l \in {"maxDate", "notAfter"} :
          \/ Over(k, l)
          \/ On("noToday") /\ Has(k) /\ Has(l) /\ At(k) = 0 /\ At(l) = 0
    \/ On("pastOnly") /\ Has("notBefore") /\ At("notBefore") >= 0
    \/ On("futureOnly") /\ Has("notAfter") /\ At("notAfter") <= 0
    \/ Over("minTime", "maxTime")
    \/ Has("minFiles") /\ ~Has("maxFiles") /\ At("minFiles") > Limits["files"]
    \/ Has("minFileSize") /\ At("minFileSize") > SizeLimit
    \/ Least("minFiles") * Least("minFileSize") > Limits["total"]

\* What it refuses though it can be answered: a phone number with a pattern
\* of its own, "today" and a later date, "9:00" and "10:00", a size over the
\* platform's, a scale of one point or of too many.
Overcautious ==
    \/ OutOfScale /\ At("LOW") <= At("HIGH")
    \/ kind = "PHONE" /\ On("pattern")
    \/ TextOver("minDate", "maxDate") /\ ~Over("minDate", "maxDate")
    \/ TextOver("minTime", "maxTime") /\ ~Over("minTime", "maxTime")
    \/ Has("maxFileSize") /\ At("maxFileSize") > Limits["size"]

(* The check refuses the rules that no answer can satisfy, and no others,  *)
(* but for what it is known to overlook and to be overcautious about.      *)
(* (definition.py: "rule combinations no answer can ever satisfy - they    *)
(* would make the form unsubmittable".)                                    *)
RulesJudged ==
    /\ verdict = "PUBLISHABLE" => (Answerable <=> ~Overlooked)
    /\ verdict = "REFUSED" /\ ~Overcautious => ~Answerable
=============================================================================
