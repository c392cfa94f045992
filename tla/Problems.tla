------------------------------ MODULE Problems ------------------------------
(***************************************************************************)
(* The problem statements of a hackathon and the teams' choice of one, or  *)
(* of open innovation: _resolve_problem and update_team of services.py,    *)
(* ProblemStatementService, and the admin views of statements.             *)
(*                                                                         *)
(* A request loads the statement before its transaction.  The transaction  *)
(* locks the statement's row, counts the teams that hold it, and saves the *)
(* team: three steps, and two teams' requests may overlap.  With Overlap   *)
(* organizers' changes come between a request's steps as well.             *)
(*                                                                         *)
(* Whether the statements are revealed and whether open innovation is      *)
(* allowed decide only if a request is made at all.                        *)
(***************************************************************************)
EXTENDS Naturals, FiniteSets

CONSTANTS
    Teams,
    MaxCode,   \* bound on the numbers of PS-001, PS-002...
    Maxima,    \* values of ProblemStatement.max_teams; 0 is blank
    Overlap    \* whether organizers act while a team's request runs

VARIABLES
    statement, \* the ProblemStatement of each code, or None
    team,      \* status, problem and whether it is in a round
    req,       \* the request each team runs
    drop       \* the deletion an organizer has looked up, or Idle

vars == <<statement, team, req, drop>>

Codes == 1..MaxCode
None  == [active |-> FALSE, max |-> 0, here |-> FALSE]
Open  == MaxCode + 1  \* open innovation
NoPick == 0
Idle  == [op |-> "IDLE"]

\* A statement may be left without a maximum.
MaximaCount == Maxima \subseteq Nat /\ 0 \in Maxima /\ MaxCode \in Nat

Pick(op, by, c, s) == [op |-> op, by |-> by, code |-> c, max |-> s.max, active |-> s.active]
NoTeam == [status |-> "NONE", problem |-> NoPick, entered |-> FALSE]

TypeOK ==
    /\ statement \in [Codes -> [active : BOOLEAN, max : Maxima \cup {0}, here : BOOLEAN]]
    /\ \A c \in Codes : ~statement[c].here => statement[c] = None
    /\ team \in [Teams -> [status : {"NONE", "UNPAID", "ACTIVE", "GONE"}, problem : NoPick..Open, entered : BOOLEAN]]
    /\ req \in [Teams -> {Idle} \cup [op : {"LOADED", "COUNTED"}, by : {"TEAM", "ORGANIZER"}, code : Codes,
                                  max : Maxima, active : BOOLEAN]]
    /\ drop \in {Idle} \cup [op : {"DROP"}, code : Codes, force : BOOLEAN]

Init ==
    /\ statement = [c \in Codes |-> None]
    /\ team = [g \in Teams |-> NoTeam]
    /\ req = [g \in Teams |-> Idle]
    /\ drop = Idle

-----------------------------------------------------------------------------
Here(c)       == statement[c].here
Holders(c)    == {g \in Teams : team[g].problem = c}
Active(c)     == {g \in Holders(c) : team[g].status = "ACTIVE"}
Counting(c)   == {g \in Teams : req[g].op = "COUNTED" /\ req[g].code = c}
Counted(g)    == req[g].op = "COUNTED"

\* The row of a statement is locked from the count to the save.
StatementFree(c) == Counting(c) = {}

\* _lock_team, and the row of a team in the making.
TeamFree(g) == ~Counted(g)

\* An organizer's request comes while no other runs.
Quiet == Overlap \/ (drop = Idle /\ \A g \in Teams : req[g] = Idle)

-----------------------------------------------------------------------------
(* create_team and update_team                                             *)

\* _parse_problem_choice
LoadStatement(g, by, c) ==
    /\ req[g] = Idle /\ Here(c)
    /\ by = "TEAM" => team[g].status # "UNPAID" /\ team[g].status # "GONE"
    /\ req' = [req EXCEPT ![g] = Pick("LOADED", by, c, statement[c])]
    /\ Overlap \/ drop = Idle
    /\ UNCHANGED <<statement, team, drop>>

Kept(g, c) == team[g].status # "NONE" /\ team[g].problem = c

\* _check_problem_statement: a team keeps what it holds; otherwise the statement
\* it has loaded was active, and there is room now.
HasRoom(g, c, max) == max = 0 \/ Cardinality(Active(c) \ {g}) < max

\* A team in a round keeps its problem unless an organizer changes it.
MayChange(g, by, p) == team[g].entered /\ by = "TEAM" => p = team[g].problem

CountTeams(g) ==
    LET r == req[g]
    IN  /\ r.op = "LOADED"
        /\ StatementFree(r.code)
        /\ Kept(g, r.code) \/ (r.active /\ HasRoom(g, r.code, r.max))
        /\ MayChange(g, r.by, r.code)
        /\ req' = [req EXCEPT ![g].op = "COUNTED"]
        /\ UNCHANGED <<statement, team, drop>>

\* A new team waits for its payment where a fee is asked, and is not counted until then.
SaveTeam(g) ==
    LET r == req[g]
    IN  /\ Counted(g) /\ Here(r.code)
        /\ \E s \in IF team[g].status = "NONE" THEN {"ACTIVE", "UNPAID"} ELSE {team[g].status} :
              team' = [team EXCEPT ![g].problem = r.code, ![g].status = s]
        /\ req' = [req EXCEPT ![g] = Idle]
        /\ UNCHANGED <<statement, drop>>

\* Refused, or rolled back.
Fail(g) ==
    /\ req[g] # Idle
    /\ req' = [req EXCEPT ![g] = Idle]
    /\ UNCHANGED <<statement, team, drop>>

\* Open innovation, or nothing where there is no active statement.
GoWithout(g, by, p) ==
    /\ p \in {Open, NoPick} /\ req[g] = Idle
    /\ by = "TEAM" => team[g].status # "UNPAID" /\ team[g].status # "GONE"
    /\ p = NoPick => \A c \in Codes : ~statement[c].active
    /\ MayChange(g, by, p)
    /\ team' = [team EXCEPT ![g].problem = p, ![g].status = IF @ = "NONE" THEN "ACTIVE" ELSE @]
    /\ UNCHANGED <<statement, req, drop>>

-----------------------------------------------------------------------------
(* Organizers *)

\* next_code: one more than the highest there is, under the hackathon's lock.
NextCode == CHOOSE c \in 1..MaxCode + 1 :
               /\ \A d \in Codes : d >= c => ~Here(d)
               /\ c > 1 => Here(c - 1)

Add(codes, m) ==
    /\ Quiet /\ codes \subseteq Codes
    /\ statement' = [c \in Codes |-> IF c \in codes THEN [active |-> TRUE, max |-> m, here |-> TRUE] ELSE statement[c]]
    /\ UNCHANGED <<team, req, drop>>

CreateStatement(m) == Add({NextCode}, m)

\* The valid new rows of a CSV, without a maximum.
ImportStatements(n) == Add(NextCode..NextCode + n - 1, 0)

EditStatement(c, active, m) ==
    /\ Quiet /\ Here(c) /\ StatementFree(c)
    /\ statement' = [statement EXCEPT ![c].active = active, ![c].max = m]
    /\ UNCHANGED <<team, req, drop>>

\* ProblemStatementDetailView.delete counts the teams, then deletes in a statement of its own.
BeginDelete(c, force) ==
    /\ Quiet /\ drop = Idle /\ Here(c)
    /\ force \/ Holders(c) = {}
    /\ drop' = [op |-> "DROP", code |-> c, force |-> force]
    /\ UNCHANGED <<statement, team, req>>

CommitDelete ==
    LET c == drop.code
    IN  /\ drop # Idle /\ StatementFree(c) /\ \A g \in Holders(c) : TeamFree(g)
        /\ statement' = [statement EXCEPT ![c] = None]
        /\ team' = [g \in Teams |-> IF g \in Holders(c) THEN [team[g] EXCEPT !.problem = NoPick] ELSE team[g]]
        /\ drop' = Idle
        /\ UNCHANGED req

\* verify; admin_set_status; rounds; a withdrawal.
ManageTeam(g) ==
    /\ Quiet /\ TeamFree(g)
    /\ \/ team[g].status = "UNPAID" /\ team' = [team EXCEPT ![g].status = "ACTIVE"]
       \/ team[g].status = "ACTIVE" /\ team' = [team EXCEPT ![g].status = "GONE"]
       \/ team[g].status = "GONE" /\ team' = [team EXCEPT ![g].status = "ACTIVE"]
       \/ team[g].status = "ACTIVE" /\ \E b \in BOOLEAN : team' = [team EXCEPT ![g].entered = b]
       \/ team[g].status # "NONE" /\ req[g] = Idle /\ team' = [team EXCEPT ![g] = NoTeam]
    /\ UNCHANGED <<statement, req, drop>>

Choose(g) ==
    \/ \E by \in {"TEAM", "ORGANIZER"} :
          \/ \E c \in Codes : LoadStatement(g, by, c)
          \/ \E p \in {Open, NoPick} : GoWithout(g, by, p)
    \/ CountTeams(g) \/ SaveTeam(g) \/ Fail(g)

Organize ==
    \/ \E m \in Maxima : CreateStatement(m) \/ \E c \in Codes, b \in BOOLEAN : EditStatement(c, b, m)
    \/ \E n \in 1..MaxCode : ImportStatements(n)
    \/ \E c \in Codes, b \in BOOLEAN : BeginDelete(c, b)
    \/ CommitDelete

Next == Organize \/ \E g \in Teams : Choose(g) \/ ManageTeam(g)
Spec == Init /\ [][Next]_vars

-----------------------------------------------------------------------------
ChoicesFit ==
    \A g \in Teams, c \in Codes :
        Counted(g) /\ req'[g] = Idle /\ team'[g].problem = c /\ team[g].problem # c /\ statement[c].max > 0
           => Cardinality(Active(c)') <= statement[c].max

DeletesFree ==
    drop # Idle /\ ~drop.force /\ drop' = Idle => team' = team

(* A choice that is saved never fills a statement past its maximum, though *)
(* two teams ask for its last place at the same time, and a deletion that  *)
(* is not forced takes no team's problem away; both as long as requests of *)
(* organizers come one at a time, between those of teams.  (Verifying a    *)
(* payment and reinstating a team do not look at the maximum.)             *)
(* (_resolve_problem, _check_problem_statement, delete.)                   *)
StatementsStand == [][ChoicesFit /\ DeletesFree]_vars
=============================================================================
