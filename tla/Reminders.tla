----------------------------- MODULE Reminders -----------------------------
(***************************************************************************)
(* Reminders of an event, sent by a cron job that may run twice at once or *)
(* die at any point: events/reminders.py.  A run lists the people to       *)
(* remind, then claims each reminder by inserting its EventReminder row    *)
(* before it sends it.                                                     *)
(***************************************************************************)
EXTENDS Naturals, FiniteSets, Sequences

CONSTANTS People, Runs, MaxMoves  \* how often the start may be moved

MovesBounded == MaxMoves \in Nat

Leads  == {"DAY", "HOUR"}
\* Where the clock stands before the start; FAR: more than a day ahead.
Phases == <<"FAR", "DAY", "HOUR", "STARTED">>

VARIABLES
    clock,     \* index in Phases
    since,     \* the phase in which each person registered, or 0
    claimed,   \* EventReminder rows: <<person, lead>>
    sent,      \* reminders that reached each person
    run,       \* what each run still has to do
    moves      \* bound: how often the start was moved

vars == <<clock, since, claimed, sent, run, moves>>

Stopped == [todo |-> {}, sending |-> {}]

TypeOK ==
    /\ clock \in DOMAIN Phases
    /\ since \in [People -> 0..Len(Phases)]
    /\ claimed \subseteq People \X Leads
    /\ sent \in [People \X Leads -> Nat]
    /\ run \in [Runs -> [todo : SUBSET (People \X Leads), sending : SUBSET (People \X Leads)]]
    /\ moves \in 0..MaxMoves

Init ==
    /\ clock = 1
    /\ since = [p \in People |-> 0]
    /\ claimed = {}
    /\ sent = [reminder \in People \X Leads |-> 0]
    /\ run = [r \in Runs |-> Stopped]
    /\ moves = 0

-----------------------------------------------------------------------------
Due(lead) == IF lead = "DAY" THEN clock \in {2, 3} ELSE clock = 3

\* _recipients: registered before the reminder's moment, and not claimed yet.
Recipients(lead) ==
    {reminder \in People \X {lead} :
        /\ since[reminder[1]] \in (IF lead = "DAY" THEN {1} ELSE {1, 2})
        /\ reminder \notin claimed}

Register(p) ==
    /\ since[p] = 0 /\ clock < 4
    /\ since' = [since EXCEPT ![p] = clock]
    /\ UNCHANGED <<clock, claimed, sent, run, moves>>

Cancel(p) ==
    /\ since[p] # 0 /\ clock < 4
    /\ since' = [since EXCEPT ![p] = 0]
    /\ UNCHANGED <<clock, claimed, sent, run, moves>>

Tick ==
    /\ clock < 4
    /\ clock' = clock + 1
    /\ UNCHANGED <<since, claimed, sent, run, moves>>

\* The event is moved to a later day.
Postpone ==
    /\ moves < MaxMoves
    /\ moves' = moves + 1
    /\ clock' = 1
    /\ since' = [p \in People |-> IF since[p] = 0 THEN 0 ELSE 1]
    /\ UNCHANGED <<claimed, sent, run>>

List(r, lead) ==
    /\ run[r] = Stopped /\ Due(lead)
    /\ run' = [run EXCEPT ![r].todo = Recipients(lead)]
    /\ UNCHANGED <<clock, since, claimed, sent, moves>>

\* Mutant: the list alone says who is still to be reminded.
ClaimListed(r) ==
    \E reminder \in run[r].todo :
        /\ run[r].sending = {}
        /\ claimed' = claimed \cup {reminder}
        /\ run' = [run EXCEPT ![r].todo = @ \ {reminder}, ![r].sending = {reminder}]
        /\ UNCHANGED <<clock, since, sent, moves>>

\* get_or_create: whoever inserts the row sends.
Claim(r) ==
    \E reminder \in run[r].todo :
        /\ run[r].sending = {}
        /\ claimed' = claimed \cup {reminder}
        /\ run' = [run EXCEPT ![r].todo = @ \ {reminder},
                              ![r].sending = IF reminder \in claimed THEN {} ELSE {reminder}]
        /\ UNCHANGED <<clock, since, sent, moves>>

Send(r) ==
    \E reminder \in run[r].sending :
        /\ sent' = [sent EXCEPT ![reminder] = @ + 1]
        /\ run' = [run EXCEPT ![r].sending = {}]
        /\ UNCHANGED <<clock, since, claimed, moves>>

Die(r) ==
    /\ run[r] # Stopped
    /\ run' = [run EXCEPT ![r] = Stopped]
    /\ UNCHANGED <<clock, since, claimed, sent, moves>>

Next == \/ \E p \in People : Register(p) \/ Cancel(p)
        \/ Tick \/ Postpone
        \/ \E r \in Runs : Claim(r) \/ Send(r) \/ Die(r) \/ \E lead \in Leads : List(r, lead)
Spec == Init /\ [][Next]_vars

-----------------------------------------------------------------------------
(* Nobody is sent the same reminder twice, though runs overlap, die and    *)
(* start again, people leave and come back, and the event is postponed.    *)
(* (reminders.py: running it more often, or twice at once, never sends the *)
(* same reminder twice.  A run that dies after its claim sends it never.)  *)
RemindedOnce == \A reminder \in People \X Leads : sent[reminder] <= 1
=============================================================================
