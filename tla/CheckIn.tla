------------------------------ MODULE CheckIn ------------------------------
(***************************************************************************)
(* Check-in on the day: CheckInService of checkin.py and the sessions of   *)
(* check_in_sessions.py.  One session is the arrival; others, scheduled or *)
(* added by an organizer, may need it.                                     *)
(*                                                                         *)
(* No handler locks anything, so a request is two steps, what it looks up  *)
(* and what it commits, and the database only enforces its foreign keys:   *)
(* CheckIn.session restricts, CheckIn.team cascades.  A scan made offline  *)
(* arrives whenever its volunteer is online again, perhaps twice, which is *)
(* a request at a later time; a code's age and a session's window only     *)
(* decide whether a scan is made at all.                                   *)
(***************************************************************************)
EXTENDS Naturals, FiniteSets

CONSTANTS People, Teams,
          Scheduled, Custom,  \* sessions of the schedule, and those added by hand
          Staff               \* requests the desk and the organizers have at one time

Arrival  == "ARRIVAL"
Sessions == {Arrival} \cup Scheduled \cup Custom

VARIABLES
    session,  \* the CheckInSession rows: absent, or their switches
    record,   \* the CheckIn row of a person in a session
    member,   \* the team each person is on
    standing, \* Team.status as check-in tells it apart
    request,  \* what each request has looked up
    orphaned  \* people whose arrival was deleted with a team they had left

vars == <<session, record, member, standing, request, orphaned>>

Absent  == [there |-> FALSE, active |-> FALSE, outside |-> FALSE, needs |-> FALSE]
Row(b)  == [there |-> TRUE, active |-> TRUE, outside |-> FALSE, needs |-> b]
None    == [team |-> "NONE", free |-> FALSE]
In(t, b) == [team |-> t, free |-> b]  \* free of the arrival rule
Idle    == [op |-> "IDLE"]
Keys    == Sessions \X People

\* Who is in a session is there for a team.
TeamsNamed == None.team \notin Teams

TypeOK ==
    /\ session \in [Sessions -> [there : BOOLEAN, active : BOOLEAN,
                                 outside : BOOLEAN, needs : BOOLEAN]]
    /\ record \in [Keys -> {None} \cup {In(t, b) : t \in Teams, b \in BOOLEAN}]
    /\ member \in [People -> Teams]
    /\ standing \in [Teams -> {"PLACED", "HELD", "REMOVED", "DELETED"}]
    /\ \A k \in Staff : request[k].op \in {"IDLE", "SCAN", "UNDO", "DROP", "WITHDRAW"}
    /\ orphaned \subseteq People

Init ==
    /\ session = [s \in Sessions |-> IF s \in Custom THEN Absent ELSE Row(s # Arrival)]
    /\ record = [k \in Keys |-> None]
    /\ member \in [People -> Teams]
    /\ standing = [t \in Teams |-> "PLACED"]
    /\ request = [k \in Staff |-> Idle]
    /\ orphaned = {}

-----------------------------------------------------------------------------
Present(s, p)    == record[<<s, p>>] # None
Arrived(p)   == Present(Arrival, p)
Scannable(s) == session[s].there /\ session[s].active /\ ~session[s].outside
Later(ps)    == {k \in Keys : k[1] # Arrival /\ k[2] \in ps /\ record[k] # None}
Ask(k, r)    == request' = [request EXCEPT ![k] = r]
Erase(ks)    == record' = [k \in Keys |-> IF k \in ks THEN None ELSE record[k]]

-----------------------------------------------------------------------------
(* Checking people in: by their code, by their team's, or from the list.   *)

\* _record: a session that needs arrival takes who has arrived, or who an
\* organizer lets in; the reason is kept only if it was needed.
BeginScan(k, s, ps, override) ==
    LET needed == s # Arrival /\ session[s].needs
        absent == {p \in ps : needed /\ ~Arrived(p)}
        taken  == IF override THEN ps ELSE ps \ absent
    IN  /\ request[k] = Idle
        /\ Scannable(s)
        /\ \A p \in ps : \/ standing[member[p]] = "PLACED"
                         \/ standing[member[p]] = "HELD" /\ override
        /\ taken # {}
        /\ Ask(k, [op |-> "SCAN", session |-> s, people |-> taken,
                   free |-> IF needed THEN absent ELSE taken, team |-> [p \in taken |-> member[p]]])
        /\ UNCHANGED <<session, record, member, standing, orphaned>>

\* get_or_create: who is in stays as they were.  A row of a session or of a
\* team that is gone violates its foreign key.
CommitScan(k) ==
    LET r == request[k]
    IN  /\ r.op = "SCAN"
        /\ IF session[r.session].there /\ \A p \in r.people : standing[r.team[p]] # "DELETED"
           THEN /\ record' = [key \in Keys |->
                        IF key \in {r.session} \X r.people /\ record[key] = None
                        THEN In(r.team[key[2]], key[2] \in r.free) ELSE record[key]]
                /\ orphaned' = IF r.session = Arrival THEN orphaned \ r.people ELSE orphaned
           ELSE UNCHANGED <<record, orphaned>>
        /\ Ask(k, Idle)
        /\ UNCHANGED <<session, member, standing>>

-----------------------------------------------------------------------------
(* Taking people off: one (undo), or those of one team scan (undo_batch).  *)

\* Mutant: the sessions that came after the arrival are left as they are.
BeginUndoOne(k, s, ps, cascade) ==
    /\ request[k] = Idle
    /\ session[s].there /\ \A p \in ps : Present(s, p)
    /\ Ask(k, [op |-> "UNDO", session |-> s, people |-> ps, later |-> FALSE])
    /\ UNCHANGED <<session, record, member, standing, orphaned>>

BeginUndo(k, s, ps, cascade) ==
    LET later == s = Arrival /\ Later(ps) # {}
    IN  /\ request[k] = Idle
        /\ session[s].there /\ \A p \in ps : Present(s, p)
        /\ later => cascade
        /\ Ask(k, [op |-> "UNDO", session |-> s, people |-> ps, later |-> later])
        /\ UNCHANGED <<session, record, member, standing, orphaned>>

CommitUndo(k) ==
    LET r == request[k]
    IN  /\ r.op = "UNDO"
        /\ Erase(({r.session} \X r.people) \cup (IF r.later THEN Later(r.people) ELSE {}))
        /\ Ask(k, Idle)
        /\ UNCHANGED <<session, member, standing, orphaned>>

-----------------------------------------------------------------------------
(* The sessions: one that anybody is checked in to is kept and retired.    *)

\* check_in_sessions.delete, and sync for a session that left the schedule.
BeginDrop(k, s) ==
    /\ request[k] = Idle
    /\ s # Arrival /\ session[s].there
    /\ Ask(k, [op |-> "DROP", session |-> s, empty |-> \A p \in People : ~Present(s, p)])
    /\ UNCHANGED <<session, record, member, standing, orphaned>>

\* Mutant: the foreign key cascades.
CommitDropCascading(k) ==
    LET r == request[k]
    IN  /\ r.op = "DROP"
        /\ session' = [session EXCEPT ![r.session] =
                          IF ~@.there THEN @ ELSE IF r.empty THEN Absent ELSE [@ EXCEPT !.outside = TRUE]]
        /\ IF r.empty THEN Erase({r.session} \X People) ELSE UNCHANGED record
        /\ Ask(k, Idle)
        /\ UNCHANGED <<member, standing, orphaned>>

\* CheckIn.session is RESTRICT: a scan that came in since fails the delete.
CommitDrop(k) ==
    LET r == request[k]
        s == r.session
    IN  /\ r.op = "DROP"
        /\ session' = [session EXCEPT ![s] =
                          IF ~@.there THEN @
                          ELSE IF ~r.empty THEN [@ EXCEPT !.outside = TRUE]
                          ELSE IF \E p \in People : Present(s, p) THEN @ ELSE Absent]
        /\ Ask(k, Idle)
        /\ UNCHANGED <<record, member, standing, orphaned>>

\* create, or sync: a session that is back in the schedule, or a new row,
\* which no request knows yet.
OpenSession(s, needs) ==
    /\ s # Arrival
    /\ IF session[s].there
       THEN session[s].outside /\ session' = [session EXCEPT ![s].outside = FALSE]
       ELSE /\ s \in Scheduled => needs
            /\ \A k \in Staff : request[k].op \in {"SCAN", "UNDO", "DROP"} => request[k].session # s
            /\ session' = [session EXCEPT ![s] = Row(needs)]
    /\ UNCHANGED <<record, member, standing, request, orphaned>>

\* check_in_sessions.update: the arrival session is never switched off.
EditSession(s, active, needs) ==
    /\ session[s].there /\ s # Arrival
    /\ session' = [session EXCEPT ![s].active = active, ![s].needs = needs]
    /\ UNCHANGED <<record, member, standing, request, orphaned>>

-----------------------------------------------------------------------------
(* The teams. *)

NoShows == {t \in Teams : /\ standing[t] = "PLACED"
                          /\ \A p \in People : record[<<Arrival, p>>].team # t}

BeginWithdraw(k, ts) ==
    /\ request[k] = Idle
    /\ ts # {} /\ ts \subseteq NoShows
    /\ Ask(k, [op |-> "WITHDRAW", teams |-> ts])
    /\ UNCHANGED <<session, record, member, standing, orphaned>>

CommitWithdraw(k) ==
    LET r == request[k]
    IN  /\ r.op = "WITHDRAW"
        /\ standing' = [t \in Teams |-> IF t \in r.teams /\ standing[t] # "DELETED"
                                        THEN "REMOVED" ELSE standing[t]]
        /\ Ask(k, Idle)
        /\ UNCHANGED <<session, record, member, orphaned>>

SetStanding(t, s) ==
    /\ standing[t] # "DELETED" /\ standing[t] # s
    /\ standing' = [standing EXCEPT ![t] = s]
    /\ UNCHANGED <<session, record, member, request, orphaned>>

\* The check-ins made for the team go with it, later ones for another stay.
DeleteTeam(t) ==
    /\ standing[t] # "DELETED"
    /\ standing' = [standing EXCEPT ![t] = "DELETED"]
    /\ Erase({k \in Keys : record[k].team = t})
    /\ orphaned' = orphaned \cup {p \in People : record[<<Arrival, p>>].team = t}
    /\ UNCHANGED <<session, member, request>>

Move(p, t) ==
    /\ t # member[p] /\ standing[t] # "DELETED"
    /\ member' = [member EXCEPT ![p] = t]
    /\ UNCHANGED <<session, record, standing, request, orphaned>>

-----------------------------------------------------------------------------
Begin(k) ==
    \/ \E s \in Sessions, ps \in SUBSET People \ {{}}, b \in BOOLEAN :
          BeginScan(k, s, ps, b) \/ BeginUndo(k, s, ps, b)
    \/ \E s \in Sessions : BeginDrop(k, s)
    \/ \E ts \in SUBSET Teams : BeginWithdraw(k, ts)

Commit(k) == CommitScan(k) \/ CommitUndo(k) \/ CommitDrop(k) \/ CommitWithdraw(k)

Organize ==
    \/ \E s \in Sessions, a, n \in BOOLEAN : OpenSession(s, n) \/ EditSession(s, a, n)
    \/ \E t \in Teams : DeleteTeam(t) \/ \E s \in {"PLACED", "HELD", "REMOVED"} : SetStanding(t, s)
    \/ \E p \in People, t \in Teams : Move(p, t)

Next == Organize \/ \E k \in Staff : Begin(k) \/ Commit(k)
Spec == Init /\ [][Next]_vars

-----------------------------------------------------------------------------
(* With one request at a time: whoever was taken into a session that       *)
(* needed arrival without being let in has arrived, however scans, undos   *)
(* of one person or of a batch, with or without the later sessions, follow *)
(* each other; deleting a team somebody has left is the one exception.     *)
(* (CheckInService._record, undo and undo_batch.)                          *)
ArrivedFirst ==
    \A s \in Sessions \ {Arrival}, p \in People :
        Present(s, p) /\ ~record[<<s, p>>].free
            => Arrived(p) \/ p \in orphaned

KeepsCheckIns ==
    \A k \in Keys : record[k] # None /\ record'[k] # record[k] =>
        \/ \E t \in Teams : record[k].team = t /\ standing'[t] = "DELETED"
        \/ \E q \in Staff : request[q].op = "UNDO" /\ k[2] \in request[q].people

(* Changing the schedule or deleting a session loses no check-in, whatever *)
(* scans commit meanwhile: a row goes only when it is undone or with its   *)
(* team, and its session stays.  (check_in_sessions.py: sessions that have *)
(* people checked in are never deleted.)                                   *)
CheckInsAreKept ==
    [][KeepsCheckIns]_vars
=============================================================================
