-------------------------- MODULE ParticipantProofs --------------------------
(***************************************************************************)
(* What the parts of a hackathon that keep track of its participants keep  *)
(* true: CheckIn, Attendance, Withdrawals and Problems, each for any size  *)
(* of it.  The theorems drawn from these lemmas are in HackathonProofs.    *)
(***************************************************************************)
EXTENDS Hackathon, FiniteSetTheorems, TLAPS

-----------------------------------------------------------------------------
(* CheckIn. *)

SessionRows == [there : BOOLEAN, active : BOOLEAN, outside : BOOLEAN, needs : BOOLEAN]

\* What a request has looked up is of the hackathon.
LookedUp(s, r) ==
    \/ r.op = "IDLE"
    \/ /\ r.op = "SCAN" /\ r.session \in Desk(s)!Sessions
       /\ r.people \subseteq s.people /\ r.team \in [r.people -> s.teams]
    \/ r.op = "UNDO" /\ r.session \in Desk(s)!Sessions /\ r.people \subseteq s.people
    \/ r.op = "DROP" /\ r.session \in Desk(s)!Sessions
    \/ r.op = "WITHDRAW" /\ r.teams \subseteq s.teams

DeskTypes(s) ==
    /\ session \in [Desk(s)!Sessions -> SessionRows]
    /\ record \in [Desk(s)!Keys -> {Desk(s)!None}
                                   \cup {Desk(s)!In(t, b) : t \in s.teams, b \in BOOLEAN}]
    /\ member \in [s.people -> s.teams]
    /\ standing \in [s.teams -> {"PLACED", "HELD", "REMOVED", "DELETED"}]
    /\ DOMAIN request = s.staff /\ \A k \in s.staff : LookedUp(s, request[k])
    /\ orphaned \subseteq s.people

\* Nobody acts between a request's look-up and its commit: who a scan takes as
\* arrived still is, and an undo of arrivals that leaves the later sessions has
\* none to leave.
LookUpsHold(s) ==
    \A k \in s.staff :
        /\ request[k].op = "SCAN" /\ request[k].session # "ARRIVAL" =>
              \A p \in request[k].people \ request[k].free : Desk(s)!Arrived(p) \/ p \in orphaned
        /\ request[k].op = "UNDO" /\ request[k].session = "ARRIVAL" /\ ~request[k].later =>
              Desk(s)!Later(request[k].people) = {}

OneAtDesk(s) == \A j, k \in s.staff : j = k

DeskInv(s) ==
    /\ DeskTypes(s)
    /\ OneAtDesk(s) => LookUpsHold(s) /\ Desk(s)!ArrivedFirst

LEMMA DeskInit == ASSUME NEW s \in CheckInSizes, Desk(s)!Init PROVE DeskInv(s)
<1>1. \A k \in s.staff : request[k].op = "IDLE"
  BY DEF Desk!Init, Desk!Idle
<1>2. \A k \in Desk(s)!Keys : record[k] = Desk(s)!None
  BY DEF Desk!Init
<1>3. DeskTypes(s)
  BY <1>1 DEF Desk!Init, DeskTypes, LookedUp, Desk!Absent, Desk!Row, SessionRows
<1>4. Desk(s)!ArrivedFirst
  BY <1>2 DEF Desk!ArrivedFirst, Desk!Present, Desk!Keys
<1> QED
  BY <1>1, <1>3, <1>4 DEF DeskInv, LookUpsHold

-----------------------------------------------------------------------------
LEMMA RowChanged ==
    ASSUME NEW row \in SessionRows, NEW a \in BOOLEAN, NEW n \in BOOLEAN
    PROVE  /\ [row EXCEPT !.outside = a] \in SessionRows
           /\ [row EXCEPT !.active = a, !.needs = n] \in SessionRows
BY DEF SessionRows

\* A request looks something up, or ends.
LEMMA DeskAsks ==
    ASSUME NEW s, DeskTypes(s), NEW k \in s.staff, NEW r, LookedUp(s, r), Desk(s)!Ask(k, r)
    PROVE  /\ DOMAIN request' = s.staff /\ \A j \in s.staff : LookedUp(s, request'[j])
           /\ request'[k] = r /\ \A j \in s.staff : j # k => request'[j] = request[j]
<1>1. DOMAIN request' = s.staff
  BY DEF DeskTypes, Desk!Ask
<1>2. request'[k] = r /\ \A j \in s.staff : j # k => request'[j] = request[j]
  BY DEF DeskTypes, Desk!Ask
<1>3. \A j \in s.staff : LookedUp(s, request[j])
  BY DEF DeskTypes
<1>4. ASSUME NEW j \in s.staff PROVE LookedUp(s, request'[j])
  <2>1. CASE j = k
    BY <1>2, <2>1
  <2>2. CASE j # k
    <3>1. request'[j] = request[j]
      BY <1>2, <2>2
    <3> HIDE DEF LookedUp
    <3> QED
      BY <1>3, <3>1
  <2> QED
    BY <2>1, <2>2
<1> QED
  BY <1>1, <1>2, <1>4

\* The database loses a row only to an undo of its person's, or with its team.
LEMMA DeskCommits ==
    ASSUME NEW s \in CheckInSizes, DeskTypes(s), Desk(s)!Next
    PROVE  DeskTypes(s)' /\ Desk(s)!KeepsCheckIns
<1> DEFINE Rec == {Desk(s)!None} \cup {Desk(s)!In(t, b) : t \in s.teams, b \in BOOLEAN}
           Goal == DeskTypes(s)' /\ Desk(s)!KeepsCheckIns
<1>1. ASSUME record' = record PROVE Desk(s)!KeepsCheckIns
  BY <1>1 DEF Desk!KeepsCheckIns
<1>2. Desk(s)!None \in Rec /\ \A t \in s.teams, b \in BOOLEAN : Desk(s)!In(t, b) \in Rec
  OBVIOUS
<1>3. LookedUp(s, Desk(s)!Idle)
  BY DEF LookedUp, Desk!Idle
<1>4. ASSUME NEW k \in s.staff, NEW x \in Desk(s)!Sessions, NEW ps \in SUBSET s.people,
             NEW b \in BOOLEAN, Desk(s)!BeginScan(k, x, ps, b)
      PROVE  Goal
  <2>1. PICK taken \in SUBSET s.people, free \in SUBSET s.people :
            Desk(s)!Ask(k, [op |-> "SCAN", session |-> x, people |-> taken,
                            free |-> free, team |-> [p \in taken |-> member[p]]])
    BY <1>4 DEF Desk!BeginScan
  <2> DEFINE r == [op |-> "SCAN", session |-> x, people |-> taken,
                   free |-> free, team |-> [p \in taken |-> member[p]]]
  <2>2. LookedUp(s, r)
    BY DEF LookedUp, DeskTypes
  <2> HIDE DEF r
  <2>3. DOMAIN request' = s.staff /\ \A j \in s.staff : LookedUp(s, request'[j])
    BY <2>1, <2>2, DeskAsks DEF r
  <2>4. /\ session' = session /\ record' = record /\ member' = member
        /\ standing' = standing /\ orphaned' = orphaned
    BY <1>4 DEF Desk!BeginScan
  <2>5. DeskTypes(s)'
    BY <2>3, <2>4 DEF DeskTypes
  <2> QED
    BY <1>1, <2>4, <2>5
<1>5. ASSUME NEW k \in s.staff, NEW r, LookedUp(s, r), Desk(s)!Ask(k, r),
             record' = record, member' = member, orphaned' = orphaned,
             session' \in [Desk(s)!Sessions -> SessionRows],
             standing' \in [s.teams -> {"PLACED", "HELD", "REMOVED", "DELETED"}]
      PROVE  Goal
  <2>1. DOMAIN request' = s.staff /\ \A j \in s.staff : LookedUp(s, request'[j])
    BY <1>5, DeskAsks
  <2>2. DeskTypes(s)'
    BY <1>5, <2>1 DEF DeskTypes
  <2> QED
    BY <1>1, <1>5, <2>2
<1>6. ASSUME NEW k \in s.staff, NEW x \in Desk(s)!Sessions, NEW ps \in SUBSET s.people,
             NEW b \in BOOLEAN, Desk(s)!BeginUndo(k, x, ps, b)
      PROVE  Goal
  <2>1. PICK later : Desk(s)!Ask(k, [op |-> "UNDO", session |-> x, people |-> ps, later |-> later])
    BY <1>6 DEF Desk!BeginUndo
  <2>2. LookedUp(s, [op |-> "UNDO", session |-> x, people |-> ps, later |-> later])
    BY DEF LookedUp
  <2>3. /\ session' = session /\ record' = record /\ member' = member
        /\ standing' = standing /\ orphaned' = orphaned
    BY <1>6 DEF Desk!BeginUndo
  <2> HIDE DEF Goal
  <2> QED
    BY <1>5, <2>1, <2>2, <2>3 DEF DeskTypes
<1>7. ASSUME NEW k \in s.staff, NEW x \in Desk(s)!Sessions, Desk(s)!BeginDrop(k, x) PROVE Goal
  <2>1. PICK empty : Desk(s)!Ask(k, [op |-> "DROP", session |-> x, empty |-> empty])
    BY <1>7 DEF Desk!BeginDrop
  <2>2. LookedUp(s, [op |-> "DROP", session |-> x, empty |-> empty])
    BY DEF LookedUp
  <2>3. /\ session' = session /\ record' = record /\ member' = member
        /\ standing' = standing /\ orphaned' = orphaned
    BY <1>7 DEF Desk!BeginDrop
  <2> HIDE DEF Goal
  <2> QED
    BY <1>5, <2>1, <2>2, <2>3 DEF DeskTypes
<1>8. ASSUME NEW k \in s.staff, NEW ts \in SUBSET s.teams, Desk(s)!BeginWithdraw(k, ts) PROVE Goal
  <2>1. Desk(s)!Ask(k, [op |-> "WITHDRAW", teams |-> ts])
    BY <1>8 DEF Desk!BeginWithdraw
  <2>2. LookedUp(s, [op |-> "WITHDRAW", teams |-> ts])
    BY DEF LookedUp
  <2>3. /\ session' = session /\ record' = record /\ member' = member
        /\ standing' = standing /\ orphaned' = orphaned
    BY <1>8 DEF Desk!BeginWithdraw
  <2> HIDE DEF Goal
  <2> QED
    BY <1>5, <2>1, <2>2, <2>3 DEF DeskTypes
<1>9. ASSUME NEW k \in s.staff, Desk(s)!CommitScan(k) PROVE Goal
  <2> DEFINE r == request[k]
  <2>1. /\ Desk(s)!Ask(k, Desk(s)!Idle) /\ r.op = "SCAN"
        /\ session' = session /\ member' = member /\ standing' = standing
        /\ orphaned' \subseteq s.people
    BY <1>9 DEF Desk!CommitScan, DeskTypes
  <2>2. r.session \in Desk(s)!Sessions /\ r.people \subseteq s.people /\ r.team \in [r.people -> s.teams]
    BY <2>1 DEF DeskTypes, LookedUp
  <2>3. \/ record' = record
        \/ record' = [key \in Desk(s)!Keys |->
                        IF key \in {r.session} \X r.people /\ record[key] = Desk(s)!None
                        THEN Desk(s)!In(r.team[key[2]], key[2] \in r.free) ELSE record[key]]
    BY <1>9 DEF Desk!CommitScan
  <2>4. record \in [Desk(s)!Keys -> Rec]
    BY DEF DeskTypes
  <2>5. ASSUME NEW key \in {r.session} \X r.people
        PROVE  Desk(s)!In(r.team[key[2]], key[2] \in r.free) \in Rec
    <3> HIDE DEF Rec
    <3>1. r.team[key[2]] \in s.teams
      BY <2>2
    <3>2. CASE key[2] \in r.free
      <4>1. Desk(s)!In(r.team[key[2]], key[2] \in r.free) = Desk(s)!In(r.team[key[2]], TRUE)
        BY <3>2 DEF Desk!In
      <4>2. Desk(s)!In(r.team[key[2]], TRUE) \in Rec
        BY <1>2, <3>1
      <4> QED
        BY <4>1, <4>2, Zenon
    <3>3. CASE key[2] \notin r.free
      <4>1. Desk(s)!In(r.team[key[2]], key[2] \in r.free) = Desk(s)!In(r.team[key[2]], FALSE)
        <5>1. (key[2] \in r.free) = FALSE
          BY <3>3
        <5> QED
          BY <5>1, Zenon
      <4>2. Desk(s)!In(r.team[key[2]], FALSE) \in Rec
        BY <1>2, <3>1
      <4> QED
        BY <4>1, <4>2, Zenon
    <3> QED
      BY <3>2, <3>3
  <2> HIDE DEF r
  <2>6. /\ record' \in [Desk(s)!Keys -> Rec]
        /\ \A key \in Desk(s)!Keys : record[key] # Desk(s)!None => record'[key] = record[key]
    <3> HIDE DEF Rec
    <3>1. CASE record' = record
      BY <2>4, <3>1
    <3>2. CASE record' # record
      BY <2>3, <2>4, <2>5, <3>2
    <3> QED
      BY <3>1, <3>2
  <2>7. Desk(s)!KeepsCheckIns
    BY <2>6 DEF Desk!KeepsCheckIns
  <2>8. DOMAIN request' = s.staff /\ \A j \in s.staff : LookedUp(s, request'[j])
    BY <1>3, <2>1, DeskAsks
  <2>9. DeskTypes(s)'
    BY <2>1, <2>6, <2>8 DEF DeskTypes
  <2> QED
    BY <2>7, <2>9
<1>10. ASSUME NEW k \in s.staff, Desk(s)!CommitUndo(k) PROVE Goal
  <2> DEFINE r == request[k]
             ks == ({r.session} \X r.people) \cup (IF r.later THEN Desk(s)!Later(r.people) ELSE {})
  <2>1. /\ Desk(s)!Ask(k, Desk(s)!Idle) /\ r.op = "UNDO" /\ Desk(s)!Erase(ks)
        /\ session' = session /\ member' = member /\ standing' = standing /\ orphaned' = orphaned
    BY <1>10 DEF Desk!CommitUndo
  <2>2. \A key \in ks : key[2] \in r.people
    BY DEF Desk!Later
  <2> HIDE DEF ks
  <2>3. /\ record' \in [Desk(s)!Keys -> Rec]
        /\ \A key \in Desk(s)!Keys : record'[key] # record[key] => key \in ks
    BY <2>1 DEF Desk!Erase, DeskTypes
  <2>4. Desk(s)!KeepsCheckIns
    BY <2>1, <2>2, <2>3 DEF Desk!KeepsCheckIns
  <2> HIDE DEF r
  <2>5. DOMAIN request' = s.staff /\ \A j \in s.staff : LookedUp(s, request'[j])
    BY <1>3, <2>1, DeskAsks
  <2>6. DeskTypes(s)'
    BY <2>1, <2>3, <2>5 DEF DeskTypes
  <2> QED
    BY <2>4, <2>6
<1>11. ASSUME NEW k \in s.staff, Desk(s)!CommitDrop(k) PROVE Goal
  <2> DEFINE x == request[k].session
  <2>1. /\ Desk(s)!Ask(k, Desk(s)!Idle)
        /\ record' = record /\ member' = member /\ standing' = standing /\ orphaned' = orphaned
    BY <1>11 DEF Desk!CommitDrop
  <2>2. PICK row : /\ session' = [session EXCEPT ![x] = row]
                   /\ row = session[x] \/ row = Desk(s)!Absent
                      \/ row = [session[x] EXCEPT !.outside = TRUE]
    BY <1>11, Zenon DEF Desk!CommitDrop
  <2>3. session' \in [Desk(s)!Sessions -> SessionRows]
    <3>1. session \in [Desk(s)!Sessions -> SessionRows]
      BY DEF DeskTypes
    <3>2. Desk(s)!Absent \in SessionRows
      BY DEF Desk!Absent, SessionRows
    <3>3. CASE x \in Desk(s)!Sessions
      <4>1. session[x] \in SessionRows
        BY <3>1, <3>3
      <4>2. row \in SessionRows
        BY <2>2, <3>2, <4>1, RowChanged
      <4> QED
        BY <2>2, <3>1, <4>2
    <3>4. CASE x \notin Desk(s)!Sessions
      BY <2>2, <3>1, <3>4
    <3> QED
      BY <3>3, <3>4
  <2> HIDE DEF Goal
  <2> QED
    BY <1>3, <1>5, <2>1, <2>3 DEF DeskTypes
<1>12. ASSUME NEW k \in s.staff, Desk(s)!CommitWithdraw(k) PROVE Goal
  <2>1. /\ Desk(s)!Ask(k, Desk(s)!Idle)
        /\ record' = record /\ member' = member /\ session' = session /\ orphaned' = orphaned
        /\ standing' \in [s.teams -> {"PLACED", "HELD", "REMOVED", "DELETED"}]
    BY <1>12 DEF Desk!CommitWithdraw, DeskTypes
  <2> HIDE DEF Goal
  <2> QED
    BY <1>3, <1>5, <2>1 DEF DeskTypes
<1>13. ASSUME NEW x \in Desk(s)!Sessions, NEW a \in BOOLEAN, NEW n \in BOOLEAN,
              Desk(s)!OpenSession(x, n) \/ Desk(s)!EditSession(x, a, n)
       PROVE  Goal
  <2>1. /\ record' = record /\ member' = member /\ standing' = standing /\ orphaned' = orphaned
        /\ request' = request
    BY <1>13 DEF Desk!OpenSession, Desk!EditSession
  <2>2. session' \in [Desk(s)!Sessions -> SessionRows]
    <3>1. PICK row \in SessionRows : session' = [session EXCEPT ![x] = row]
      <4>1. CASE Desk(s)!OpenSession(x, n)
        <5>1. \/ session' = [session EXCEPT ![x] = [session[x] EXCEPT !.outside = FALSE]]
              \/ session' = [session EXCEPT ![x] = Desk(s)!Row(n)]
          BY <4>1, Zenon DEF Desk!OpenSession
        <5>2. Desk(s)!Row(n) \in SessionRows
          BY DEF Desk!Row, SessionRows
        <5>3. session[x] \in SessionRows
          BY DEF DeskTypes
        <5> QED
          BY <5>1, <5>2, <5>3, RowChanged
      <4>2. CASE Desk(s)!EditSession(x, a, n)
        <5>1. session' = [session EXCEPT ![x].active = a, ![x].needs = n]
          BY <4>2 DEF Desk!EditSession
        <5>2. session' = [session EXCEPT ![x] = [session[x] EXCEPT !.active = a, !.needs = n]]
          BY <5>1, Zenon
        <5>3. session[x] \in SessionRows
          BY DEF DeskTypes
        <5> QED
          BY <5>2, <5>3, RowChanged
      <4> QED
        BY <1>13, <4>1, <4>2
    <3> QED
      BY <3>1 DEF DeskTypes
  <2>3. DeskTypes(s)'
    BY <2>1, <2>2 DEF DeskTypes
  <2> QED
    BY <1>1, <2>1, <2>3
<1>14. ASSUME NEW t \in s.teams, NEW x \in {"PLACED", "HELD", "REMOVED"}, Desk(s)!SetStanding(t, x)
       PROVE  Goal
  <2>1. /\ record' = record /\ member' = member /\ session' = session /\ orphaned' = orphaned
        /\ request' = request /\ standing' \in [s.teams -> {"PLACED", "HELD", "REMOVED", "DELETED"}]
    BY <1>14 DEF Desk!SetStanding, DeskTypes
  <2>2. DeskTypes(s)'
    BY <2>1 DEF DeskTypes
  <2> QED
    BY <1>1, <2>1, <2>2
<1>15. ASSUME NEW t \in s.teams, Desk(s)!DeleteTeam(t) PROVE Goal
  <2>1. /\ Desk(s)!Erase({k \in Desk(s)!Keys : record[k].team = t})
        /\ session' = session /\ member' = member /\ request' = request
        /\ orphaned' \subseteq s.people
        /\ standing' \in [s.teams -> {"PLACED", "HELD", "REMOVED", "DELETED"}]
        /\ standing'[t] = "DELETED"
    <3>1. Desk(s)!Erase({k \in Desk(s)!Keys : record[k].team = t})
      BY <1>15, Zenon DEF Desk!DeleteTeam
    <3>2. /\ session' = session /\ member' = member /\ request' = request
          /\ orphaned' \subseteq s.people
      <4>1. session' = session /\ member' = member /\ request' = request
        BY <1>15, Zenon DEF Desk!DeleteTeam
      <4>2. orphaned' = orphaned \cup {p \in s.people : record[<<Desk(s)!Arrival, p>>].team = t}
        BY <1>15, Zenon DEF Desk!DeleteTeam
      <4>3. orphaned \subseteq s.people
        BY DEF DeskTypes
      <4> DEFINE ps == {p \in s.people : record[<<Desk(s)!Arrival, p>>].team = t}
      <4>4. ps \subseteq s.people
        BY Zenon
      <4> HIDE DEF ps
      <4> QED
        BY <4>1, <4>2, <4>3, <4>4 DEF ps
    <3>3. standing' = [standing EXCEPT ![t] = "DELETED"]
      BY <1>15 DEF Desk!DeleteTeam
    <3>4. /\ standing' \in [s.teams -> {"PLACED", "HELD", "REMOVED", "DELETED"}]
          /\ standing'[t] = "DELETED"
      BY <3>3 DEF DeskTypes
    <3> QED
      BY <3>1, <3>2, <3>4
  <2>2. /\ record' \in [Desk(s)!Keys -> Rec]
        /\ \A key \in Desk(s)!Keys : record'[key] # record[key] => record[key].team = t
    BY <2>1 DEF Desk!Erase, DeskTypes
  <2>3. Desk(s)!KeepsCheckIns
    BY <2>1, <2>2 DEF Desk!KeepsCheckIns
  <2>4. DeskTypes(s)'
    BY <2>1, <2>2 DEF DeskTypes
  <2> QED
    BY <2>3, <2>4
<1>16. ASSUME NEW p \in s.people, NEW t \in s.teams, Desk(s)!Move(p, t) PROVE Goal
  <2>1. /\ record' = record /\ standing' = standing /\ session' = session /\ orphaned' = orphaned
        /\ request' = request /\ member' \in [s.people -> s.teams]
    BY <1>16 DEF Desk!Move, DeskTypes
  <2>2. DeskTypes(s)'
    BY <2>1 DEF DeskTypes
  <2> QED
    BY <1>1, <2>1, <2>2
<1> HIDE DEF Goal
<1>17. ASSUME NEW k \in s.staff, Desk(s)!Begin(k) PROVE Goal
  BY <1>4, <1>6, <1>7, <1>8, <1>17 DEF Desk!Begin
<1>18. ASSUME NEW k \in s.staff, Desk(s)!Commit(k) PROVE Goal
  BY <1>9, <1>10, <1>11, <1>12, <1>18 DEF Desk!Commit
<1>19. ASSUME Desk(s)!Organize PROVE Goal
  BY <1>13, <1>14, <1>15, <1>16, <1>19 DEF Desk!Organize
<1>20. Goal
  BY <1>17, <1>18, <1>19 DEF Desk!Next
<1> QED
  BY <1>20 DEF Goal

LEMMA DeskArrivals ==
    ASSUME NEW s \in CheckInSizes, DeskTypes(s), OneAtDesk(s), LookUpsHold(s),
           Desk(s)!ArrivedFirst, Desk(s)!Next
    PROVE  LookUpsHold(s)' /\ Desk(s)!ArrivedFirst'
<1> DEFINE Goal == LookUpsHold(s)' /\ Desk(s)!ArrivedFirst'
           Here(x, p) == record[<<x, p>>] # Desk(s)!None
           Here2(x, p) == record'[<<x, p>>] # Desk(s)!None
<1>1. \A t \in s.teams : \A b : Desk(s)!In(t, b) # Desk(s)!None
  BY HackathonAssumption DEF Desk!TeamsNamed, Desk!In, Desk!None
<1>2. ASSUME record' = record, orphaned' = orphaned,
             \A j \in s.staff : request'[j] = request[j] \/ request'[j].op \notin {"SCAN", "UNDO"}
      PROVE  Goal
  <2>1. LookUpsHold(s)'
    BY <1>2 DEF LookUpsHold, Desk!Arrived, Desk!Present, Desk!Later, Desk!Keys
  <2>2. Desk(s)!ArrivedFirst'
    BY <1>2 DEF Desk!ArrivedFirst, Desk!Arrived, Desk!Present, Desk!Keys
  <2> QED
    BY <2>1, <2>2
<1>3. ASSUME NEW k \in s.staff, NEW r, LookedUp(s, r), Desk(s)!Ask(k, r), record' = record,
             orphaned' = orphaned, r.op \notin {"SCAN", "UNDO"}
      PROVE  Goal
  <2>1. \A j \in s.staff : j = k /\ request'[j] = r
    BY <1>3, DeskAsks DEF OneAtDesk
  <2> HIDE DEF Goal
  <2> QED
    BY <1>2, <1>3, <2>1
<1>4. ASSUME NEW k \in s.staff, NEW x \in Desk(s)!Sessions, NEW ps \in SUBSET s.people,
             NEW b \in BOOLEAN, Desk(s)!BeginScan(k, x, ps, b)
      PROVE  Goal
  <2> DEFINE needed == x # Desk(s)!Arrival /\ session[x].needs
             absent == {p \in ps : needed /\ ~Desk(s)!Arrived(p)}
             taken  == IF b THEN ps ELSE ps \ absent
             r == [op |-> "SCAN", session |-> x, people |-> taken,
                   free |-> IF needed THEN absent ELSE taken, team |-> [p \in taken |-> member[p]]]
  <2>1. Desk(s)!Ask(k, r) /\ record' = record /\ orphaned' = orphaned
    BY <1>4 DEF Desk!BeginScan
  <2>2. LookedUp(s, r)
    BY DEF LookedUp, DeskTypes
  <2>3. r.op = "SCAN" /\ \A p \in r.people \ r.free : Desk(s)!Arrived(p)
    OBVIOUS
  <2> HIDE DEF r
  <2>4. \A j \in s.staff : j = k /\ request'[j] = r
    BY <2>1, <2>2, DeskAsks DEF OneAtDesk
  <2>5. LookUpsHold(s)'
    BY <2>1, <2>3, <2>4 DEF LookUpsHold, Desk!Arrived, Desk!Present
  <2>6. Desk(s)!ArrivedFirst'
    BY <2>1 DEF Desk!ArrivedFirst, Desk!Arrived, Desk!Present
  <2> QED
    BY <2>5, <2>6
<1>5. ASSUME NEW k \in s.staff, NEW x \in Desk(s)!Sessions, NEW ps \in SUBSET s.people,
             NEW b \in BOOLEAN, Desk(s)!BeginUndo(k, x, ps, b)
      PROVE  Goal
  <2> DEFINE later == x = Desk(s)!Arrival /\ Desk(s)!Later(ps) # {}
             r == [op |-> "UNDO", session |-> x, people |-> ps, later |-> later]
  <2>1. Desk(s)!Ask(k, r) /\ record' = record /\ orphaned' = orphaned
    BY <1>5 DEF Desk!BeginUndo
  <2>2. LookedUp(s, r)
    BY DEF LookedUp
  <2>3. r.op = "UNDO" /\ (r.session = "ARRIVAL" /\ ~r.later => Desk(s)!Later(r.people) = {})
    BY DEF Desk!Arrival
  <2> HIDE DEF r
  <2>4. \A j \in s.staff : j = k /\ request'[j] = r
    BY <2>1, <2>2, DeskAsks DEF OneAtDesk
  <2>5. LookUpsHold(s)'
    BY <2>1, <2>3, <2>4 DEF LookUpsHold, Desk!Later, Desk!Keys
  <2>6. Desk(s)!ArrivedFirst'
    BY <2>1 DEF Desk!ArrivedFirst, Desk!Arrived, Desk!Present
  <2> QED
    BY <2>5, <2>6
<1>6. ASSUME NEW k \in s.staff, Desk(s)!Ask(k, Desk(s)!Idle) PROVE LookUpsHold(s)'
  <2>1. \A j \in s.staff : request'[j].op = "IDLE"
    BY <1>6, DeskAsks DEF OneAtDesk, LookedUp, Desk!Idle
  <2> QED
    BY <2>1 DEF LookUpsHold
<1>7. ASSUME NEW k \in s.staff, Desk(s)!CommitScan(k) PROVE Goal
  <2> DEFINE r == request[k]
  <2>1. Desk(s)!Ask(k, Desk(s)!Idle) /\ r.op = "SCAN"
    BY <1>7 DEF Desk!CommitScan
  <2>2. LookUpsHold(s)'
    BY <1>6, <2>1
  <2>3. r.people \subseteq s.people /\ r.team \in [r.people -> s.teams]
    BY <2>1 DEF DeskTypes, LookedUp
  <2>4. CASE record' = record /\ orphaned' = orphaned
    BY <2>2, <2>4 DEF Desk!ArrivedFirst, Desk!Arrived, Desk!Present
  <2>5. CASE /\ record' = [key \in Desk(s)!Keys |->
                        IF key \in {r.session} \X r.people /\ record[key] = Desk(s)!None
                        THEN Desk(s)!In(r.team[key[2]], key[2] \in r.free) ELSE record[key]]
             /\ orphaned' = IF r.session = Desk(s)!Arrival THEN orphaned \ r.people ELSE orphaned
    <3>1. ASSUME NEW z \in Desk(s)!Sessions, NEW p \in s.people
          PROVE  /\ Here(z, p) => Here2(z, p) /\ record'[<<z, p>>] = record[<<z, p>>]
                 /\ z = r.session /\ p \in r.people => Here2(z, p)
                 /\ Here2(z, p) /\ ~Here(z, p) =>
                      z = r.session /\ p \in r.people /\ record'[<<z, p>>].free = (p \in r.free)
      <4>1. <<z, p>> \in Desk(s)!Keys
        BY DEF Desk!Keys
      <4>2. CASE z = r.session /\ p \in r.people /\ record[<<z, p>>] = Desk(s)!None
        <5>1. record'[<<z, p>>] = Desk(s)!In(r.team[p], p \in r.free)
          BY <2>5, <4>1, <4>2
        <5>2. r.team[p] \in s.teams
          BY <2>3, <4>2
        <5>3. Here2(z, p)
          BY <1>1, <5>1, <5>2
        <5>4. record'[<<z, p>>].free = (p \in r.free)
          BY <5>1 DEF Desk!In
        <5> QED
          BY <4>2, <5>3, <5>4
      <4>3. CASE ~(z = r.session /\ p \in r.people /\ record[<<z, p>>] = Desk(s)!None)
        <5>1. record'[<<z, p>>] = record[<<z, p>>]
          BY <2>5, <4>1, <4>3
        <5> QED
          BY <4>3, <5>1
      <4> QED
        BY <4>2, <4>3
    <3>2. Desk(s)!Arrival = "ARRIVAL" /\ "ARRIVAL" \in Desk(s)!Sessions
      BY DEF Desk!Arrival, Desk!Sessions
    <3>3. ASSUME NEW z \in Desk(s)!Sessions \ {"ARRIVAL"}, NEW p \in s.people,
                 Here2(z, p), ~record'[<<z, p>>].free
          PROVE  Here2("ARRIVAL", p) \/ p \in orphaned'
      <4>1. Here("ARRIVAL", p) \/ p \in orphaned
        <5>1. CASE Here(z, p)
          <6>1. ~record[<<z, p>>].free
            BY <3>1, <3>3, <5>1
          <6> QED
            BY <3>2, <5>1, <6>1 DEF Desk!ArrivedFirst, Desk!Arrived, Desk!Present
        <5>2. CASE ~Here(z, p)
          <6>1. z = r.session /\ p \in r.people /\ p \notin r.free
            BY <3>1, <3>3, <5>2
          <6> QED
            BY <2>1, <3>2, <3>3, <6>1 DEF LookUpsHold, Desk!Arrived, Desk!Present
        <5> QED
          BY <5>1, <5>2
      <4>2. Here("ARRIVAL", p) => Here2("ARRIVAL", p)
        BY <3>1, <3>2
      <4>3. p \in orphaned => Here2("ARRIVAL", p) \/ p \in orphaned'
        BY <2>5, <3>1, <3>2
      <4> QED
        BY <4>1, <4>2, <4>3
    <3>4. Desk(s)!ArrivedFirst'
      BY <3>2, <3>3 DEF Desk!ArrivedFirst, Desk!Arrived, Desk!Present
    <3> QED
      BY <2>2, <3>4
  <2>6. \/ record' = record /\ orphaned' = orphaned
        \/ /\ record' = [key \in Desk(s)!Keys |->
                        IF key \in {r.session} \X r.people /\ record[key] = Desk(s)!None
                        THEN Desk(s)!In(r.team[key[2]], key[2] \in r.free) ELSE record[key]]
           /\ orphaned' = IF r.session = Desk(s)!Arrival THEN orphaned \ r.people ELSE orphaned
    BY <1>7, Zenon DEF Desk!CommitScan
  <2> HIDE DEF Goal
  <2> QED
    BY <2>4, <2>5, <2>6
<1>8. ASSUME NEW k \in s.staff, Desk(s)!CommitUndo(k) PROVE Goal
  <2> DEFINE r == request[k]
             ks == ({r.session} \X r.people) \cup (IF r.later THEN Desk(s)!Later(r.people) ELSE {})
  <2>1. /\ Desk(s)!Ask(k, Desk(s)!Idle) /\ r.op = "UNDO" /\ Desk(s)!Erase(ks) /\ orphaned' = orphaned
    BY <1>8 DEF Desk!CommitUndo
  <2>2. LookUpsHold(s)'
    BY <1>6, <2>1
  <2>3. Desk(s)!Arrival = "ARRIVAL" /\ "ARRIVAL" \in Desk(s)!Sessions
    BY DEF Desk!Arrival, Desk!Sessions
  <2>4. ASSUME NEW z \in Desk(s)!Sessions \ {"ARRIVAL"}, NEW p \in s.people,
               Here2(z, p), ~record'[<<z, p>>].free
        PROVE  Here2("ARRIVAL", p) \/ p \in orphaned'
    <3>1. <<z, p>> \in Desk(s)!Keys /\ <<"ARRIVAL", p>> \in Desk(s)!Keys
      BY <2>3 DEF Desk!Keys
    <3>2. <<z, p>> \notin ks /\ record'[<<z, p>>] = record[<<z, p>>]
      <4> HIDE DEF ks
      <4> QED
        BY <2>1, <2>4, <3>1 DEF Desk!Erase
    <3>3. Here("ARRIVAL", p) \/ p \in orphaned
      BY <2>3, <2>4, <3>2 DEF Desk!ArrivedFirst, Desk!Arrived, Desk!Present
    <3>4. <<z, p>> \in Desk(s)!Later({p})
      BY <2>3, <2>4, <3>1, <3>2 DEF Desk!Later
    <3>5. <<"ARRIVAL", p>> \notin ks
      <4>1. SUFFICES ASSUME r.session = "ARRIVAL", p \in r.people PROVE FALSE
        BY <2>3 DEF Desk!Later
      <4>2. <<z, p>> \in Desk(s)!Later(r.people)
        BY <3>4, <4>1 DEF Desk!Later
      <4>3. ~r.later
        BY <3>2, <4>2
      <4> QED
        BY <2>1, <4>1, <4>2, <4>3 DEF LookUpsHold
    <3>6. Here("ARRIVAL", p) => Here2("ARRIVAL", p)
      <4> HIDE DEF ks
      <4> QED
        BY <2>1, <3>1, <3>5 DEF Desk!Erase
    <3> QED
      BY <2>1, <3>3, <3>6
  <2>5. Desk(s)!ArrivedFirst'
    BY <2>3, <2>4 DEF Desk!ArrivedFirst, Desk!Arrived, Desk!Present
  <2> QED
    BY <2>2, <2>5
<1>9. ASSUME NEW t \in s.teams, Desk(s)!DeleteTeam(t) PROVE Goal
  <2>1. Desk(s)!Erase({k \in Desk(s)!Keys : record[k].team = t}) /\ request' = request
    BY <1>9 DEF Desk!DeleteTeam
  <2>2. orphaned' = orphaned \cup {p \in s.people : record[<<Desk(s)!Arrival, p>>].team = t}
    BY <1>9 DEF Desk!DeleteTeam
  <2>3. Desk(s)!Arrival = "ARRIVAL" /\ "ARRIVAL" \in Desk(s)!Sessions
    BY DEF Desk!Arrival, Desk!Sessions
  <2>4. ASSUME NEW k \in Desk(s)!Keys
        PROVE  /\ record'[k] # Desk(s)!None => record'[k] = record[k]
               /\ record'[k] = record[k] \/ record[k].team = t
    BY <2>1 DEF Desk!Erase
  <2>5. \A p \in s.people : Here("ARRIVAL", p) \/ p \in orphaned => Here2("ARRIVAL", p) \/ p \in orphaned'
    BY <2>2, <2>3, <2>4 DEF Desk!Keys
  <2>6. \A ps : Desk(s)!Later(ps) = {} => Desk(s)!Later(ps)' = {}
    BY <2>4 DEF Desk!Later, Desk!Keys
  <2>7. LookUpsHold(s)'
    <3>1. \A k \in s.staff : request[k].op = "SCAN" => request[k].people \subseteq s.people
      BY DEF DeskTypes, LookedUp
    <3>2. ASSUME NEW k \in s.staff, request[k].op = "SCAN", request[k].session # "ARRIVAL",
                 NEW p \in request[k].people \ request[k].free
          PROVE  Here2("ARRIVAL", p) \/ p \in orphaned'
      BY <2>3, <2>5, <3>1, <3>2 DEF LookUpsHold, Desk!Arrived, Desk!Present
    <3>3. ASSUME NEW k \in s.staff, request[k].op = "UNDO", request[k].session = "ARRIVAL",
                 ~request[k].later, NEW x \in Desk(s)!Keys
          PROVE  ~(x[1] # "ARRIVAL" /\ x[2] \in request[k].people /\ record'[x] # Desk(s)!None)
      BY <2>3, <2>4, <3>3 DEF LookUpsHold, Desk!Later
    <3> QED
      BY <2>1, <2>3, <3>2, <3>3
      DEF LookUpsHold, Desk!Arrived, Desk!Present, Desk!Later, Desk!Keys
  <2>8. Desk(s)!ArrivedFirst'
    <3>1. ASSUME NEW z \in Desk(s)!Sessions \ {"ARRIVAL"}, NEW p \in s.people,
                 Here2(z, p), ~record'[<<z, p>>].free
          PROVE  Here2("ARRIVAL", p) \/ p \in orphaned'
      <4>1. <<z, p>> \in Desk(s)!Keys
        BY DEF Desk!Keys
      <4>2. record'[<<z, p>>] = record[<<z, p>>]
        BY <2>4, <3>1, <4>1
      <4>3. Here("ARRIVAL", p) \/ p \in orphaned
        BY <2>3, <3>1, <4>2 DEF Desk!ArrivedFirst, Desk!Arrived, Desk!Present
      <4> QED
        BY <2>5, <4>3
    <3> QED
      BY <2>3, <3>1 DEF Desk!ArrivedFirst, Desk!Arrived, Desk!Present
  <2> QED
    BY <2>7, <2>8
<1>10. ASSUME NEW k \in s.staff, Desk(s)!CommitDrop(k) \/ Desk(s)!CommitWithdraw(k) PROVE Goal
  <2>1. Desk(s)!Ask(k, Desk(s)!Idle) /\ record' = record /\ orphaned' = orphaned
    BY <1>10 DEF Desk!CommitDrop, Desk!CommitWithdraw
  <2> HIDE DEF Goal
  <2> QED
    BY <1>3, <2>1 DEF Desk!Idle, LookedUp
<1>11. ASSUME NEW k \in s.staff, Desk(s)!Begin(k) PROVE Goal
  <2>1. ASSUME NEW x \in Desk(s)!Sessions, Desk(s)!BeginDrop(k, x) PROVE Goal
    <3>1. PICK empty : Desk(s)!Ask(k, [op |-> "DROP", session |-> x, empty |-> empty])
                       /\ record' = record /\ orphaned' = orphaned
      BY <2>1 DEF Desk!BeginDrop
    <3> DEFINE r == [op |-> "DROP", session |-> x, empty |-> empty]
    <3>2. LookedUp(s, r) /\ r.op \notin {"SCAN", "UNDO"}
      BY DEF LookedUp
    <3> HIDE DEF Goal, r
    <3> QED
      BY <1>3, <3>1, <3>2 DEF r
  <2>2. ASSUME NEW ts \in SUBSET s.teams, Desk(s)!BeginWithdraw(k, ts) PROVE Goal
    <3> DEFINE r == [op |-> "WITHDRAW", teams |-> ts]
    <3>1. Desk(s)!Ask(k, r) /\ record' = record /\ orphaned' = orphaned
      BY <2>2 DEF Desk!BeginWithdraw
    <3>2. LookedUp(s, r) /\ r.op \notin {"SCAN", "UNDO"}
      BY DEF LookedUp
    <3> HIDE DEF Goal, r
    <3> QED
      BY <1>3, <3>1, <3>2
  <2> HIDE DEF Goal
  <2> QED
    BY <1>4, <1>5, <1>11, <2>1, <2>2 DEF Desk!Begin
<1>12. ASSUME Desk(s)!Organize PROVE Goal
  <2>1. ASSUME NEW x \in Desk(s)!Sessions, NEW a \in BOOLEAN, NEW n \in BOOLEAN,
               Desk(s)!OpenSession(x, n) \/ Desk(s)!EditSession(x, a, n)
        PROVE  record' = record /\ orphaned' = orphaned /\ request' = request
    BY <2>1 DEF Desk!OpenSession, Desk!EditSession
  <2>2. ASSUME NEW t \in s.teams, NEW x \in {"PLACED", "HELD", "REMOVED"}, Desk(s)!SetStanding(t, x)
        PROVE  record' = record /\ orphaned' = orphaned /\ request' = request
    BY <2>2 DEF Desk!SetStanding
  <2>3. ASSUME NEW p \in s.people, NEW t \in s.teams, Desk(s)!Move(p, t)
        PROVE  record' = record /\ orphaned' = orphaned /\ request' = request
    BY <2>3 DEF Desk!Move
  <2>4. CASE record' = record /\ orphaned' = orphaned /\ request' = request
    <3> HIDE DEF Goal
    <3> QED
      BY <1>2, <2>4
  <2> HIDE DEF Goal
  <2> QED
    BY <1>9, <1>12, <2>1, <2>2, <2>3, <2>4 DEF Desk!Organize
<1> HIDE DEF Goal
<1>13. Goal
  BY <1>7, <1>8, <1>10, <1>11, <1>12 DEF Desk!Next, Desk!Commit
<1> QED
  BY <1>13 DEF Goal

LEMMA DeskStep ==
    ASSUME NEW s \in CheckInSizes, DeskInv(s), Desk(s)!Next
    PROVE  DeskInv(s)' /\ Desk(s)!KeepsCheckIns
BY DeskCommits, DeskArrivals DEF DeskInv, OneAtDesk

LEMMA DeskTypeOK == ASSUME NEW s, DeskInv(s) PROVE Desk(s)!TypeOK
BY DEF DeskInv, DeskTypes, Desk!TypeOK, LookedUp, SessionRows

-----------------------------------------------------------------------------
(* Attendance. *)

\* Who is recorded was scanned in a session there is, and no save is about to
\* delete a session somebody was scanned in.
ScanInv(s) ==
    /\ Scans(s)!TypeOK
    /\ session = [k \in Scans(s)!Keys |-> session[k]]
    /\ \A r \in record : r[2] \in Scans(s)!Rows /\ r[2] \notin saving.drop
    /\ ~saving.on => saving.drop = {}
    /\ \A r \in s.responses, k \in Scans(s)!Keys : <<r, k>> \in record <=> k \in made[r]

LEMMA ScanInit == ASSUME NEW s \in AttendanceSizes, Scans(s)!Init PROVE ScanInv(s)
BY DEF ScanInv, Scans!Init, Scans!TypeOK, Scans!Idle, Scans!Configs

LEMMA ScanReports == ASSUME NEW s, ScanInv(s) PROVE Scans(s)!ScansAreReported
<1> SUFFICES ASSUME NEW r \in s.responses PROVE Scans(s)!Attended(r) = made[r]
  BY DEF Scans!ScansAreReported
<1>1. made[r] \subseteq Scans(s)!Keys /\ Scans(s)!Rows \subseteq Scans(s)!Keys
  BY DEF ScanInv, Scans!TypeOK, Scans!Rows
<1>2. \A k \in Scans(s)!Keys : <<r, k>> \in record => k \in Scans(s)!Rows
  BY DEF ScanInv
<1> QED
  BY <1>1, <1>2 DEF ScanInv, Scans!Attended

LEMMA ScanStep ==
    ASSUME NEW s \in AttendanceSizes, ScanInv(s), Scans(s)!Next
    PROVE  ScanInv(s)'
<1> USE DEF ScanInv, Scans!TypeOK
<1> DEFINE Goal == ScanInv(s)'
<1>1. ASSUME NEW c \in Scans(s)!Configs, Scans(s)!BeginSave(c) PROVE Goal
  <2>1. Scans(s)!Rows \subseteq Scans(s)!Keys /\ \A r \in record : r[2] \in Scans(s)!Scanned
    BY DEF Scans!Rows, Scans!Scanned
  <2>2. /\ saving' = [on |-> TRUE, drop |-> Scans(s)!Rows \ (Scans(s)!Desired(c) \cup Scans(s)!Scanned)]
        /\ config' = c /\ session' = session /\ badge' = badge /\ record' = record
        /\ welcomed' = welcomed /\ made' = made
    BY <1>1 DEF Scans!BeginSave, Scans!Saving
  <2>3. saving' \in [on : BOOLEAN, drop : SUBSET Scans(s)!Keys] /\ saving'.on
    BY <2>1, <2>2
  <2>4. \A r \in record : r[2] \notin saving'.drop
    BY <2>1, <2>2
  <2>5. Scans(s)!Rows' = Scans(s)!Rows
    BY <2>2 DEF Scans!Rows
  <2> QED
    BY <2>2, <2>3, <2>4, <2>5
<1>2. ASSUME Scans(s)!CommitSave PROVE Goal
  <2>1. /\ session' = [k \in Scans(s)!Keys |->
                          IF k \in Scans(s)!Desired(config) THEN config.start + k[1]
                          ELSE IF k \in saving.drop THEN Scans(s)!None ELSE session[k]]
        /\ saving' = Scans(s)!Idle
        /\ config' = config /\ badge' = badge /\ welcomed' = welcomed /\ made' = made
    BY <1>2 DEF Scans!CommitSave
  <2>2. record' = record
    BY <1>2 DEF Scans!CommitSave
  <2>3. config.start \in s.starts /\ config.start \in Nat \ {0}
    BY HackathonAssumption DEF Scans!Configs, Scans!DaysCount, Scans!None
  <2>4. \A k \in Scans(s)!Keys : k[1] \in Nat
    BY HackathonAssumption DEF Scans!Keys, Scans!DaysCount
  <2>5. \A k \in Scans(s)!Keys : session'[k] = Scans(s)!None \/ \E x \in s.starts : session'[k] = x + k[1]
    BY <2>1, <2>3
  <2>6. ASSUME NEW k \in Scans(s)!Keys, session[k] # Scans(s)!None, k \notin saving.drop
        PROVE  session'[k] # Scans(s)!None
    BY <2>1, <2>3, <2>4, <2>6 DEF Scans!None
  <2>7. \A r \in record : r[2] \in Scans(s)!Rows'
    BY <2>6 DEF Scans!Rows
  <2>8. saving' \in [on : BOOLEAN, drop : SUBSET Scans(s)!Keys] /\ ~saving'.on /\ saving'.drop = {}
    BY <2>1 DEF Scans!Idle
  <2> QED
    BY <2>1, <2>2, <2>5, <2>7, <2>8
<1>3. ASSUME config' = config, session' = session, saving' = saving, welcomed' \in BOOLEAN,
             badge' \in [s.responses -> {"ABSENT", "NONE", "ISSUED"}],
             \/ record' = record /\ made' = made
             \/ \E r \in s.responses : record' = {x \in record : x[1] # r} /\ made' = [made EXCEPT ![r] = {}]
             \/ \E r \in s.responses, k \in Scans(s)!Rows :
                    /\ ~saving.on
                    /\ record' = record \cup {<<r, k>>}
                    /\ made' = [made EXCEPT ![r] = made[r] \cup {k}]
      PROVE  Goal
  <2>1. Scans(s)!Rows' = Scans(s)!Rows /\ Scans(s)!Rows \subseteq Scans(s)!Keys
    BY <1>3 DEF Scans!Rows
  <2>2. CASE record' = record /\ made' = made
    BY <1>3, <2>1, <2>2
  <2>3. ASSUME NEW r \in s.responses,
               record' = {x \in record : x[1] # r} /\ made' = [made EXCEPT ![r] = {}]
        PROVE  Goal
    <3>1. \A q \in s.responses, k \in Scans(s)!Keys : <<q, k>> \in record' <=> k \in made'[q]
      BY <2>3
    <3>2. made' \in [s.responses -> SUBSET Scans(s)!Keys] /\ record' \subseteq record
      BY <2>3
    <3> QED
      BY <1>3, <2>1, <3>1, <3>2
  <2>4. ASSUME NEW r \in s.responses, NEW k \in Scans(s)!Rows, ~saving.on,
               record' = record \cup {<<r, k>>}, made' = [made EXCEPT ![r] = made[r] \cup {k}]
        PROVE  Goal
    <3>1. \A q \in s.responses, j \in Scans(s)!Keys : <<q, j>> \in record' <=> j \in made'[q]
      BY <2>4
    <3>2. /\ made' \in [s.responses -> SUBSET Scans(s)!Keys]
          /\ record' \subseteq s.responses \X Scans(s)!Keys
      BY <2>1, <2>4
    <3>3. \A x \in record' : x[2] \in Scans(s)!Rows /\ x[2] \notin saving.drop
      BY <2>4
    <3> QED
      BY <1>3, <2>1, <3>1, <3>2, <3>3
  <2> HIDE DEF Goal
  <2> QED
    BY <1>3, <2>2, <2>3, <2>4
<1>4. ASSUME NEW r \in s.responses, Scans(s)!Submit(r) \/ Scans(s)!MyBadge(r) PROVE Goal
  <2>1. /\ config' = config /\ session' = session /\ saving' = saving /\ welcomed' = welcomed
        /\ record' = record /\ made' = made
        /\ badge' \in [s.responses -> {"ABSENT", "NONE", "ISSUED"}]
    BY <1>4 DEF Scans!Submit, Scans!MyBadge
  <2> HIDE DEF Goal
  <2> QED
    BY <1>3, <2>1
<1>5. ASSUME NEW r \in s.responses, Scans(s)!DeleteResponse(r) PROVE Goal
  <2>1. /\ config' = config /\ session' = session /\ saving' = saving /\ welcomed' = welcomed
        /\ record' = {x \in record : x[1] # r} /\ made' = [made EXCEPT ![r] = {}]
        /\ badge' \in [s.responses -> {"ABSENT", "NONE", "ISSUED"}]
    BY <1>5 DEF Scans!DeleteResponse
  <2> HIDE DEF Goal
  <2> QED
    BY <1>3, <2>1
<1>6. ASSUME NEW r \in s.responses, NEW k \in Scans(s)!Keys, Scans(s)!Scan(r, k) PROVE Goal
  <2>1. /\ config' = config /\ session' = session /\ saving' = saving /\ welcomed' \in BOOLEAN
        /\ badge' = badge /\ k \in Scans(s)!Rows /\ ~saving.on
        /\ record' = record \cup {<<r, k>>} /\ made' = [made EXCEPT ![r] = made[r] \cup {k}]
    BY <1>6 DEF Scans!Scan, Scans!Free
  <2> HIDE DEF Goal
  <2> QED
    BY <1>3, <2>1
<1> HIDE DEF Goal
<1>7. Goal
  BY <1>1, <1>2, <1>4, <1>5, <1>6 DEF Scans!Next
<1> QED
  BY <1>7 DEF Goal

-----------------------------------------------------------------------------
(* Withdrawals. *)

TeamRows(s) ==
    [status : {"FORMING", "REGISTERED", "PAYMENT_PENDING", "PAYMENT_REJECTED", "WITHDRAWN",
               "DISQUALIFIED", "NONE", "DELETED"},
     lead : s.people \cup {Leaders(s)!Nobody}, members : SUBSET s.people,
     by : s.people \cup {Leaders(s)!Nobody}, waits : BOOLEAN, entered : BOOLEAN, arrived : BOOLEAN,
     quit : s.people \cup {Leaders(s)!Nobody}, fresh : BOOLEAN, ref : s.refs \cup {Leaders(s)!NoRef}]

\* Only a team that nobody is on has no leader.
Led(s, r) == r.lead = Leaders(s)!Nobody => r.members = {}

LeaderInv(s) == Leaders(s)!TypeOK /\ \A t \in s.slots : Led(s, team[t])

\* What a step may do to a team.
RowStep(s, r, q) ==
    /\ q \in TeamRows(s) /\ Led(s, q)
    /\ r.status \in Leaders(s)!Active /\ r.members # {} /\ q.status = "WITHDRAWN"
          => q.lead # Leaders(s)!Nobody

LEMMA RowsTyped == ASSUME NEW s, LeaderInv(s), NEW t \in s.slots
                   PROVE  team[t] \in TeamRows(s) /\ Led(s, team[t])
BY DEF LeaderInv, Leaders!TypeOK, TeamRows, Leaders!Active, Leaders!Unpaid, Leaders!Ended, Leaders!NoRow

LEMMA LeaderInit == ASSUME NEW s \in WithdrawalSizes, Leaders(s)!Init PROVE LeaderInv(s)
<1>1. Leaders(s)!Blank("NONE") \in TeamRows(s) /\ Led(s, Leaders(s)!Blank("NONE"))
  BY DEF Leaders!Blank, Leaders!Row, TeamRows, Led
<1>2. \A t \in s.slots : team[t] = Leaders(s)!Blank("NONE")
  BY DEF Leaders!Init
<1>3. team = [t \in s.slots |-> team[t]] /\ s.maxExtra \in Nat
  BY HackathonAssumption DEF Leaders!Init
<1> HIDE DEF Led
<1> QED
  BY <1>1, <1>2, <1>3 DEF LeaderInv, Leaders!Init, Leaders!TypeOK, TeamRows, Leaders!Active,
                          Leaders!Unpaid, Leaders!Ended, Leaders!NoRow

\* A step that changes rows this way, and does not give up a team.
LEMMA RowsChanged ==
    ASSUME NEW s, LeaderInv(s),
           team' \in [s.slots -> TeamRows(s)],
           \A t \in s.slots : RowStep(s, team[t], team'[t]),
           request' \in [s.slots -> s.people \cup {Leaders(s)!Nobody}],
           extra' \in [s.people -> 0..s.maxExtra], proof' \subseteq s.people,
           spent' \subseteq s.refs, minSize' \in 1..2
    PROVE  LeaderInv(s)' /\ Leaders(s)!OrganizersLetGo
<1>1. \A t \in s.slots : Led(s, team'[t])
  BY DEF RowStep
<1>2. Leaders(s)!OrganizersLetGo
  BY DEF RowStep, Leaders!OrganizersLetGo, Leaders!GivenUp
<1>3. LeaderInv(s)'
  <2> HIDE DEF Led
  <2> QED
    BY <1>1 DEF LeaderInv, Leaders!TypeOK, TeamRows, Leaders!Active, Leaders!Unpaid,
              Leaders!Ended, Leaders!NoRow
<1> QED
  BY <1>2, <1>3

\* Recomputing a status keeps a row.
LEMMA RowRecomputed ==
    ASSUME NEW s, NEW r \in TeamRows(s), Led(s, r), NEW n
    PROVE  LET q == Leaders(s)!Recomputed(r, n)
           IN  /\ q \in TeamRows(s) /\ Led(s, q) /\ q.lead = r.lead /\ q.members = r.members
               /\ q.status = "NONE" => r.status = "NONE"
               /\ q.status = "WITHDRAWN" => r.status = "WITHDRAWN"
               /\ r.status = "WITHDRAWN" => q.status = "WITHDRAWN"
<1>1. PICK x \in {"REGISTERED", "FORMING"} :
          \/ Leaders(s)!Recomputed(r, n) = r
          \/ r.status \in Leaders(s)!Active /\ Leaders(s)!Recomputed(r, n) = [r EXCEPT !.status = x]
  <2> DEFINE x == IF Leaders(s)!Cardinality(r.members) >= n THEN "REGISTERED" ELSE "FORMING"
  <2>1. x \in {"REGISTERED", "FORMING"}
    OBVIOUS
  <2>2. \/ Leaders(s)!Recomputed(r, n) = r
        \/ r.status \in Leaders(s)!Active /\ Leaders(s)!Recomputed(r, n) = [r EXCEPT !.status = x]
    BY DEF Leaders!Recomputed
  <2> HIDE DEF x
  <2> QED
    BY <2>1, <2>2
<1> QED
  BY <1>1 DEF TeamRows, Led, Leaders!Active

\* One row is put, with its status recomputed, or given as it is.
LEMMA RowPut ==
    ASSUME NEW s, LeaderInv(s), NEW t \in s.slots, NEW r \in TeamRows(s), Led(s, r),
           team[t].status \in Leaders(s)!Active /\ team[t].members # {} /\ r.status = "WITHDRAWN"
              => r.lead # Leaders(s)!Nobody,
           Leaders(s)!Put(t, r) \/ team' = [team EXCEPT ![t] = r]
    PROVE  team' \in [s.slots -> TeamRows(s)] /\ \A u \in s.slots : RowStep(s, team[u], team'[u])
<1>1. PICK q \in TeamRows(s) : /\ team' = [team EXCEPT ![t] = q]
                               /\ Led(s, q) /\ q.lead = r.lead
                               /\ q.status = "WITHDRAWN" => r.status = "WITHDRAWN"
  <2>1. CASE Leaders(s)!Put(t, r)
    BY <2>1, RowRecomputed DEF Leaders!Put
  <2>2. CASE team' = [team EXCEPT ![t] = r]
    BY <2>2
  <2> QED
    BY <2>1, <2>2
<1>2. DOMAIN team = s.slots /\ team = [u \in s.slots |-> team[u]]
  BY DEF LeaderInv, Leaders!TypeOK
<1>3. \A u \in s.slots : team[u] \in TeamRows(s) /\ Led(s, team[u])
  BY RowsTyped
<1>4. \A u \in s.slots : team[u].status \in Leaders(s)!Active => team[u].status # "WITHDRAWN"
  BY DEF Leaders!Active
<1> HIDE DEF TeamRows, Led
<1>5. team' \in [s.slots -> TeamRows(s)]
  BY <1>1, <1>2, <1>3
<1>6. ASSUME NEW u \in s.slots PROVE RowStep(s, team[u], team'[u])
  <2>1. CASE u = t
    BY <1>1, <1>2, <2>1 DEF RowStep
  <2>2. CASE u # t
    <3>1. team'[u] = team[u]
      BY <1>1, <1>2, <2>2
    <3> QED
      BY <1>3, <1>4, <3>1 DEF RowStep
  <2> QED
    BY <2>1, <2>2
<1> QED
  BY <1>5, <1>6

\* The last member gives the team up, with an approval if one is needed.
LEMMA Finished ==
    ASSUME NEW s, LeaderInv(s), NEW t \in s.slots, NEW p \in s.people,
           Leaders(s)!Finish(t, p), Leaders(s)!LastOf(t, p), Leaders(s)!Is(t, Leaders(s)!Active),
           request' \in [s.slots -> s.people \cup {Leaders(s)!Nobody}],
           extra' = extra, proof' = proof, spent' = spent, minSize' = minSize,
           team[t].entered \/ (Leaders(s)!Placed(t) /\ team[t].arrived)
               => request[t] = p /\ request'[t] = Leaders(s)!Nobody
    PROVE  LeaderInv(s)' /\ Leaders(s)!OrganizersLetGo
<1> DEFINE q == [team[t] EXCEPT !.members = team[t].members \ {p}, !.lead = Leaders(s)!Nobody,
                                !.status = "WITHDRAWN", !.quit = p, !.fresh = TRUE]
<1>1. team' = [team EXCEPT ![t] = q]
  BY Zenon DEF Leaders!Finish
<1>2. team[t] \in TeamRows(s) /\ team[t].members \subseteq {p}
  BY RowsTyped DEF Leaders!LastOf
<1>3. q \in TeamRows(s) /\ q.members = {} /\ q.lead = Leaders(s)!Nobody
  BY <1>2 DEF TeamRows
<1>4. \A u \in s.slots : team[u] \in TeamRows(s) /\ Led(s, team[u])
  BY RowsTyped
<1>5. DOMAIN team = s.slots /\ team = [u \in s.slots |-> team[u]]
  BY DEF LeaderInv, Leaders!TypeOK
<1> HIDE DEF q
<1>6. team'[t] = q /\ \A u \in s.slots : u # t => team'[u] = team[u]
  BY <1>1, <1>5
<1>7. team' \in [s.slots -> TeamRows(s)] /\ \A u \in s.slots : Led(s, team'[u])
  <2>1. Led(s, q)
    BY <1>3 DEF Led
  <2> HIDE DEF Led, TeamRows
  <2>2. \A u \in s.slots : team'[u] \in TeamRows(s) /\ Led(s, team'[u])
    BY <1>3, <1>4, <1>6, <2>1
  <2> QED
    BY <1>1, <1>5, <2>2
<1>8. LeaderInv(s)'
  <2> HIDE DEF Led
  <2> QED
    BY <1>7 DEF LeaderInv, Leaders!TypeOK, TeamRows, Leaders!Active, Leaders!Unpaid,
              Leaders!Ended, Leaders!NoRow
<1>9. ASSUME NEW u \in s.slots, Leaders(s)!GivenUp(u)
      PROVE  /\ team'[u].members = {}
             /\ team[u].entered \/ (Leaders(s)!Placed(u) /\ team[u].arrived)
                   => request[u] \in team[u].members /\ request'[u] = Leaders(s)!Nobody
  <2>1. u = t
    BY <1>6, <1>9 DEF Leaders!GivenUp, Leaders!Active
  <2>2. team[t].members # {}
    BY <1>9, <2>1 DEF Leaders!GivenUp
  <2>3. p \in team[t].members
    BY <1>2, <2>2
  <2> QED
    BY <1>3, <1>6, <2>1, <2>3
<1> QED
  BY <1>8, <1>9 DEF Leaders!OrganizersLetGo

LEMMA LeaderStep ==
    ASSUME NEW s \in WithdrawalSizes, LeaderInv(s), Leaders(s)!Next
    PROVE  LeaderInv(s)' /\ Leaders(s)!OrganizersLetGo
<1> DEFINE Goal == LeaderInv(s)' /\ Leaders(s)!OrganizersLetGo
           Asked == request' \in [s.slots -> s.people \cup {Leaders(s)!Nobody}]
           Others == extra' = extra /\ proof' = proof /\ spent' = spent /\ minSize' = minSize
           Act(t) == Leaders(s)!Is(t, Leaders(s)!Active)
<1>1. /\ Leaders(s)!Nobody \notin s.people
      /\ request \in [s.slots -> s.people \cup {Leaders(s)!Nobody}]
      /\ extra \in [s.people -> 0..s.maxExtra] /\ proof \subseteq s.people
      /\ spent \subseteq s.refs /\ minSize \in 1..2
      /\ team = [t \in s.slots |-> team[t]]
  BY HackathonAssumption DEF LeaderInv, Leaders!TypeOK, Leaders!LeadersNamed
<1>2. \A t \in s.slots : team[t] \in TeamRows(s) /\ Led(s, team[t])
  BY RowsTyped
<1>3. ASSUME NEW t \in s.slots, NEW r \in TeamRows(s), Led(s, r),
             Act(t) /\ team[t].members # {} /\ r.status = "WITHDRAWN" => r.lead # Leaders(s)!Nobody,
             Leaders(s)!Put(t, r) \/ team' = [team EXCEPT ![t] = r],
             Asked, extra' = extra, proof' \subseteq s.people, spent' \subseteq s.refs, minSize' = minSize
      PROVE  Goal
  <2>1. team' \in [s.slots -> TeamRows(s)] /\ \A u \in s.slots : RowStep(s, team[u], team'[u])
    BY <1>3, RowPut DEF Leaders!Is
  <2> HIDE DEF TeamRows
  <2> QED
    BY <1>1, <1>3, <2>1, RowsChanged
<1>4. ASSUME team' = team, Asked, extra' \in [s.people -> 0..s.maxExtra], proof' \subseteq s.people,
             spent' = spent, minSize' = minSize
      PROVE  Goal
  <2>1. team' \in [s.slots -> TeamRows(s)]
    <3> HIDE DEF TeamRows
    <3> QED
      BY <1>1, <1>2, <1>4
  <2>2. \A u \in s.slots : RowStep(s, team[u], team'[u])
    BY <1>2, <1>4 DEF RowStep, Leaders!Active
  <2> HIDE DEF TeamRows
  <2> QED
    BY <1>1, <1>4, <2>1, <2>2, RowsChanged
<1>5. ASSUME NEW t \in s.slots, NEW p \in s.people,
             \/ Leaders(s)!CreateTeam(t, p) \/ Leaders(s)!AdminCreateTeam(t, p)
             \/ \E ref \in s.refs : Leaders(s)!CreatePaidTeam(t, p, ref)
      PROVE  Goal
  <2>1. PICK st \in {"FORMING", "PAYMENT_PENDING"}, by \in s.people \cup {Leaders(s)!Nobody},
             w \in BOOLEAN, ref \in s.refs \cup {Leaders(s)!NoRef} :
            \/ Leaders(s)!Put(t, Leaders(s)!Row(st, p, by, w, ref))
            \/ team' = [team EXCEPT ![t] = Leaders(s)!Row(st, p, by, w, ref)]
    BY <1>5, Zenon DEF Leaders!CreateTeam, Leaders!AdminCreateTeam, Leaders!CreatePaidTeam
  <2> DEFINE r == Leaders(s)!Row(st, p, by, w, ref)
  <2>2. r \in TeamRows(s) /\ Led(s, r) /\ r.status # "WITHDRAWN"
    BY <1>1 DEF Leaders!Row, TeamRows, Led
  <2>3. /\ request' = request /\ extra' = extra /\ minSize' = minSize /\ spent' = spent
        /\ proof' = proof \/ proof' = proof \ {p}
    BY <1>5 DEF Leaders!CreateTeam, Leaders!AdminCreateTeam, Leaders!CreatePaidTeam
  <2> HIDE DEF r, Goal
  <2> QED
    BY <1>1, <1>3, <2>1, <2>2, <2>3 DEF r
<1>6. ASSUME NEW t \in s.slots, Leaders(s)!EraseUnpaid(t) \/ Leaders(s)!DeleteTeam(t) PROVE Goal
  <2> DEFINE r == Leaders(s)!Blank("DELETED")
  <2>1. r \in TeamRows(s) /\ Led(s, r) /\ r.status # "WITHDRAWN"
    BY DEF Leaders!Blank, Leaders!Row, TeamRows, Led
  <2>2. /\ team' = [team EXCEPT ![t] = r] /\ Asked
        /\ extra' = extra /\ minSize' = minSize /\ proof' = proof
    BY <1>1, <1>6 DEF Leaders!EraseUnpaid, Leaders!DeleteTeam, Leaders!Erase
  <2>3. spent' \subseteq s.refs
    <3>1. team[t].ref \in s.refs \cup {Leaders(s)!NoRef}
      BY <1>2 DEF TeamRows
    <3>2. spent' = spent \/ spent' = spent \cup ({team[t].ref} \ {Leaders(s)!NoRef})
      BY <1>6, Zenon DEF Leaders!EraseUnpaid, Leaders!DeleteTeam
    <3> QED
      BY <1>1, <3>1, <3>2
  <2> HIDE DEF r, Goal
  <2> QED
    BY <1>1, <1>3, <2>1, <2>2, <2>3
<1>7. ASSUME NEW t \in s.slots, NEW p \in s.people,
             Leaders(s)!Transfer(t, p) \/ Leaders(s)!LeaveTeam(t, p) \/ Leaders(s)!AddMember(t, p)
      PROVE  Goal
  <2>1. /\ request' = request /\ extra' = extra /\ minSize' = minSize /\ spent' = spent /\ proof' = proof
    BY <1>7 DEF Leaders!Transfer, Leaders!LeaveTeam, Leaders!AddMember
  <2>2. PICK lead \in s.people \cup {Leaders(s)!Nobody}, ms \in SUBSET s.people :
            /\ Leaders(s)!Put(t, [team[t] EXCEPT !.lead = lead, !.members = ms])
            /\ lead = Leaders(s)!Nobody => ms = {}
            /\ lead # Leaders(s)!Nobody \/ Act(t)
    <3> DEFINE r == team[t]
    <3>1. r \in TeamRows(s) /\ Led(s, r)
      BY <1>2
    <3>2. CASE Leaders(s)!Transfer(t, p)
      <4>1. Leaders(s)!Put(t, [r EXCEPT !.lead = p]) /\ Act(t)
        BY <3>2 DEF Leaders!Transfer
      <4>2. [r EXCEPT !.lead = p] = [r EXCEPT !.lead = p, !.members = r.members]
        BY <3>1 DEF TeamRows
      <4>3. r.members \in SUBSET s.people /\ p # Leaders(s)!Nobody
        BY <1>1, <3>1 DEF TeamRows
      <4> HIDE DEF r
      <4> QED
        BY <4>1, <4>2, <4>3 DEF r
    <3>3. CASE Leaders(s)!LeaveTeam(t, p)
      <4>1. Leaders(s)!Put(t, [r EXCEPT !.members = r.members \ {p}]) /\ Act(t)
        BY <3>3, Zenon DEF Leaders!LeaveTeam
      <4>2. [r EXCEPT !.members = r.members \ {p}] = [r EXCEPT !.lead = r.lead, !.members = r.members \ {p}]
        BY <3>1 DEF TeamRows
      <4>3. /\ r.members \ {p} \in SUBSET s.people /\ r.lead \in s.people \cup {Leaders(s)!Nobody}
            /\ r.lead = Leaders(s)!Nobody => r.members \ {p} = {}
        BY <3>1 DEF TeamRows, Led
      <4> HIDE DEF r
      <4> QED
        BY <4>1, <4>2, <4>3 DEF r
    <3>4. CASE Leaders(s)!AddMember(t, p)
      <4> DEFINE lead == IF r.lead = Leaders(s)!Nobody THEN p ELSE r.lead
                 ms == r.members \cup {p}
      <4>1. Leaders(s)!Put(t, [r EXCEPT !.members = ms, !.lead = lead])
        BY <3>4, Zenon DEF Leaders!AddMember
      <4>2. [r EXCEPT !.members = ms, !.lead = lead] = [r EXCEPT !.lead = lead, !.members = ms]
        BY <3>1 DEF TeamRows
      <4>3. ms \in SUBSET s.people /\ lead \in s.people \cup {Leaders(s)!Nobody} /\ lead # Leaders(s)!Nobody
        BY <1>1, <3>1 DEF TeamRows
      <4> HIDE DEF r, lead, ms
      <4> QED
        BY <4>1, <4>2, <4>3 DEF r
    <3> QED
      BY <1>7, <3>2, <3>3, <3>4
  <2> DEFINE r == [team[t] EXCEPT !.lead = lead, !.members = ms]
  <2>3. r \in TeamRows(s) /\ r.lead = lead /\ r.members = ms /\ r.status = team[t].status
    BY <1>2, <2>2 DEF TeamRows
  <2>4. Led(s, r)
    BY <2>2, <2>3 DEF Led
  <2>5. Act(t) /\ r.status = "WITHDRAWN" => r.lead # Leaders(s)!Nobody
    BY <2>3 DEF Leaders!Is, Leaders!Active
  <2> HIDE DEF r, Goal
  <2> QED
    BY <1>1, <1>3, <2>1, <2>2, <2>3, <2>4, <2>5 DEF r
<1>8. ASSUME NEW t \in s.slots, Leaders(s)!Hold(t) PROVE Goal
  <2>1. request' = request /\ extra' = extra /\ minSize' = minSize /\ spent' = spent /\ proof' = proof
    BY <1>8 DEF Leaders!Hold
  <2>2. PICK r : /\ Leaders(s)!Put(t, r)
                 /\ \E b \in BOOLEAN : \/ r = [team[t] EXCEPT !.entered = b]
                                       \/ r = [team[t] EXCEPT !.arrived = b]
                                       \/ r = [team[t] EXCEPT !.waits = FALSE]
    BY <1>8 DEF Leaders!Hold
  <2>3. r \in TeamRows(s) /\ r.lead = team[t].lead /\ r.members = team[t].members
        /\ r.status = team[t].status
    BY <1>2, <2>2 DEF TeamRows
  <2>4. Led(s, r)
    BY <1>2, <2>3 DEF Led
  <2>5. r.status # "WITHDRAWN"
    BY <1>8, <2>3 DEF Leaders!Hold, Leaders!Is, Leaders!Active
  <2> HIDE DEF Goal
  <2> QED
    BY <1>1, <1>3, <2>1, <2>2, <2>3, <2>4, <2>5
<1>9. ASSUME NEW t \in s.slots, Leaders(s)!CheckPayment(t) PROVE Goal
  <2>1. request' = request /\ extra' = extra /\ minSize' = minSize /\ spent' = spent /\ proof' = proof
    BY <1>9 DEF Leaders!CheckPayment
  <2>2. PICK r : /\ Leaders(s)!Put(t, r)
                 /\ \/ \E b \in BOOLEAN : r = [team[t] EXCEPT !.status = "FORMING", !.waits = b]
                    \/ r = [team[t] EXCEPT !.status = "PAYMENT_REJECTED"]
                    \/ r = [team[t] EXCEPT !.status = "PAYMENT_PENDING"]
    BY <1>9 DEF Leaders!CheckPayment
  <2>3. r \in TeamRows(s) /\ r.lead = team[t].lead /\ r.members = team[t].members
        /\ r.status # "WITHDRAWN"
    BY <1>2, <2>2 DEF TeamRows
  <2>4. Led(s, r)
    BY <1>2, <2>3 DEF Led
  <2> HIDE DEF Goal
  <2> QED
    BY <1>1, <1>3, <2>1, <2>2, <2>3, <2>4
<1>10. ASSUME NEW t \in s.slots, NEW x \in Leaders(s)!Active \cup Leaders(s)!Ended,
              Leaders(s)!SetStatus(t, x)
       PROVE  Goal
  <2> DEFINE r == [team[t] EXCEPT !.status = x]
  <2>1. /\ extra' = extra /\ minSize' = minSize /\ spent' = spent /\ proof' = proof /\ Asked
        /\ Leaders(s)!Put(t, r)
    BY <1>1, <1>10 DEF Leaders!SetStatus
  <2>2. r \in TeamRows(s) /\ r.lead = team[t].lead /\ r.members = team[t].members
    BY <1>2, <1>10 DEF TeamRows, Leaders!Active, Leaders!Ended
  <2>3. Led(s, r) /\ (team[t].members # {} => r.lead # Leaders(s)!Nobody)
    BY <1>2, <2>2 DEF Led
  <2> HIDE DEF r, Goal
  <2> QED
    BY <1>1, <1>3, <2>1, <2>2, <2>3
<1>11. ASSUME NEW t \in s.slots, Leaders(s)!CooldownEnds(t) PROVE Goal
  <2> DEFINE r == [team[t] EXCEPT !.fresh = FALSE]
  <2>1. /\ request' = request /\ extra' = extra /\ minSize' = minSize /\ spent' = spent /\ proof' = proof
        /\ team' = [team EXCEPT ![t] = r]
    BY <1>11, Zenon DEF Leaders!CooldownEnds
  <2>2. /\ r \in TeamRows(s) /\ r.lead = team[t].lead /\ r.members = team[t].members
        /\ r.status = team[t].status
    BY <1>2 DEF TeamRows
  <2>3. Led(s, r) /\ (team[t].members # {} => r.lead # Leaders(s)!Nobody)
    BY <1>2, <2>2 DEF Led
  <2> HIDE DEF r, Goal
  <2> QED
    BY <1>1, <1>3, <2>1, <2>2, <2>3
<1>12. ASSUME NEW n \in 1..2, Leaders(s)!SetMinSize(n) PROVE Goal
  <2>1. /\ team' = [t \in s.slots |-> Leaders(s)!Recomputed(team[t], n)] /\ minSize' = n
        /\ request' = request /\ extra' = extra /\ proof' = proof /\ spent' = spent
    BY <1>12 DEF Leaders!SetMinSize
  <2>2. ASSUME NEW t \in s.slots
        PROVE  team'[t] \in TeamRows(s) /\ RowStep(s, team[t], team'[t])
    <3>1. team'[t] = Leaders(s)!Recomputed(team[t], n)
      BY <2>1
    <3>2. team[t] \in TeamRows(s) /\ Led(s, team[t])
      BY <1>2
    <3>3. /\ team'[t] \in TeamRows(s) /\ Led(s, team'[t])
          /\ team'[t].status = "WITHDRAWN" => team[t].status = "WITHDRAWN"
      BY <3>1, <3>2, RowRecomputed
    <3> QED
      BY <3>3 DEF RowStep, Leaders!Active
  <2> HIDE DEF TeamRows
  <2>3. team' \in [s.slots -> TeamRows(s)]
    BY <2>1, <2>2
  <2> QED
    BY <1>1, <2>1, <2>2, <2>3, RowsChanged
<1>13. ASSUME NEW t \in s.slots, NEW p \in s.people,
              NEW policy \in {"INSTANT", "APPROVAL", "LOCKED"}, NEW end \in {"OPEN", "DEADLINE", "ENDED"},
              Leaders(s)!Withdraw(t, p, policy, end)
       PROVE  Goal
  <2>1. Others
    BY <1>13 DEF Leaders!Withdraw
  <2>2. CASE Leaders(s)!NeedsApproval(t, policy)
    <3>1. team' = team /\ Asked
      BY <1>1, <1>13, <2>2 DEF Leaders!Withdraw
    <3> HIDE DEF Goal
    <3> QED
      BY <1>1, <1>4, <2>1, <3>1
  <2>3. CASE ~Leaders(s)!NeedsApproval(t, policy)
    <3>1. Leaders(s)!Finish(t, p) /\ request' = request /\ Act(t) /\ Leaders(s)!LastOf(t, p)
      BY <1>13, <2>3 DEF Leaders!Withdraw
    <3>2. ~(team[t].entered \/ (Leaders(s)!Placed(t) /\ team[t].arrived))
      BY <2>3 DEF Leaders!NeedsApproval
    <3> QED
      BY <1>1, <2>1, <3>1, <3>2, Finished
  <2> QED
    BY <2>2, <2>3
<1>14. ASSUME NEW t \in s.slots, Leaders(s)!Approve(t) PROVE Goal
  <2>1. /\ Others /\ Leaders(s)!Finish(t, request[t]) /\ Act(t) /\ Leaders(s)!LastOf(t, request[t])
        /\ request[t] # Leaders(s)!Nobody
    BY <1>14 DEF Leaders!Approve
  <2>2. request' = [request EXCEPT ![t] = Leaders(s)!Nobody]
    BY <1>14 DEF Leaders!Approve
  <2>3. request[t] \in s.people /\ Asked /\ request'[t] = Leaders(s)!Nobody
    BY <1>1, <2>1, <2>2
  <2> QED
    BY <2>1, <2>3, Finished
<1>15. ASSUME NEW t \in s.slots, Leaders(s)!DropRequest(t) PROVE Goal
  <2>1. team' = team /\ Asked /\ Others
    BY <1>1, <1>15 DEF Leaders!DropRequest
  <2> HIDE DEF Goal
  <2> QED
    BY <1>1, <1>4, <2>1
<1>16. ASSUME NEW p \in s.people,
              \/ Leaders(s)!UploadProof(p) \/ Leaders(s)!DropProof(p)
              \/ \E n \in 1..s.maxExtra : Leaders(s)!Grant(p, n)
       PROVE  Goal
  <2>1. /\ team' = team /\ request' = request /\ spent' = spent /\ minSize' = minSize
        /\ proof' \subseteq s.people /\ extra' \in [s.people -> 0..s.maxExtra]
    BY <1>1, <1>16 DEF Leaders!UploadProof, Leaders!DropProof, Leaders!Grant
  <2> HIDE DEF Goal
  <2> QED
    BY <1>1, <1>4, <2>1
<1> HIDE DEF Goal
<1>17. ASSUME NEW t \in s.slots, NEW p \in s.people, Leaders(s)!TeamStep(t, p) PROVE Goal
  BY <1>5, <1>7, <1>13, <1>17 DEF Leaders!TeamStep
<1>18. ASSUME NEW t \in s.slots, Leaders(s)!OrganizerStep(t) PROVE Goal
  BY <1>5, <1>6, <1>7, <1>8, <1>9, <1>10, <1>14, <1>15, <1>18 DEF Leaders!OrganizerStep
<1>19. Goal
  BY <1>11, <1>12, <1>16, <1>17, <1>18 DEF Leaders!Next
<1> QED
  BY <1>19 DEF Goal

\* A row that was never used has nobody on it.
NewRowsEmpty(s) ==
    \A t \in s.slots : team[t].status = "NONE" => team[t].members = {} /\ team[t].lead = Leaders(s)!Nobody

\* The members and the leader of a row stay, or move as module Membership says.
RowStays(t) == team'[t].members = team[t].members /\ team'[t].lead = team[t].lead

RowMoves(s, t) ==
    \/ \E p \in s.people :
          \/ /\ Leaders(s)!Free(p)
             /\ team'[t].members = team[t].members \cup {p}
             /\ \/ team'[t].lead = team[t].lead
                \/ team[t].lead = Leaders(s)!Nobody /\ team'[t].lead = p
          \/ /\ p \in team[t].members /\ p # team[t].lead
             /\ team'[t].members = team[t].members \ {p} /\ team'[t].lead = team[t].lead
          \/ /\ p \in team[t].members
             /\ team'[t].members = team[t].members /\ team'[t].lead = p
    \/ team'[t].members = {} /\ team'[t].lead = Leaders(s)!Nobody

\* What a row that is put says of its members.
LEMMA RowPutMembers ==
    ASSUME NEW s, LeaderInv(s), NEW t \in s.slots, NEW r \in TeamRows(s), Led(s, r),
           Leaders(s)!Put(t, r) \/ team' = [team EXCEPT ![t] = r]
    PROVE  /\ team'[t].members = r.members /\ team'[t].lead = r.lead
           /\ team'[t].status = "NONE" => r.status = "NONE"
           /\ \A u \in s.slots \ {t} : team'[u] = team[u]
<1>1. DOMAIN team = s.slots
  BY DEF LeaderInv, Leaders!TypeOK
<1>2. PICK q : /\ team' = [team EXCEPT ![t] = q]
               /\ q.members = r.members /\ q.lead = r.lead /\ (q.status = "NONE" => r.status = "NONE")
  BY RowRecomputed DEF Leaders!Put
<1> QED
  BY <1>1, <1>2

LEMMA MembersMove ==
    ASSUME NEW s \in WithdrawalSizes, LeaderInv(s), NewRowsEmpty(s), Leaders(s)!Next
    PROVE  /\ NewRowsEmpty(s)'
           /\ \/ \A u \in s.slots : RowStays(u)
              \/ \E t \in s.slots : RowMoves(s, t) /\ \A u \in s.slots \ {t} : RowStays(u)
<1> DEFINE Goal == /\ NewRowsEmpty(s)'
                   /\ \/ \A u \in s.slots : RowStays(u)
                      \/ \E t \in s.slots : RowMoves(s, t) /\ \A u \in s.slots \ {t} : RowStays(u)
<1>1. /\ Leaders(s)!Nobody \notin s.people
      /\ DOMAIN team = s.slots
      /\ request \in [s.slots -> s.people \cup {Leaders(s)!Nobody}]
  BY HackathonAssumption DEF LeaderInv, Leaders!TypeOK, Leaders!LeadersNamed
<1>2. \A t \in s.slots : team[t] \in TeamRows(s) /\ Led(s, team[t])
  BY RowsTyped
\* One row is put whose members moved, or stayed.
<1>3. ASSUME NEW t \in s.slots, NEW r \in TeamRows(s), Led(s, r), r.status # "NONE",
             Leaders(s)!Put(t, r) \/ team' = [team EXCEPT ![t] = r],
             \/ r.members = team[t].members /\ r.lead = team[t].lead
             \/ RowMoves(s, t)
      PROVE  Goal
  <2>1. /\ team'[t].members = r.members /\ team'[t].lead = r.lead /\ team'[t].status # "NONE"
        /\ \A u \in s.slots \ {t} : team'[u] = team[u]
    BY <1>3, RowPutMembers
  <2>2. NewRowsEmpty(s)'
    BY <2>1 DEF NewRowsEmpty, Leaders!Nobody
  <2>3. \A u \in s.slots \ {t} : RowStays(u)
    BY <2>1 DEF RowStays
  <2>4. CASE RowMoves(s, t)
    BY <2>2, <2>3, <2>4
  <2>5. CASE r.members = team[t].members /\ r.lead = team[t].lead
    BY <2>1, <2>2, <2>3, <2>5 DEF RowStays
  <2> QED
    BY <1>3, <2>4, <2>5
<1>4. ASSUME team' = team PROVE Goal
  BY <1>4 DEF NewRowsEmpty, RowStays, Leaders!Nobody
<1>5. ASSUME NEW t \in s.slots, NEW p \in s.people,
             \/ Leaders(s)!CreateTeam(t, p) \/ Leaders(s)!AdminCreateTeam(t, p)
             \/ \E ref \in s.refs : Leaders(s)!CreatePaidTeam(t, p, ref)
      PROVE  Goal
  <2>1. PICK st \in {"FORMING", "PAYMENT_PENDING"}, by \in s.people \cup {Leaders(s)!Nobody},
             w \in BOOLEAN, ref \in s.refs \cup {Leaders(s)!NoRef} :
            \/ Leaders(s)!Put(t, Leaders(s)!Row(st, p, by, w, ref))
            \/ team' = [team EXCEPT ![t] = Leaders(s)!Row(st, p, by, w, ref)]
    BY <1>5, Zenon DEF Leaders!CreateTeam, Leaders!AdminCreateTeam, Leaders!CreatePaidTeam
  <2> DEFINE r == Leaders(s)!Row(st, p, by, w, ref)
  <2>2. /\ r \in TeamRows(s) /\ Led(s, r) /\ r.status # "NONE"
        /\ r.members = {p} /\ r.lead = p
    BY <1>1 DEF Leaders!Row, TeamRows, Led
  <2>3. Leaders(s)!Free(p) /\ team[t].members = {} /\ team[t].lead = Leaders(s)!Nobody
    BY <1>5 DEF Leaders!CreateTeam, Leaders!AdminCreateTeam, Leaders!CreatePaidTeam, Leaders!NextRow,
                Leaders!Is, NewRowsEmpty
  <2> HIDE DEF r, Goal
  <2>4. team'[t].members = r.members /\ team'[t].lead = r.lead
    BY <2>1, <2>2, RowPutMembers DEF r
  <2>5. RowMoves(s, t)
    BY <2>2, <2>3, <2>4 DEF RowMoves
  <2> QED
    BY <1>3, <2>1, <2>2, <2>5 DEF r
<1>6. ASSUME NEW t \in s.slots, Leaders(s)!EraseUnpaid(t) \/ Leaders(s)!DeleteTeam(t) PROVE Goal
  <2> DEFINE r == Leaders(s)!Blank("DELETED")
  <2>1. /\ r \in TeamRows(s) /\ Led(s, r) /\ r.status # "NONE"
        /\ r.members = {} /\ r.lead = Leaders(s)!Nobody
    BY DEF Leaders!Blank, Leaders!Row, TeamRows, Led
  <2>2. team' = [team EXCEPT ![t] = r]
    BY <1>6 DEF Leaders!EraseUnpaid, Leaders!DeleteTeam, Leaders!Erase
  <2> HIDE DEF r, Goal
  <2>3. RowMoves(s, t)
    BY <2>1, <2>2, RowPutMembers DEF RowMoves
  <2> QED
    BY <1>3, <2>1, <2>2, <2>3
<1>7. ASSUME NEW t \in s.slots, NEW p \in s.people, Leaders(s)!Transfer(t, p) PROVE Goal
  <2> DEFINE r == [team[t] EXCEPT !.lead = p]
  <2>1. /\ Leaders(s)!Put(t, r) /\ p \in team[t].members
        /\ team[t].status # "NONE"
    BY <1>7 DEF Leaders!Transfer, Leaders!Is, Leaders!Active
  <2>2. r \in TeamRows(s) /\ Led(s, r) /\ r.members = team[t].members /\ r.lead = p /\ r.status # "NONE"
    BY <1>1, <1>2, <2>1 DEF TeamRows, Led
  <2> HIDE DEF r, Goal
  <2>3. RowMoves(s, t)
    BY <2>1, <2>2, RowPutMembers DEF RowMoves
  <2> QED
    BY <1>3, <2>1, <2>2, <2>3
<1>8. ASSUME NEW t \in s.slots, NEW p \in s.people, Leaders(s)!LeaveTeam(t, p) PROVE Goal
  <2> DEFINE r == [team[t] EXCEPT !.members = team[t].members \ {p}]
  <2>1. /\ Leaders(s)!Put(t, r) /\ p \in team[t].members /\ team[t].lead # p
        /\ team[t].status # "NONE"
    BY <1>8, Zenon DEF Leaders!LeaveTeam, Leaders!Is, Leaders!Active
  <2>2. /\ r \in TeamRows(s) /\ Led(s, r) /\ r.members = team[t].members \ {p}
        /\ r.lead = team[t].lead /\ r.status # "NONE"
    BY <1>2, <2>1 DEF TeamRows, Led
  <2> HIDE DEF r, Goal
  <2>3. RowMoves(s, t)
    BY <2>1, <2>2, RowPutMembers DEF RowMoves
  <2> QED
    BY <1>3, <2>1, <2>2, <2>3
<1>9. ASSUME NEW t \in s.slots, NEW p \in s.people, Leaders(s)!AddMember(t, p) PROVE Goal
  <2> DEFINE lead == IF team[t].lead = Leaders(s)!Nobody THEN p ELSE team[t].lead
             r == [team[t] EXCEPT !.members = team[t].members \cup {p}, !.lead = lead]
  <2>1. /\ Leaders(s)!Put(t, r) /\ Leaders(s)!Free(p)
    BY <1>9, Zenon DEF Leaders!AddMember
  <2>0. team[t].status # "NONE"
    BY <1>9 DEF Leaders!AddMember, Leaders!Is, Leaders!Active, Leaders!Ended
  <2>2. /\ r \in TeamRows(s) /\ Led(s, r) /\ r.members = team[t].members \cup {p}
        /\ r.lead = lead /\ r.status # "NONE"
    BY <1>1, <1>2, <2>0 DEF TeamRows, Led
  <2> HIDE DEF r, Goal
  <2>3. RowMoves(s, t)
    BY <2>1, <2>2, RowPutMembers DEF RowMoves
  <2> QED
    BY <1>3, <2>1, <2>2, <2>3
<1>10. ASSUME NEW t \in s.slots, NEW p \in s.people, Leaders(s)!Finish(t, p), Leaders(s)!LastOf(t, p)
       PROVE  Goal
  <2> DEFINE r == [team[t] EXCEPT !.members = team[t].members \ {p}, !.lead = Leaders(s)!Nobody,
                                  !.status = "WITHDRAWN", !.quit = p, !.fresh = TRUE]
  <2>1. team' = [team EXCEPT ![t] = r]
    BY <1>10, Zenon DEF Leaders!Finish
  <2>2. /\ r \in TeamRows(s) /\ Led(s, r) /\ r.members = {} /\ r.lead = Leaders(s)!Nobody
        /\ r.status # "NONE"
    BY <1>2, <1>10 DEF TeamRows, Led, Leaders!LastOf
  <2> HIDE DEF r, Goal
  <2>3. RowMoves(s, t)
    BY <2>1, <2>2, RowPutMembers DEF RowMoves
  <2> QED
    BY <1>3, <2>1, <2>2, <2>3
<1>11. ASSUME NEW t \in s.slots, Leaders(s)!Hold(t) \/ Leaders(s)!CheckPayment(t) PROVE Goal
  <2>1. PICK r : /\ Leaders(s)!Put(t, r)
                 /\ \/ \E b \in BOOLEAN : \/ r = [team[t] EXCEPT !.entered = b]
                                          \/ r = [team[t] EXCEPT !.arrived = b]
                                          \/ r = [team[t] EXCEPT !.status = "FORMING", !.waits = b]
                    \/ r = [team[t] EXCEPT !.waits = FALSE]
                    \/ r = [team[t] EXCEPT !.status = "PAYMENT_REJECTED"]
                    \/ r = [team[t] EXCEPT !.status = "PAYMENT_PENDING"]
    BY <1>11 DEF Leaders!Hold, Leaders!CheckPayment
  <2>2. team[t].status # "NONE"
    BY <1>11 DEF Leaders!Hold, Leaders!CheckPayment, Leaders!Is, Leaders!Active
  <2>3. /\ r \in TeamRows(s) /\ r.lead = team[t].lead /\ r.members = team[t].members
        /\ r.status # "NONE"
    BY <1>2, <2>1, <2>2 DEF TeamRows
  <2>4. Led(s, r)
    BY <1>2, <2>3 DEF Led
  <2> HIDE DEF Goal
  <2> QED
    BY <1>3, <2>1, <2>3, <2>4
<1>12. ASSUME NEW t \in s.slots, NEW x \in Leaders(s)!Active \cup Leaders(s)!Ended,
              Leaders(s)!SetStatus(t, x)
       PROVE  Goal
  <2> DEFINE r == [team[t] EXCEPT !.status = x]
  <2>1. Leaders(s)!Put(t, r)
    BY <1>12 DEF Leaders!SetStatus
  <2>2. /\ r \in TeamRows(s) /\ r.lead = team[t].lead /\ r.members = team[t].members
        /\ r.status # "NONE"
    BY <1>2, <1>12 DEF TeamRows, Leaders!Active, Leaders!Ended
  <2>3. Led(s, r)
    BY <1>2, <2>2 DEF Led
  <2> HIDE DEF r, Goal
  <2> QED
    BY <1>3, <2>1, <2>2, <2>3
<1>13. ASSUME NEW t \in s.slots, Leaders(s)!CooldownEnds(t) PROVE Goal
  <2> DEFINE r == [team[t] EXCEPT !.fresh = FALSE]
  <2>1. team' = [team EXCEPT ![t] = r]
    BY <1>13, Zenon DEF Leaders!CooldownEnds
  <2>2. /\ r.lead = team[t].lead /\ r.members = team[t].members /\ r.status = team[t].status
        /\ team'[t] = r /\ \A u \in s.slots \ {t} : team'[u] = team[u]
    BY <1>1, <1>2, <2>1 DEF TeamRows
  <2> HIDE DEF r
  <2> QED
    BY <2>2 DEF NewRowsEmpty, RowStays, Leaders!Nobody
<1>14. ASSUME NEW n \in 1..2, Leaders(s)!SetMinSize(n) PROVE Goal
  <2>1. ASSUME NEW t \in s.slots
        PROVE  /\ team'[t].members = team[t].members /\ team'[t].lead = team[t].lead
               /\ team'[t].status = "NONE" => team[t].status = "NONE"
    <3>1. team'[t] = Leaders(s)!Recomputed(team[t], n)
      BY <1>14 DEF Leaders!SetMinSize
    <3> QED
      BY <1>2, <3>1, RowRecomputed
  <2> QED
    BY <2>1 DEF NewRowsEmpty, RowStays, Leaders!Nobody
<1> HIDE DEF Goal
<1>15. ASSUME NEW t \in s.slots, NEW p \in s.people,
              NEW policy \in {"INSTANT", "APPROVAL", "LOCKED"}, NEW end \in {"OPEN", "DEADLINE", "ENDED"},
              Leaders(s)!Withdraw(t, p, policy, end)
       PROVE  Goal
  BY <1>4, <1>10, <1>15 DEF Leaders!Withdraw
<1>16. ASSUME NEW t \in s.slots, Leaders(s)!Approve(t) PROVE Goal
  <2>1. request[t] \in s.people /\ Leaders(s)!Finish(t, request[t]) /\ Leaders(s)!LastOf(t, request[t])
    BY <1>1, <1>16 DEF Leaders!Approve
  <2> QED
    BY <1>10, <2>1
<1>17. ASSUME \/ \E t \in s.slots : Leaders(s)!DropRequest(t)
              \/ \E p \in s.people : Leaders(s)!UploadProof(p) \/ Leaders(s)!DropProof(p)
              \/ \E p \in s.people, n \in 1..s.maxExtra : Leaders(s)!Grant(p, n)
       PROVE  Goal
  BY <1>4, <1>17 DEF Leaders!DropRequest, Leaders!UploadProof, Leaders!DropProof, Leaders!Grant
<1>18. ASSUME NEW t \in s.slots, NEW p \in s.people, Leaders(s)!TeamStep(t, p) PROVE Goal
  BY <1>5, <1>7, <1>8, <1>15, <1>18 DEF Leaders!TeamStep
<1>19. ASSUME NEW t \in s.slots, Leaders(s)!OrganizerStep(t) PROVE Goal
  BY <1>5, <1>6, <1>9, <1>11, <1>12, <1>16, <1>17, <1>19 DEF Leaders!OrganizerStep
<1>20. Goal
  BY <1>13, <1>14, <1>17, <1>18, <1>19 DEF Leaders!Next
<1> QED
  BY <1>20 DEF Goal

LEMMA LeaderTypeOK == ASSUME NEW s, LeaderInv(s) PROVE Leaders(s)!TypeOK
BY DEF LeaderInv

-----------------------------------------------------------------------------
(* Problems. *)

\* No request of a team runs while a statement is being deleted, a request
\* knows its statement's maximum, only one counts the teams of a statement, and
\* what it counted is still so.
TopicInv(s) ==
    /\ Topics(s)!TypeOK
    /\ drop # Topics(s)!Idle => \A g \in s.teams : req[g] = Topics(s)!Idle
    /\ drop # Topics(s)!Idle /\ ~drop.force => Topics(s)!Holders(drop.code) = {}
    /\ \A g \in s.teams : req[g] # Topics(s)!Idle => req[g].max = statement[req[g].code].max
    /\ \A g, h \in s.teams :
          Topics(s)!Counted(g) /\ Topics(s)!Counted(h) /\ req[g].code = req[h].code => g = h
    /\ \A g \in s.teams : Topics(s)!Counted(g) =>
          \/ Topics(s)!Kept(g, req[g].code)
          \/ Topics(s)!HasRoom(g, req[g].code, req[g].max)

Statements(s) == [active : BOOLEAN, max : s.maxima \cup {0}, here : BOOLEAN]
TeamStates(s) == [status : {"NONE", "UNPAID", "ACTIVE", "GONE"}, problem : 0..s.maxCode + 1,
                  entered : BOOLEAN]
Asking(s)     == {Topics(s)!Idle} \cup [op : {"LOADED", "COUNTED"}, by : {"TEAM", "ORGANIZER"},
                                        code : 1..s.maxCode, max : s.maxima, active : BOOLEAN]
Dropping(s)   == {Topics(s)!Idle} \cup [op : {"DROP"}, code : 1..s.maxCode, force : BOOLEAN]

LEMMA TopicTypes ==
    ASSUME NEW s
    PROVE  Topics(s)!TypeOK <=>
             /\ statement \in [1..s.maxCode -> Statements(s)]
             /\ \A c \in 1..s.maxCode : ~statement[c].here => statement[c] = Topics(s)!None
             /\ team \in [s.teams -> TeamStates(s)]
             /\ req \in [s.teams -> Asking(s)]
             /\ drop \in Dropping(s)
BY DEF Topics!TypeOK, Topics!Codes, Topics!Open, Topics!NoPick, Statements, TeamStates, Asking, Dropping

LEMMA TopicTypesNext ==
    ASSUME NEW s
    PROVE  Topics(s)!TypeOK' <=>
             /\ statement' \in [1..s.maxCode -> Statements(s)]
             /\ \A c \in 1..s.maxCode : ~statement'[c].here => statement'[c] = Topics(s)!None
             /\ team' \in [s.teams -> TeamStates(s)]
             /\ req' \in [s.teams -> Asking(s)]
             /\ drop' \in Dropping(s)
BY DEF Topics!TypeOK, Topics!Codes, Topics!Open, Topics!NoPick, Statements, TeamStates, Asking, Dropping

LEMMA TopicBounds == ASSUME NEW s \in ProblemSizes
                     PROVE  s.maxCode \in Nat /\ s.maxima \subseteq Nat /\ 0 \in s.maxima
                            /\ IsFiniteSet(s.teams)
BY HackathonAssumption DEF Topics!MaximaCount

\* A part counts with its own copy of the library's operator.
LEMMA TopicCount == ASSUME NEW s, NEW S PROVE Topics(s)!Cardinality(S) = Cardinality(S)
BY DEF Topics!Cardinality, Cardinality, Topics!IsFiniteSet, IsFiniteSet

LEMMA StateChanged ==
    ASSUME NEW s \in ProblemSizes, NEW x \in TeamStates(s), NEW p \in 0..s.maxCode + 1,
           NEW st \in {"NONE", "UNPAID", "ACTIVE", "GONE"}, NEW b \in BOOLEAN
    PROVE  /\ [x EXCEPT !.problem = p, !.status = st] \in TeamStates(s)
           /\ [x EXCEPT !.problem = p, !.status = st].problem = p
           /\ [x EXCEPT !.problem = p] \in TeamStates(s)
           /\ [x EXCEPT !.status = st] \in TeamStates(s)
           /\ [x EXCEPT !.entered = b] \in TeamStates(s)
           /\ 0 \in 0..s.maxCode + 1 /\ s.maxCode + 1 \in 0..s.maxCode + 1
           /\ \A c \in 1..s.maxCode : c \in 0..s.maxCode + 1
           /\ Topics(s)!NoTeam \in TeamStates(s)
<1> DEFINE P == 0..s.maxCode + 1
<1>1. 0 \in P /\ s.maxCode + 1 \in P /\ \A c \in 1..s.maxCode : c \in P
  BY TopicBounds
<1>2. TeamStates(s) = [status : {"NONE", "UNPAID", "ACTIVE", "GONE"}, problem : P, entered : BOOLEAN]
  BY DEF TeamStates
<1>3. p \in P
  OBVIOUS
<1> HIDE DEF P
<1>4. /\ [x EXCEPT !.problem = p, !.status = st] \in TeamStates(s)
      /\ [x EXCEPT !.problem = p, !.status = st].problem = p
      /\ [x EXCEPT !.problem = p] \in TeamStates(s)
      /\ [x EXCEPT !.status = st] \in TeamStates(s)
      /\ [x EXCEPT !.entered = b] \in TeamStates(s)
  <2> DEFINE R == [status : {"NONE", "UNPAID", "ACTIVE", "GONE"}, problem : P, entered : BOOLEAN]
  <2>1. x \in R
    BY <1>2
  <2>2. [x EXCEPT !.problem = p, !.status = st] \in R
    BY <1>3, <2>1
  <2>3. [x EXCEPT !.problem = p, !.status = st].problem = p
    BY <1>3, <2>1
  <2>4. [x EXCEPT !.problem = p] \in R /\ [x EXCEPT !.status = st] \in R
    BY <1>3, <2>1
  <2>5. [x EXCEPT !.entered = b] \in R
    BY <2>1
  <2> HIDE DEF R
  <2> QED
    BY <1>2, <2>2, <2>3, <2>4, <2>5 DEF R
<1>5. Topics(s)!NoTeam \in TeamStates(s)
  BY <1>1, <1>2 DEF Topics!NoTeam, Topics!NoPick
<1> QED
  BY <1>1, <1>4, <1>5 DEF P

Chosen(x, p, st) == [x EXCEPT !.problem = p, !.status = st]

LEMMA ChoiceSaved ==
    ASSUME NEW s \in ProblemSizes, NEW x \in TeamStates(s), NEW p \in 0..s.maxCode + 1,
           NEW st \in {"NONE", "UNPAID", "ACTIVE", "GONE"}
    PROVE  Chosen(x, p, st) \in TeamStates(s) /\ Chosen(x, p, st).problem = p
<1>1. TRUE \in BOOLEAN
  OBVIOUS
<1>2. Chosen(x, p, st) \in TeamStates(s)
  BY <1>1, StateChanged DEF Chosen
<1>3. Chosen(x, p, st).problem = p
  BY DEF Chosen, TeamStates
<1> QED
  BY <1>2, <1>3

LEMMA TopicInit == ASSUME NEW s \in ProblemSizes, Topics(s)!Init PROVE TopicInv(s)
<1>1. Topics(s)!TypeOK
  <2>1. /\ Topics(s)!None \in Statements(s)
        /\ Topics(s)!NoTeam \in TeamStates(s)
    BY TopicBounds DEF Topics!None, Topics!NoTeam, Topics!NoPick, Statements, TeamStates
  <2> QED
    BY <2>1, TopicTypes DEF Topics!Init, Topics!Codes, Asking, Dropping
<1>2. drop = Topics(s)!Idle /\ \A g \in s.teams : req[g] = Topics(s)!Idle /\ ~Topics(s)!Counted(g)
  BY DEF Topics!Init, Topics!Counted, Topics!Idle
<1> QED
  BY <1>1, <1>2 DEF TopicInv

LEMMA Requests ==
    ASSUME NEW s, TopicInv(s), NEW g \in s.teams
    PROVE  /\ Topics(s)!Counted(g) \/ req[g].op = "LOADED"
              => req[g] # Topics(s)!Idle /\ req[g].code \in 1..s.maxCode
           /\ Topics(s)!Counted(g) => req[g].op # "LOADED"
           /\ drop = Topics(s)!Idle \/ ~Topics(s)!Counted(g)
BY TopicTypes DEF TopicInv, Asking, Topics!Counted, Topics!Idle

\* Fewer teams hold a statement.
LEMMA RoomKept ==
    ASSUME NEW s \in ProblemSizes, NEW S \in SUBSET s.teams, NEW T \in SUBSET S
    PROVE  /\ Topics(s)!Cardinality(T) \in Nat /\ Topics(s)!Cardinality(S) \in Nat
           /\ Topics(s)!Cardinality(T) <= Topics(s)!Cardinality(S)
<1>1. IsFiniteSet(s.teams)
  BY TopicBounds
<1>2. IsFiniteSet(S) /\ IsFiniteSet(T)
  BY <1>1, FS_Subset
<1> QED
  BY <1>2, FS_Subset, FS_CardinalityType, TopicCount

\* Organizers act while no team's request runs.
LEMMA TopicQuiet ==
    ASSUME NEW s, TopicInv(s), Topics(s)!TypeOK', \A g \in s.teams : req[g] = Topics(s)!Idle,
           req' = req,
           drop' # Topics(s)!Idle /\ ~drop'.force => Topics(s)!Holders(drop.code)' = {},
           drop # Topics(s)!Idle /\ ~drop.force /\ drop' = Topics(s)!Idle => team' = team
    PROVE  TopicInv(s)' /\ Topics(s)!ChoicesFit /\ Topics(s)!DeletesFree
<1>1. \A g \in s.teams : ~Topics(s)!Counted(g) /\ ~Topics(s)!Counted(g)' /\ req'[g] = Topics(s)!Idle
  BY DEF Topics!Counted, Topics!Idle
<1>2. Topics(s)!ChoicesFit
  BY <1>1 DEF Topics!ChoicesFit
<1>3. Topics(s)!DeletesFree
  BY DEF Topics!DeletesFree
<1>4. Topics(s)!Idle' = Topics(s)!Idle
  BY DEF Topics!Idle
<1> QED
  BY <1>1, <1>2, <1>3, <1>4 DEF TopicInv

\* A request goes on and the teams stay as they are.
LEMMA TopicAsked ==
    ASSUME NEW s \in ProblemSizes, TopicInv(s), NEW g \in s.teams, NEW r \in Asking(s),
           req' = [req EXCEPT ![g] = r],
           statement' = statement, team' = team, drop' = drop,
           r # Topics(s)!Idle => /\ drop = Topics(s)!Idle
                                 /\ r.max = statement[r.code].max,
           r.op = "COUNTED" =>
              /\ \A h \in s.teams \ {g} : Topics(s)!Counted(h) => req[h].code # r.code
              /\ Topics(s)!Kept(g, r.code) \/ Topics(s)!HasRoom(g, r.code, r.max)
    PROVE  TopicInv(s)' /\ Topics(s)!ChoicesFit /\ Topics(s)!DeletesFree
<1>1. Topics(s)!TypeOK'
  BY TopicTypes, TopicTypesNext DEF TopicInv
<1>2. req \in [s.teams -> Asking(s)]
  BY TopicTypes DEF TopicInv
<1>3. req'[g] = r /\ \A h \in s.teams : h # g => req'[h] = req[h]
  BY <1>2
<1>4. Topics(s)!ChoicesFit
  BY DEF Topics!ChoicesFit
<1>5. Topics(s)!DeletesFree
  BY DEF Topics!DeletesFree
<1>6. drop' # Topics(s)!Idle => \A h \in s.teams : req'[h] = Topics(s)!Idle
  BY <1>3 DEF TopicInv
<1>7. drop' # Topics(s)!Idle /\ ~drop'.force => Topics(s)!Holders(drop.code)' = {}
  BY DEF TopicInv, Topics!Holders
<1>8. \A h \in s.teams : req'[h] # Topics(s)!Idle => req'[h].max = statement'[req'[h].code].max
  BY <1>3 DEF TopicInv
<1>9. \A h \in s.teams : /\ h # g => (Topics(s)!Counted(h)' <=> Topics(s)!Counted(h))
                         /\ h = g => (Topics(s)!Counted(h)' <=> r.op = "COUNTED")
  BY <1>3 DEF Topics!Counted
<1>10. \A h, j \in s.teams :
          Topics(s)!Counted(h)' /\ Topics(s)!Counted(j)' /\ req'[h].code = req'[j].code => h = j
  BY <1>3, <1>9 DEF TopicInv
<1>11. ASSUME NEW h \in s.teams, Topics(s)!Counted(h)'
       PROVE  Topics(s)!Kept(h, req[h].code)' \/ Topics(s)!HasRoom(h, req[h].code, req[h].max)'
  <2>1. Topics(s)!Kept(h, req'[h].code) \/ Topics(s)!HasRoom(h, req'[h].code, req'[h].max)
    BY <1>3, <1>9, <1>11 DEF TopicInv
  <2> QED
    BY <2>1 DEF Topics!Kept, Topics!HasRoom, Topics!Active, Topics!Holders
<1>12. Topics(s)!Idle' = Topics(s)!Idle
  BY DEF Topics!Idle
<1> QED
  BY <1>1, <1>4, <1>5, <1>6, <1>7, <1>8, <1>10, <1>11, <1>12 DEF TopicInv

\* A team's row is saved, by a request of its own that ends, or by one that has
\* nothing to count.
LEMMA TopicSaved ==
    ASSUME NEW s \in ProblemSizes, TopicInv(s), NEW g \in s.teams, NEW x \in TeamStates(s),
           team' = [team EXCEPT ![g] = x], req' = [req EXCEPT ![g] = Topics(s)!Idle],
           statement' = statement, drop' = drop,
           x.problem \in 1..s.maxCode => Topics(s)!Counted(g) /\ x.problem = req[g].code
    PROVE  TopicInv(s)' /\ Topics(s)!ChoicesFit /\ Topics(s)!DeletesFree
<1>1. /\ req \in [s.teams -> Asking(s)] /\ team \in [s.teams -> TeamStates(s)]
      /\ drop \in Dropping(s)
  BY TopicTypes DEF TopicInv
<1>2. /\ req'[g] = Topics(s)!Idle /\ \A h \in s.teams : h # g => req'[h] = req[h]
      /\ team'[g] = x /\ \A h \in s.teams : h # g => team'[h] = team[h]
  BY <1>1
<1>3. Topics(s)!TypeOK'
  <2>1. Topics(s)!Idle \in Asking(s)
    BY DEF Asking
  <2> HIDE DEF Asking, TeamStates, Statements, Dropping
  <2>2. req' \in [s.teams -> Asking(s)] /\ team' \in [s.teams -> TeamStates(s)]
    BY <1>1, <2>1
  <2> QED
    BY <2>2, TopicTypes, TopicTypesNext DEF TopicInv
<1>4. \A h \in s.teams : /\ h # g => (Topics(s)!Counted(h)' <=> Topics(s)!Counted(h))
                         /\ h = g => ~Topics(s)!Counted(h)'
  BY <1>2 DEF Topics!Counted, Topics!Idle
<1>5. Topics(s)!DeletesFree
  BY DEF Topics!DeletesFree
<1>6. drop' # Topics(s)!Idle => \A h \in s.teams : req'[h] = Topics(s)!Idle
  BY <1>2 DEF TopicInv
<1>7. ASSUME drop # Topics(s)!Idle, ~drop.force PROVE Topics(s)!Holders(drop.code)' = {}
  <2>1. drop.code \in 1..s.maxCode
    BY <1>1, <1>7 DEF Dropping
  <2>2. ~Topics(s)!Counted(g)
    BY <1>7 DEF TopicInv, Topics!Counted, Topics!Idle
  <2>3. x.problem # drop.code
    BY <2>1, <2>2
  <2>4. Topics(s)!Holders(drop.code) = {}
    BY <1>7 DEF TopicInv
  <2> QED
    BY <1>2, <2>3, <2>4 DEF Topics!Holders
<1>8. \A h \in s.teams : req'[h] # Topics(s)!Idle => req'[h].max = statement'[req'[h].code].max
  BY <1>2 DEF TopicInv
<1>9. \A h, j \in s.teams :
          Topics(s)!Counted(h)' /\ Topics(s)!Counted(j)' /\ req'[h].code = req'[j].code => h = j
  BY <1>2, <1>4 DEF TopicInv
<1>10. ASSUME NEW h \in s.teams, Topics(s)!Counted(h)'
       PROVE  Topics(s)!Kept(h, req[h].code)' \/ Topics(s)!HasRoom(h, req[h].code, req[h].max)'
  <2> DEFINE c == req[h].code
             A == Topics(s)!Active(c)
  <2>1. h # g /\ req'[h] = req[h] /\ team'[h] = team[h] /\ Topics(s)!Counted(h)
    BY <1>2, <1>4, <1>10
  <2>2. c \in 1..s.maxCode
    BY <2>1, Requests
  <2>3. x.problem # c
    BY <2>1, <2>2 DEF TopicInv
  <2>4. Topics(s)!Kept(h, c) \/ Topics(s)!HasRoom(h, c, req[h].max)
    BY <2>1 DEF TopicInv
  <2>5. CASE Topics(s)!Kept(h, c)
    BY <2>1, <2>5 DEF Topics!Kept
  <2>6. CASE Topics(s)!HasRoom(h, c, req[h].max)
    <3> DEFINE S == A \ {h}
               B == {u \in s.teams : team'[u].problem = c /\ team'[u].status = "ACTIVE"}
               T == B \ {h}
    <3>1. T \subseteq S /\ S \subseteq s.teams
      BY <1>2, <2>3 DEF Topics!Active, Topics!Holders
    <3>2. req[h].max = 0 \/ Topics(s)!Cardinality(S) < req[h].max
      BY <2>6 DEF Topics!HasRoom
    <3>3. req[h].max \in Nat
      BY <1>1, <2>1, TopicBounds DEF Asking, Topics!Counted, Topics!Idle
    <3> HIDE DEF S, T, c
    <3>4. req[h].max = 0 \/ Topics(s)!Cardinality(T) < req[h].max
      BY <3>1, <3>2, <3>3, RoomKept
    <3> QED
      BY <2>1, <3>4 DEF Topics!HasRoom, Topics!Active, Topics!Holders, T, c
  <2> QED
    BY <2>4, <2>5, <2>6
<1>11. ASSUME NEW h \in s.teams, NEW c \in Topics(s)!Codes, Topics(s)!Counted(h),
              req'[h] = Topics(s)!Idle, team'[h].problem = c, team[h].problem # c, statement[c].max > 0
       PROVE  Topics(s)!Cardinality(Topics(s)!Active(c)') <= statement[c].max
  <2> DEFINE S == Topics(s)!Active(c) \ {g}
             T == {u \in s.teams : team'[u].problem = c /\ team'[u].status = "ACTIVE"}
  <2>1. h = g
    BY <1>2, <1>11 DEF Topics!Counted, Topics!Idle
  <2>2. c = req[g].code
    BY <1>2, <1>11, <2>1 DEF Topics!Codes
  <2>3. Topics(s)!HasRoom(g, c, req[g].max)
    BY <1>11, <2>1, <2>2 DEF TopicInv, Topics!Kept
  <2>4. req[g].max = statement[c].max
    BY <1>11, <2>1, <2>2 DEF TopicInv, Topics!Counted, Topics!Idle
  <2>5. statement[c].max \in Nat /\ Topics(s)!Cardinality(S) < statement[c].max
    BY <1>1, <1>11, <2>1, <2>3, <2>4, TopicBounds DEF Topics!HasRoom, Asking, Topics!Counted, Topics!Idle
  <2>6. S \in SUBSET s.teams /\ T \ {g} \subseteq S /\ T \subseteq S \cup {g} /\ g \notin S
    BY <1>2 DEF Topics!Active, Topics!Holders
  <2>7. T = Topics(s)!Active(c)'
    BY DEF Topics!Active, Topics!Holders
  <2> HIDE DEF S, T
  <2>8. IsFiniteSet(S)
    BY <2>6, TopicBounds, FS_Subset
  <2>9. IsFiniteSet(S \cup {g}) /\ Cardinality(S \cup {g}) = Cardinality(S) + 1
    BY <2>6, <2>8, FS_AddElement
  <2>10. Topics(s)!Cardinality(T) <= Topics(s)!Cardinality(S) + 1
         /\ Topics(s)!Cardinality(T) \in Nat /\ Topics(s)!Cardinality(S) \in Nat
    BY <2>6, <2>9, TopicCount, RoomKept
  <2> QED
    BY <2>5, <2>7, <2>10
<1>12. Topics(s)!ChoicesFit
  BY <1>11 DEF Topics!ChoicesFit
<1>13. Topics(s)!Idle' = Topics(s)!Idle
  BY DEF Topics!Idle
<1> QED
  BY <1>3, <1>5, <1>6, <1>7, <1>8, <1>9, <1>10, <1>12, <1>13 DEF TopicInv

LEMMA TopicStep ==
    ASSUME NEW s \in ProblemSizes, TopicInv(s), Topics(s)!Next
    PROVE  TopicInv(s)' /\ Topics(s)!ChoicesFit /\ Topics(s)!DeletesFree
<1> DEFINE Goal == TopicInv(s)' /\ Topics(s)!ChoicesFit /\ Topics(s)!DeletesFree
<1>1. /\ statement \in [1..s.maxCode -> Statements(s)]
      /\ \A c \in 1..s.maxCode : ~statement[c].here => statement[c] = Topics(s)!None
      /\ team \in [s.teams -> TeamStates(s)]
      /\ req \in [s.teams -> Asking(s)]
      /\ drop \in Dropping(s)
  BY TopicTypes DEF TopicInv
<1>2. s.maxCode \in Nat /\ 0 \in s.maxima /\ Topics(s)!Codes = 1..s.maxCode
  BY TopicBounds DEF Topics!Codes
<1>3. Topics(s)!Idle \in Asking(s) /\ Topics(s)!Idle \in Dropping(s)
  BY DEF Asking, Dropping
<1>4. ASSUME NEW g \in s.teams, NEW by \in {"TEAM", "ORGANIZER"}, NEW c \in 1..s.maxCode,
             Topics(s)!LoadStatement(g, by, c)
      PROVE  Goal
  <2> DEFINE r == Topics(s)!Pick("LOADED", by, c, statement[c])
  <2>1. statement[c].max \in s.maxima /\ statement[c].active \in BOOLEAN
    BY <1>1, <1>2 DEF Statements
  <2>2. r \in Asking(s) /\ r.op = "LOADED" /\ r.code = c /\ r.max = statement[c].max
    BY <2>1 DEF Asking, Topics!Pick
  <2>3. /\ req' = [req EXCEPT ![g] = r] /\ drop = Topics(s)!Idle
        /\ statement' = statement /\ team' = team /\ drop' = drop
    BY <1>4 DEF Topics!LoadStatement
  <2> HIDE DEF r, Asking
  <2> QED
    BY <2>2, <2>3, TopicAsked
<1>5. ASSUME NEW g \in s.teams, Topics(s)!CountTeams(g) PROVE Goal
  <2> DEFINE c == req[g].code
             r == [req[g] EXCEPT !.op = "COUNTED"]
  <2>1. /\ req[g].op = "LOADED" /\ Topics(s)!StatementFree(c)
        /\ Topics(s)!Kept(g, c) \/ Topics(s)!HasRoom(g, c, req[g].max)
        /\ statement' = statement /\ team' = team /\ drop' = drop
    BY <1>5 DEF Topics!CountTeams
  <2>2. req' = [req EXCEPT ![g] = r]
    BY <1>5, Zenon DEF Topics!CountTeams
  <2>3. /\ r \in Asking(s) /\ r.op = "COUNTED" /\ r.code = c /\ r.max = req[g].max
        /\ req[g] # Topics(s)!Idle
    BY <1>1, <2>1 DEF Asking, Topics!Idle
  <2>4. drop = Topics(s)!Idle
    BY <2>3 DEF TopicInv
  <2>5. r.max = statement[r.code].max
    BY <2>3 DEF TopicInv
  <2>6. \A h \in s.teams \ {g} : Topics(s)!Counted(h) => req[h].code # r.code
    BY <2>1, <2>3 DEF Topics!StatementFree, Topics!Counting, Topics!Counted
  <2>7. Topics(s)!Kept(g, r.code) \/ Topics(s)!HasRoom(g, r.code, r.max)
    BY <2>1, <2>3
  <2> HIDE DEF r, c, Asking
  <2> QED
    BY <2>1, <2>2, <2>3, <2>4, <2>5, <2>6, <2>7, TopicAsked
<1>6. ASSUME NEW g \in s.teams, Topics(s)!Fail(g) PROVE Goal
  <2>1. /\ req' = [req EXCEPT ![g] = Topics(s)!Idle]
        /\ statement' = statement /\ team' = team /\ drop' = drop
    BY <1>6 DEF Topics!Fail
  <2>2. Topics(s)!Idle.op # "COUNTED"
    BY DEF Topics!Idle
  <2> QED
    BY <1>3, <2>1, <2>2, TopicAsked
<1>7. ASSUME NEW g \in s.teams, Topics(s)!SaveTeam(g) PROVE Goal
  <2>1. PICK st \in {"ACTIVE", "UNPAID", "NONE", "GONE"} :
            team' = [team EXCEPT ![g].problem = req[g].code, ![g].status = st]
    <3>1. team[g].status \in {"ACTIVE", "UNPAID", "NONE", "GONE"}
      BY <1>1 DEF TeamStates
    <3> QED
      BY <1>7, <3>1 DEF Topics!SaveTeam
  <2> DEFINE x == Chosen(team[g], req[g].code, st)
  <2>2. team' = [team EXCEPT ![g] = x]
    BY <2>1, Zenon DEF Chosen
  <2>3. /\ Topics(s)!Counted(g) /\ req' = [req EXCEPT ![g] = Topics(s)!Idle]
        /\ statement' = statement /\ drop' = drop
    BY <1>7 DEF Topics!SaveTeam
  <2>4. req[g].code \in 1..s.maxCode
    BY <2>3, Requests
  <2>5. x \in TeamStates(s) /\ x.problem = req[g].code
    <3>1. req[g].code \in 0..s.maxCode + 1 /\ team[g] \in TeamStates(s)
      BY <1>1, <1>2, <2>4
    <3>2. st \in {"NONE", "UNPAID", "ACTIVE", "GONE"}
      BY <2>1
    <3> HIDE DEF TeamStates
    <3> QED
      BY <3>2, <3>1, ChoiceSaved
  <2> HIDE DEF x, TeamStates
  <2> QED
    BY <2>2, <2>3, <2>5, TopicSaved
<1>8. ASSUME NEW g \in s.teams, NEW by \in {"TEAM", "ORGANIZER"},
             NEW p \in {Topics(s)!Open, Topics(s)!NoPick}, Topics(s)!GoWithout(g, by, p)
      PROVE  Goal
  <2>1. PICK st \in {"ACTIVE", "UNPAID", "NONE", "GONE"} :
            team' = [team EXCEPT ![g].problem = p, ![g].status = st]
    <3> DEFINE st == IF team[g].status = "NONE" THEN "ACTIVE" ELSE team[g].status
    <3>1. st \in {"ACTIVE", "UNPAID", "NONE", "GONE"}
      BY <1>1 DEF TeamStates
    <3>2. team' = [team EXCEPT ![g].problem = p, ![g].status = st]
      BY <1>8, Zenon DEF Topics!GoWithout
    <3> HIDE DEF st
    <3> QED
      BY <3>1, <3>2
  <2> DEFINE x == Chosen(team[g], p, st)
  <2>2. team' = [team EXCEPT ![g] = x]
    BY <2>1, Zenon DEF Chosen
  <2>3. /\ req[g] = Topics(s)!Idle /\ req' = req
        /\ statement' = statement /\ drop' = drop
    BY <1>8 DEF Topics!GoWithout
  <2>4. x \in TeamStates(s) /\ x.problem \notin 1..s.maxCode
    <3>1. p \in 0..s.maxCode + 1 /\ p \notin 1..s.maxCode /\ team[g] \in TeamStates(s)
      BY <1>1, <1>2 DEF Topics!Open, Topics!NoPick
    <3>2. st \in {"NONE", "UNPAID", "ACTIVE", "GONE"}
      BY <2>1
    <3> HIDE DEF TeamStates
    <3>3. x \in TeamStates(s)
      BY <3>2, <3>1, ChoiceSaved
    <3>4. x.problem = p
      BY <3>1 DEF Chosen, TeamStates
    <3> QED
      BY <3>1, <3>3, <3>4
  <2>5. req' = [req EXCEPT ![g] = Topics(s)!Idle]
    BY <1>1, <2>3
  <2> HIDE DEF x, TeamStates
  <2> QED
    BY <2>2, <2>3, <2>4, <2>5, TopicSaved
<1>9. ASSUME Topics(s)!Quiet PROVE drop = Topics(s)!Idle /\ \A g \in s.teams : req[g] = Topics(s)!Idle
  BY <1>9 DEF Topics!Quiet
<1>10. ASSUME Topics(s)!Quiet, statement' \in [1..s.maxCode -> Statements(s)],
              \A c \in 1..s.maxCode : ~statement'[c].here => statement'[c] = Topics(s)!None,
              team' \in [s.teams -> TeamStates(s)], req' = req, drop' = drop
       PROVE  Goal
  <2>1. Topics(s)!TypeOK'
    BY <1>1, <1>10, TopicTypesNext
  <2> QED
    BY <1>9, <1>10, <2>1, TopicQuiet
<1>11. ASSUME NEW codes, NEW m \in s.maxima, Topics(s)!Add(codes, m) PROVE Goal
  <2>1. /\ Topics(s)!Quiet /\ team' = team /\ req' = req /\ drop' = drop
        /\ statement' = [c \in 1..s.maxCode |->
              IF c \in codes THEN [active |-> TRUE, max |-> m, here |-> TRUE] ELSE statement[c]]
    BY <1>2, <1>11 DEF Topics!Add
  <2>2. statement' \in [1..s.maxCode -> Statements(s)]
    BY <1>1, <2>1 DEF Statements
  <2>3. \A c \in 1..s.maxCode : ~statement'[c].here => statement'[c] = Topics(s)!None
    BY <1>1, <2>1
  <2> HIDE DEF Goal
  <2> QED
    BY <1>1, <1>10, <2>1, <2>2, <2>3
<1>12. ASSUME NEW c \in 1..s.maxCode, NEW b \in BOOLEAN, NEW m \in s.maxima,
              Topics(s)!EditStatement(c, b, m)
       PROVE  Goal
  <2> DEFINE x == [statement[c] EXCEPT !.active = b, !.max = m]
  <2>1. /\ Topics(s)!Quiet /\ team' = team /\ req' = req /\ drop' = drop /\ statement[c].here
    BY <1>12 DEF Topics!EditStatement, Topics!Here
  <2>2. statement' = [statement EXCEPT ![c] = x]
    <3>1. statement' = [statement EXCEPT ![c].active = b, ![c].max = m]
      BY <1>12 DEF Topics!EditStatement
    <3> QED
      BY <3>1, Zenon
  <2>3. x \in Statements(s) /\ x.here
    BY <1>1, <2>1 DEF Statements
  <2> HIDE DEF x
  <2>4. statement' \in [1..s.maxCode -> Statements(s)]
    <3> HIDE DEF Statements
    <3> QED
      BY <1>1, <2>2, <2>3
  <2>5. \A d \in 1..s.maxCode : ~statement'[d].here => statement'[d] = Topics(s)!None
    BY <1>1, <2>2, <2>3
  <2> HIDE DEF Goal
  <2> QED
    BY <1>1, <1>10, <2>1, <2>4, <2>5
<1>13. ASSUME NEW c \in 1..s.maxCode, NEW b \in BOOLEAN, Topics(s)!BeginDelete(c, b) PROVE Goal
  <2>1. /\ Topics(s)!Quiet /\ statement' = statement /\ team' = team /\ req' = req
        /\ drop' = [op |-> "DROP", code |-> c, force |-> b]
        /\ b \/ Topics(s)!Holders(c) = {}
    BY <1>13 DEF Topics!BeginDelete
  <2>2. drop' \in Dropping(s) /\ drop'.code = c /\ drop'.force = b
    BY <2>1 DEF Dropping
  <2>3. Topics(s)!TypeOK'
    BY <1>1, <2>1, <2>2, TopicTypesNext
  <2>4. ~drop'.force => Topics(s)!Holders(drop.code)' = {}
    BY <2>1, <2>2 DEF Topics!Holders
  <2> QED
    BY <1>9, <2>1, <2>3, <2>4, TopicQuiet
<1>14. ASSUME Topics(s)!CommitDelete PROVE Goal
  <2> DEFINE c == drop.code
  <2>1. /\ drop # Topics(s)!Idle /\ drop' = Topics(s)!Idle /\ req' = req
        /\ statement' = [statement EXCEPT ![c] = Topics(s)!None]
        /\ team' = [g \in s.teams |-> IF g \in Topics(s)!Holders(c)
                                      THEN [team[g] EXCEPT !.problem = Topics(s)!NoPick] ELSE team[g]]
    BY <1>14 DEF Topics!CommitDelete
  <2>2. Topics(s)!None \in Statements(s) /\ ~Topics(s)!None.here
    BY DEF Topics!None, Statements
  <2>3. /\ statement' \in [1..s.maxCode -> Statements(s)]
        /\ \A d \in 1..s.maxCode : ~statement'[d].here => statement'[d] = Topics(s)!None
    <3> HIDE DEF Statements
    <3> QED
      BY <1>1, <2>1, <2>2
  <2>4. team' \in [s.teams -> TeamStates(s)]
    <3>1. 0 \in 0..s.maxCode + 1
      BY <1>2
    <3> HIDE DEF TeamStates
    <3>2. \A g \in s.teams : [team[g] EXCEPT !.problem = Topics(s)!NoPick] \in TeamStates(s)
      BY <1>1, <3>1, StateChanged DEF Topics!NoPick
    <3> QED
      BY <1>1, <2>1, <3>2
  <2>5. Topics(s)!TypeOK'
    BY <1>1, <1>3, <2>1, <2>3, <2>4, TopicTypesNext
  <2>6. \A g \in s.teams : req[g] = Topics(s)!Idle
    BY <2>1 DEF TopicInv
  <2>7. ~drop.force => team' = team
    BY <1>1, <2>1 DEF TopicInv
  <2> QED
    BY <2>1, <2>5, <2>6, <2>7, TopicQuiet
<1>15. ASSUME NEW g \in s.teams, Topics(s)!ManageTeam(g) PROVE Goal
  <2>1. Topics(s)!Quiet /\ statement' = statement /\ req' = req /\ drop' = drop
    BY <1>15 DEF Topics!ManageTeam
  <2>2. PICK x \in TeamStates(s) : team' = [team EXCEPT ![g] = x]
    <3>1. PICK st \in {"ACTIVE", "GONE"}, b \in BOOLEAN :
              \/ team' = [team EXCEPT ![g].status = st]
              \/ team' = [team EXCEPT ![g].entered = b]
              \/ team' = [team EXCEPT ![g] = Topics(s)!NoTeam]
      BY <1>15, Zenon DEF Topics!ManageTeam
    <3>2. \/ team' = [team EXCEPT ![g] = [team[g] EXCEPT !.status = st]]
          \/ team' = [team EXCEPT ![g] = [team[g] EXCEPT !.entered = b]]
          \/ team' = [team EXCEPT ![g] = Topics(s)!NoTeam]
      BY <3>1, Zenon
    <3>3. /\ [team[g] EXCEPT !.status = st] \in TeamStates(s)
          /\ [team[g] EXCEPT !.entered = b] \in TeamStates(s)
          /\ Topics(s)!NoTeam \in TeamStates(s)
      <4>1. team[g] \in TeamStates(s) /\ 0 \in 0..s.maxCode + 1
        BY <1>1, <1>2
      <4> HIDE DEF TeamStates
      <4> QED
        BY <4>1, StateChanged
    <3> HIDE DEF TeamStates
    <3> QED
      BY <3>2, <3>3, Zenon
  <2>3. team' \in [s.teams -> TeamStates(s)]
    <3> HIDE DEF TeamStates
    <3> QED
      BY <1>1, <2>2
  <2> HIDE DEF Goal
  <2> QED
    BY <1>1, <1>10, <2>1, <2>3
<1> HIDE DEF Goal
<1>16. ASSUME NEW g \in s.teams, Topics(s)!Choose(g) PROVE Goal
  BY <1>2, <1>4, <1>5, <1>6, <1>7, <1>8, <1>16 DEF Topics!Choose
<1>17. ASSUME Topics(s)!Organize PROVE Goal
  <2>1. ASSUME NEW m \in s.maxima, Topics(s)!CreateStatement(m) PROVE Goal
    BY <1>11, <2>1 DEF Topics!CreateStatement
  <2>2. ASSUME NEW n, Topics(s)!ImportStatements(n) PROVE Goal
    BY <1>2, <1>11, <2>2 DEF Topics!ImportStatements
  <2> QED
    BY <1>2, <1>12, <1>13, <1>14, <1>17, <2>1, <2>2 DEF Topics!Organize
<1>18. Goal
  BY <1>15, <1>16, <1>17 DEF Topics!Next
<1> QED
  BY <1>18 DEF Goal

LEMMA TopicTypeOK == ASSUME NEW s, TopicInv(s) PROVE Topics(s)!TypeOK
BY DEF TopicInv

==============================================================================
