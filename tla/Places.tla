------------------------------- MODULE Places -------------------------------
(***************************************************************************)
(* What a team may count on when it asks for a place in a hackathon: every *)
(* place is given at one instant, against the limits of that instant, and  *)
(* whoever finds no room queues.  A promotion is one pass over the whole   *)
(* queue, oldest team first.  Module SeatAllocation, where a request reads *)
(* and then commits, a promotion is a loop and either may be cut short,    *)
(* implements it for requests that do not overlap.                         *)
(***************************************************************************)
EXTENDS Naturals, FiniteSets

CONSTANTS Teams, Settings, First, MaxPeople, MaxSize, SizeBound, Overrides

VARIABLES
    running,   \* the teams taking part, with a place or in the queue
    size,      \* how many people each of them has
    line,      \* <<t, u>>: both queue, and t queued no later than u
    settings   \* the number of places, 0 for no limit, and whether one may queue

vars == <<running, size, line, settings>>

Init ==
    /\ running = {}
    /\ size = [t \in Teams |-> 0]
    /\ line = {}
    /\ settings = First

-----------------------------------------------------------------------------
(* Room. *)

Waits(t) == <<t, t>> \in line
Placed   == {t \in running : ~Waits(t)}
Queue    == {t \in running : Waits(t)}

\* The people of some teams, numbered within each.
People(teams) == {m \in teams \X (1..SizeBound) : m[2] <= size[m[1]]}

TeamsFull(teams)      == settings.cap > 0 /\ Cardinality(teams) >= settings.cap
TooMany(teams, extra) == MaxPeople > 0 /\ Cardinality(People(teams)) + extra > MaxPeople
NoRoom                == TeamsFull(Placed) \/ TooMany(Placed, 1)

AtEnd(t)       == line \cup ({u \in Teams : Waits(u)} \cup {t}) \X {t}
Without(teams) == {p \in line : p[1] \notin teams /\ p[2] \notin teams}

-----------------------------------------------------------------------------
(* Teams come, grow and go. *)

\* A team of n people is placed, or queues when there is no room.
Enter(t, n) ==
    /\ t \notin running
    /\ NoRoom => settings.queueing
    /\ running' = running \cup {t}
    /\ size' = [size EXCEPT ![t] = n]
    /\ line' = IF NoRoom THEN AtEnd(t) ELSE line
    /\ UNCHANGED settings

\* An organizer's hand asks for no room; a team that queued before still does.
EnterByHand(t, n) ==
    /\ Overrides
    /\ t \notin running
    /\ running' = running \cup {t}
    /\ size' = [size EXCEPT ![t] = n]
    /\ UNCHANGED <<line, settings>>

\* An organizer's hand asks for no room here either.
Grow(t) ==
    /\ t \in running
    /\ size[t] < SizeBound
    /\ Overrides \/ (size[t] < MaxSize /\ (Waits(t) \/ ~TooMany(Placed, 1)))
    /\ size' = [size EXCEPT ![t] = @ + 1]
    /\ UNCHANGED <<running, line, settings>>

Shrink(t) ==
    /\ t \in running
    /\ size[t] > 0
    /\ size' = [size EXCEPT ![t] = @ - 1]
    /\ UNCHANGED <<running, line, settings>>

\* A team taken out of the running keeps its turn until its row is deleted.
Leave(t) ==
    /\ running' = running \ {t}
    /\ size' = [size EXCEPT ![t] = 0]
    /\ line' \in {line, Without({t})}
    /\ UNCHANGED settings

-----------------------------------------------------------------------------
(* Organizers and the queue. *)

\* The limit may not be set below the places already given.
Change(s) ==
    /\ s.cap \in {settings.cap, 0} \/ s.cap >= Cardinality(Placed)
    /\ settings' = s
    /\ UNCHANGED <<running, size, line>>

\* Room for a queued team once the chosen teams before it have theirs.
Fits(t, chosen) ==
    LET ahead == Placed \cup {u \in chosen \ {t} : <<u, t>> \in line} IN
    ~TeamsFull(ahead) /\ ~TooMany(ahead, size[t])

\* Exactly the teams that fit when their turn comes are placed, all at once.
Promote ==
    \E chosen \in SUBSET Queue :
        /\ \A t \in Queue : t \in chosen <=> Fits(t, chosen)
        /\ line' = Without(chosen)
        /\ UNCHANGED <<running, size, settings>>

Next ==
    \/ \E t \in Teams :
          \/ \E n \in 0..SizeBound : Enter(t, n) \/ EnterByHand(t, n)
          \/ Grow(t) \/ Shrink(t) \/ Leave(t)
    \/ \E s \in Settings : Change(s)
    \/ Promote

Spec == Init /\ [][Next]_vars
=============================================================================
