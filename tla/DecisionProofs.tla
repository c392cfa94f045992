--------------------------- MODULE DecisionProofs ----------------------------
(***************************************************************************)
(* What the parts of a hackathon that decide about ideas and projects keep *)
(* true: Shortlists, Ideas and Judging, each for any size of it.  The      *)
(* theorems drawn from these lemmas are in HackathonProofs.                *)
(***************************************************************************)
EXTENDS Hackathon, FiniteSetTheorems, TLAPS

-----------------------------------------------------------------------------
(* Shortlists. *)

\* The rounds there are, and that are numbered from 1 without a gap.
OrdersOK(s) ==
    LET n == Cardinality(Lists(s)!Existing)
    IN  /\ order \in [s.rounds -> Nat]
        /\ \A r \in Lists(s)!Existing : order[r] <= n
        /\ \A q, r \in Lists(s)!Existing : order[q] = order[r] => q = r

\* A team that is still to get its card is shortlisted in a published round, or
\* its entry was deleted after the decision.
AwardsAreDue(s) ==
    \A k \in Lists(s)!Keys \cap Lists(s)!Awarded :
        IF entry[k] = "NONE" THEN k \in dropped
        ELSE published[k[1]] /\ entry[k] = "SHORTLISTED"

ListTypes(s) ==
    /\ published \in [s.rounds -> BOOLEAN]
    /\ entry \in [Lists(s)!Keys -> {"NONE", "PENDING", "SHORTLISTED", "REJECTED"}]
    /\ team \in [s.teams -> {"REGISTERED", "WAITING", "OUT", "DELETED"}]
    /\ card \in [Lists(s)!Keys -> {"NONE", "UNSEEN", "SEEN"}]
    /\ due = Lists(s)!NoAward \/ (due.round \in s.rounds /\ due.teams \subseteq s.teams)
    /\ dropped \subseteq Lists(s)!Keys

ListInv(s) ==
    /\ ListTypes(s)
    /\ OrdersOK(s)
    /\ AwardsAreDue(s)
    /\ Lists(s)!CardsAreTrue

\* A part counts with its own copy of the library's operator.
LEMMA ListCount == ASSUME NEW s, NEW S PROVE Lists(s)!Cardinality(S) = Cardinality(S)
BY DEF Lists!Cardinality, Cardinality, Lists!IsFiniteSet, IsFiniteSet

\* The rounds' numbers are all of those up to how many rounds there are.
LEMMA OrdersFill ==
    ASSUME NEW s \in ShortlistSizes, OrdersOK(s)
    PROVE  LET n == Cardinality(Lists(s)!Existing)
           IN  /\ n \in Nat /\ n <= Cardinality(s.rounds)
               /\ Cardinality(s.rounds) \in Nat
               /\ IsFiniteSet(Lists(s)!Existing)
               /\ \A i \in 1..n : \E r \in Lists(s)!Existing : order[r] = i
<1> DEFINE E == Lists(s)!Existing
           n == Cardinality(E)
<1>1. E \subseteq s.rounds /\ IsFiniteSet(s.rounds)
  BY HackathonAssumption DEF Lists!Existing
<1>2. IsFiniteSet(E) /\ n \in Nat /\ n <= Cardinality(s.rounds) /\ Cardinality(s.rounds) \in Nat
  BY <1>1, FS_Subset, FS_CardinalityType
<1>3. \A i \in 1..n : \E r \in E : order[r] = i
  <2> DEFINE f == [r \in E |-> order[r]]
  <2>1. \A r \in E : order[r] \in 1..n
    BY <1>1, <1>2 DEF OrdersOK, Lists!Existing, Lists!Exists
  <2>2. f \in Injection(E, 1..n)
    BY <2>1 DEF OrdersOK, Injection, IsInjective
  <2>3. IsFiniteSet(1..n) /\ Cardinality(1..n) = n
    BY <1>2, FS_Interval
  <2>4. f \in Surjection(E, 1..n)
    BY <2>2, <2>3, FS_Injection
  <2> QED
    BY <2>4 DEF Surjection
<1> QED
  BY <1>2, <1>3

\* A new round comes after all others.
LEMMA OrderAfterAll ==
    ASSUME NEW s \in ShortlistSizes, OrdersOK(s), s.rounds # {}
    PROVE  Lists(s)!Max({order[q] : q \in s.rounds}) = Cardinality(Lists(s)!Existing)
<1> DEFINE S == {order[q] : q \in s.rounds}
           n == Cardinality(Lists(s)!Existing)
<1>1. n \in Nat /\ IsFiniteSet(Lists(s)!Existing)
      /\ \A i \in 1..n : \E r \in Lists(s)!Existing : order[r] = i
  BY OrdersFill
<1>2. n \in S
  <2>1. CASE n = 0
    <3>1. Lists(s)!Existing = {}
      BY <1>1, <2>1, FS_EmptySet
    <3> QED
      BY <2>1, <3>1 DEF Lists!Existing, Lists!Exists
  <2>2. CASE n # 0
    BY <1>1, <2>2 DEF Lists!Existing
  <2> QED
    BY <2>1, <2>2
<1>3. S \subseteq Nat /\ \A x \in S : x <= n
  <2>1. ASSUME NEW q \in s.rounds PROVE order[q] \in Nat /\ order[q] <= n
    BY <1>1, <2>1 DEF OrdersOK, Lists!Existing, Lists!Exists
  <2> QED
    BY <2>1
<1> HIDE DEF S, n
<1>4. \A x \in S : (\A y \in S : x >= y) => x = n
  BY <1>1, <1>2, <1>3
<1>5. \E x \in S : \A y \in S : x >= y
  BY <1>1, <1>2, <1>3
<1>6. Lists(s)!Max(S) = n
  BY <1>4, <1>5 DEF Lists!Max
<1> QED
  BY <1>6 DEF S, n

LEMMA OrderAdded ==
    ASSUME NEW s \in ShortlistSizes, OrdersOK(s), NEW r \in s.rounds, ~Lists(s)!Exists(r),
           order' = [order EXCEPT ![r] = Cardinality(Lists(s)!Existing) + 1]
    PROVE  OrdersOK(s)'
<1> DEFINE E == Lists(s)!Existing
           n == Cardinality(E)
<1>1. n \in Nat /\ IsFiniteSet(E)
  BY OrdersFill
<1>2. E' = E \cup {r} /\ r \notin E
  BY <1>1 DEF Lists!Existing, Lists!Exists, OrdersOK
<1>3. Cardinality(E') = n + 1
  BY <1>1, <1>2, FS_AddElement
<1>4. order' \in [s.rounds -> Nat]
  BY <1>1 DEF OrdersOK
<1>5. \A q \in E : order'[q] = order[q] /\ order[q] <= n
  BY <1>2 DEF OrdersOK, Lists!Existing
<1>6. order'[r] = n + 1
  BY DEF OrdersOK
<1>7. \A q \in E : q \in s.rounds /\ order[q] \in Nat
  BY DEF OrdersOK, Lists!Existing
<1> HIDE DEF E, n
<1>8. \A q \in E' : order'[q] <= n + 1
  BY <1>1, <1>2, <1>5, <1>6, <1>7
<1>9. \A q, t \in E' : order'[q] = order'[t] => q = t
  BY <1>1, <1>2, <1>5, <1>6, <1>7 DEF OrdersOK, E
<1> QED
  BY <1>3, <1>4, <1>8, <1>9 DEF OrdersOK, E, n

LEMMA OrderRemoved ==
    ASSUME NEW s \in ShortlistSizes, OrdersOK(s), NEW r \in s.rounds, Lists(s)!Exists(r),
           Lists(s)!Later(r) = {}, order' = [order EXCEPT ![r] = 0]
    PROVE  OrdersOK(s)'
<1> DEFINE E == Lists(s)!Existing
           n == Cardinality(E)
<1>1. n \in Nat /\ IsFiniteSet(E) /\ \A i \in 1..n : \E q \in E : order[q] = i
  BY OrdersFill
<1>2. E' = E \ {r} /\ r \in E
  BY DEF Lists!Existing, Lists!Exists, OrdersOK
<1>3. Cardinality(E') = n - 1 /\ n - 1 \in Nat
  <2>1. IsFiniteSet(E \ {r}) /\ Cardinality(E \ {r}) = n - 1
    BY <1>1, <1>2, FS_RemoveElement
  <2>2. n - 1 \in Nat
    BY <2>1, FS_CardinalityType
  <2> QED
    BY <1>2, <2>1, <2>2
<1>4. order' \in [s.rounds -> Nat]
  BY DEF OrdersOK
<1>5. \A q \in E : q \in s.rounds /\ order[q] \in Nat /\ order[q] <= n
  BY DEF OrdersOK, Lists!Existing
<1>6. \A q \in E : order[q] <= order[r]
  BY <1>5, <1>2 DEF Lists!Later
<1>7. order[r] = n
  BY <1>1, <1>2, <1>3, <1>5, <1>6
<1>8. \A q \in E' : order'[q] = order[q] /\ q \in E /\ q # r
  BY <1>2, <1>5 DEF OrdersOK
<1>9. \A q, t \in E : order[q] = order[t] => q = t
  BY DEF OrdersOK
<1> HIDE DEF E, n
<1>10. \A q \in E' : order'[q] <= n - 1
  BY <1>1, <1>2, <1>5, <1>7, <1>8, <1>9
<1>11. \A q, t \in E' : order'[q] = order'[t] => q = t
  BY <1>8, <1>9
<1> QED
  BY <1>3, <1>4, <1>10, <1>11 DEF OrdersOK, E, n

LEMMA OrderPermuted ==
    ASSUME NEW s \in ShortlistSizes, OrdersOK(s), NEW p \in Lists(s)!Permuted,
           order' = [r \in s.rounds |-> IF Lists(s)!Exists(r) THEN p[r] ELSE 0]
    PROVE  OrdersOK(s)'
<1> DEFINE E == Lists(s)!Existing
           n == Cardinality(E)
<1>1. n \in Nat
  BY OrdersFill
<1>2. /\ \A q \in E : p[q] \in 1..n
      /\ \A q, r \in E : p[q] = p[r] => q = r
  <2>1. p \in [E -> 1..n]
    BY ListCount DEF Lists!Permuted
  <2>2. \A q, r \in E : p[q] = p[r] => q = r
    BY DEF Lists!Permuted
  <2> QED
    BY <2>1, <2>2
<1>3. \A q \in E : order'[q] = p[q] /\ q \in s.rounds
  BY DEF Lists!Existing
<1>4. order' \in [s.rounds -> Nat]
  BY <1>1, <1>2 DEF Lists!Existing
<1>5. E' = E
  BY <1>1, <1>2 DEF Lists!Existing, Lists!Exists
<1> HIDE DEF E, n
<1>6. \A q \in E' : order'[q] <= n
  BY <1>1, <1>2, <1>3, <1>5
<1>7. \A q, r \in E' : order'[q] = order'[r] => q = r
  BY <1>2, <1>3, <1>5
<1> QED
  BY <1>4, <1>5, <1>6, <1>7 DEF OrdersOK, E, n

LEMMA OrderKept ==
    ASSUME NEW s, OrdersOK(s), order' = order
    PROVE  OrdersOK(s)'
BY DEF OrdersOK, Lists!Existing, Lists!Exists

LEMMA ListInit == ASSUME NEW s \in ShortlistSizes, Lists(s)!Init PROVE ListInv(s)
<1>1. Lists(s)!Existing = {}
  BY DEF Lists!Init, Lists!Existing, Lists!Exists, Lists!rows
<1>2. Lists(s)!Awarded = {}
  BY DEF Lists!Init, Lists!Awarded, Lists!NoAward
<1> QED
  BY <1>1, <1>2
  DEF ListInv, ListTypes, OrdersOK, AwardsAreDue, Lists!CardsAreTrue, Lists!Init, Lists!Keys

CardInv(s) == ListTypes(s) /\ AwardsAreDue(s) /\ Lists(s)!CardsAreTrue

\* Steps that change entries for the better, or not at all, and leave the cards.
LEMMA EntriesAdded ==
    ASSUME NEW s, CardInv(s), NEW r, NEW ts, entry' = Lists(s)!Add(r, ts),
           due' = due, due = Lists(s)!NoAward, published' = published, team' = team,
           (card' = card /\ dropped' = dropped) \/ Lists(s)!Forget(r)
    PROVE  CardInv(s)'
BY DEF CardInv, ListTypes, AwardsAreDue, Lists!CardsAreTrue, Lists!Add, Lists!Forget, Lists!Keys,
       Lists!Awarded, Lists!NoAward

\* Entries are deleted, perhaps with the round's results.
LEMMA EntriesDropped ==
    ASSUME NEW s, CardInv(s), NEW ks, Lists(s)!Drop(ks), due' = due, card' = card,
           team' \in [s.teams -> {"REGISTERED", "WAITING", "OUT", "DELETED"}],
           published' \in [s.rounds -> BOOLEAN],
           ks \subseteq Lists(s)!Keys,
           \A r \in s.rounds, t \in s.teams :
               \/ published'[r] = published[r]
               \/ due = Lists(s)!NoAward /\ (entry[<<r, t>>] # "NONE" => <<r, t>> \in ks)
    PROVE  CardInv(s)'
<1>1. Lists(s)!Awarded' = Lists(s)!Awarded
  BY DEF Lists!Awarded
<1>2. ListTypes(s)'
  BY DEF CardInv, ListTypes, Lists!Drop, Lists!NoAward
<1>3. \A k \in Lists(s)!Keys : /\ k \in dropped => k \in dropped'
                               /\ k \in ks => entry'[k] = "NONE"
                               /\ k \notin ks => entry'[k] = entry[k]
                               /\ k \in ks /\ card[k] = "UNSEEN" => k \in dropped'
                               /\ k \in ks /\ k \in Lists(s)!Awarded => k \in dropped'
  BY DEF Lists!Drop
<1>4. \A k \in Lists(s)!Keys : /\ k = <<k[1], k[2]>> /\ k[1] \in s.rounds /\ k[2] \in s.teams
  BY DEF Lists!Keys
<1>5. AwardsAreDue(s)'
  <2> SUFFICES ASSUME NEW k \in Lists(s)!Keys \cap Lists(s)!Awarded
               PROVE  IF entry'[k] = "NONE" THEN k \in dropped'
                      ELSE published'[k[1]] /\ entry'[k] = "SHORTLISTED"
    BY <1>1 DEF AwardsAreDue, Lists!Keys
  <2>1. due # Lists(s)!NoAward
    BY DEF Lists!Awarded, Lists!NoAward
  <2> QED
    BY <1>3, <1>4, <2>1 DEF CardInv, AwardsAreDue
<1>6. Lists(s)!CardsAreTrue'
  <2> SUFFICES ASSUME NEW k \in Lists(s)!Keys, card[k] = "UNSEEN"
               PROVE  k \in dropped' \/ (published'[k[1]] /\ entry'[k] = "SHORTLISTED")
    BY DEF Lists!CardsAreTrue, Lists!Keys
  <2> QED
    BY <1>3, <1>4 DEF CardInv, Lists!CardsAreTrue
<1> QED
  BY <1>2, <1>5, <1>6 DEF CardInv

LEMMA CardsFollow ==
    ASSUME NEW s, \A k \in Lists(s)!Keys : card'[k] = "UNSEEN" /\ k \notin dropped' =>
                      published'[k[1]] /\ entry'[k] = "SHORTLISTED"
    PROVE  Lists(s)!CardsAreTrue'
BY DEF Lists!CardsAreTrue, Lists!Keys

\* The teams in both lists are none, and the results are those of a round that
\* is being decided by the only request.
LEMMA CardsDecided ==
    ASSUME NEW s, CardInv(s), NEW r \in s.rounds, NEW yes \in SUBSET s.teams,
           NEW no \in SUBSET s.teams, NEW open \in SUBSET s.teams, yes \cap no = {},
           due = Lists(s)!NoAward, Lists(s)!Decided(r, yes, no, open)
    PROVE  CardInv(s)'
<1> USE DEF CardInv, ListTypes, AwardsAreDue, Lists!CardsAreTrue, Lists!Decided, Lists!Awarded,
            Lists!NoAward, Lists!Keys
<1>1. entry' \in [Lists(s)!Keys -> {"NONE", "PENDING", "SHORTLISTED", "REJECTED"}]
  OBVIOUS
<1>2. CASE published[r]
  <2>1. /\ due' = [round |-> r, teams |-> Lists(s)!Changed(r, yes, "SHORTLISTED")]
        /\ card' = Lists(s)!Retract({r} \X (Lists(s)!Changed(r, no, "REJECTED")
                                            \cup Lists(s)!Changed(r, open, "PENDING")))
        /\ published' = published /\ dropped' = dropped /\ team' = team
    BY <1>2
  <2>2. ListTypes(s)'
    BY <1>1, <2>1 DEF Lists!Retract, Lists!Changed, Lists!Entered
  <2>3. AwardsAreDue(s)'
    <3> SUFFICES ASSUME NEW k \in Lists(s)!Keys, k \in Lists(s)!Awarded'
                 PROVE  published'[k[1]] /\ entry'[k] = "SHORTLISTED"
      OBVIOUS
    <3>1. k \in {r} \X Lists(s)!Changed(r, yes, "SHORTLISTED")
      BY <2>1
    <3>2. PICK t \in Lists(s)!Changed(r, yes, "SHORTLISTED") : k = <<r, t>>
      BY <3>1
    <3>3. k \in {r} \X yes /\ k \notin {r} \X no /\ entry[k] # "NONE" /\ k[1] = r
      BY <3>2 DEF Lists!Changed, Lists!Entered
    <3>4. entry'[k] = "SHORTLISTED"
      BY <3>3
    <3> QED
      BY <1>2, <2>1, <3>3, <3>4
  <2>4. ASSUME NEW k \in Lists(s)!Keys, card'[k] = "UNSEEN", k \notin dropped'
        PROVE  published'[k[1]] /\ entry'[k] = "SHORTLISTED"
    <3> DEFINE off == Lists(s)!Changed(r, no, "REJECTED") \cup Lists(s)!Changed(r, open, "PENDING")
    <3>1. card[k] = "UNSEEN" /\ k \notin {r} \X off /\ k \notin dropped
      BY <2>1, <2>4 DEF Lists!Retract
    <3>2. published[k[1]] /\ entry[k] = "SHORTLISTED"
      BY <2>4, <3>1
    <3>3. k = <<k[1], k[2]>> /\ k[1] \in s.rounds /\ k[2] \in s.teams
      BY <2>4
    <3>4. k \notin {r} \X no /\ k \notin {r} \X open
      <4> SUFFICES ASSUME k[1] = r, k[2] \in no \/ k[2] \in open PROVE FALSE
        BY <3>3
      <4>1. k[2] \in off
        BY <3>2, <3>3 DEF Lists!Changed, Lists!Entered
      <4> HIDE DEF off
      <4> QED
        BY <3>1, <3>3, <4>1
    <3> QED
      BY <2>1, <2>4, <3>2, <3>4
  <2> HIDE DEF CardInv, ListTypes, AwardsAreDue, Lists!CardsAreTrue, Lists!Decided, Lists!Awarded,
               Lists!NoAward, Lists!Keys
  <2>5. Lists(s)!CardsAreTrue'
    BY <2>4, CardsFollow
  <2> QED
    BY <2>2, <2>3, <2>5 DEF CardInv
<1>3. CASE ~published[r]
  <2>1. due' = due /\ card' = card /\ published' = published /\ dropped' = dropped /\ team' = team
    BY <1>3
  <2>2. ListTypes(s)'
    BY <1>1, <2>1
  <2>3. AwardsAreDue(s)'
    BY <2>1
  <2>4. ASSUME NEW k \in Lists(s)!Keys, card'[k] = "UNSEEN", k \notin dropped'
        PROVE  published'[k[1]] /\ entry'[k] = "SHORTLISTED"
    <3>1. published[k[1]] /\ entry[k] = "SHORTLISTED"
      BY <2>1, <2>4
    <3>2. k[1] # r
      BY <1>3, <3>1
    <3> QED
      BY <2>1, <3>1, <3>2
  <2> HIDE DEF CardInv, ListTypes, AwardsAreDue, Lists!CardsAreTrue, Lists!Decided, Lists!Awarded,
               Lists!NoAward, Lists!Keys
  <2>5. Lists(s)!CardsAreTrue'
    BY <2>4, CardsFollow
  <2> QED
    BY <2>2, <2>3, <2>5 DEF CardInv
<1> QED
  BY <1>2, <1>3

LEMMA CardsAwarded ==
    ASSUME NEW s, CardInv(s), Lists(s)!RunAward
    PROVE  CardInv(s)'
<1> USE DEF CardInv, ListTypes, AwardsAreDue, Lists!CardsAreTrue, Lists!RunAward, Lists!NoAward,
            Lists!rows
<1>1. Lists(s)!Awarded' = {}
  BY DEF Lists!Awarded
<1>2. ListTypes(s)'
  BY DEF Lists!Keys
<1>3. Lists(s)!CardsAreTrue'
  BY DEF Lists!Keys
<1> QED
  BY <1>1, <1>2, <1>3

\* Cards are seen, swept, lost or retracted.
LEMMA CardsFewer ==
    ASSUME NEW s, CardInv(s), published' = published, entry' = entry, dropped' = dropped,
           due' = due \/ due' = Lists(s)!NoAward,
           team' \in [s.teams -> {"REGISTERED", "WAITING", "OUT", "DELETED"}],
           card' \in [Lists(s)!Keys -> {"NONE", "UNSEEN", "SEEN"}],
           \A k \in Lists(s)!Keys : card'[k] = "UNSEEN" => card[k] = "UNSEEN"
    PROVE  CardInv(s)'
BY DEF CardInv, ListTypes, AwardsAreDue, Lists!CardsAreTrue, Lists!Keys, Lists!NoAward, Lists!Awarded

LEMMA ListStep ==
    ASSUME NEW s \in ShortlistSizes, ListInv(s), Lists(s)!Next
    PROVE  ListInv(s)'
<1> DEFINE Goal == CardInv(s)' /\ OrdersOK(s)'
<1>1. CardInv(s) /\ OrdersOK(s)
  BY DEF ListInv, CardInv
<1>2. ASSUME NEW r \in s.rounds, NEW b \in BOOLEAN, due = Lists(s)!NoAward, Lists(s)!CreateRound(r, b)
      PROVE  Goal
  <2>1. PICK ts : entry' = Lists(s)!Add(r, ts)
    <3>1. CASE b
      BY <1>2, <3>1 DEF Lists!CreateRound
    <3>2. CASE ~b
      <4>1. entry' = Lists(s)!Add(r, {})
        BY <1>1, <1>2, <3>2 DEF Lists!CreateRound, Lists!Add, CardInv, ListTypes, Lists!Keys
      <4> QED
        BY <4>1
    <3> QED
      BY <3>1, <3>2
  <2>2. due' = due /\ published' = published /\ team' = team /\ Lists(s)!Forget(r)
    BY <1>2 DEF Lists!CreateRound
  <2>3. OrdersOK(s)'
    BY <1>1, <1>2, OrderAfterAll, OrderAdded DEF Lists!CreateRound
  <2>4. CardInv(s)'
    BY <1>1, <1>2, <2>1, <2>2, EntriesAdded
  <2> QED
    BY <2>3, <2>4
<1>3. ASSUME NEW r \in s.rounds, due = Lists(s)!NoAward, Lists(s)!Populate(r) PROVE Goal
  BY <1>1, <1>3, EntriesAdded, OrderKept DEF Lists!Populate
<1>4. ASSUME NEW r \in s.rounds, due = Lists(s)!NoAward, Lists(s)!DeleteRound(r) PROVE Goal
  <2>1. OrdersOK(s)'
    BY <1>1, <1>4, OrderRemoved DEF Lists!DeleteRound
  <2>2. CardInv(s)'
    <3> DEFINE ks == {r} \X Lists(s)!Entered(r)
    <3>1. ks \subseteq Lists(s)!Keys
      BY DEF Lists!Keys, Lists!Entered
    <3>2. \A q \in s.rounds, t \in s.teams :
              \/ published'[q] = published[q]
              \/ due = Lists(s)!NoAward /\ (entry[<<q, t>>] # "NONE" => <<q, t>> \in ks)
      BY <1>1, <1>4 DEF Lists!DeleteRound, Lists!Entered, CardInv, ListTypes
    <3>3. /\ published' \in [s.rounds -> BOOLEAN] /\ card' = card /\ due' = due
          /\ team' \in [s.teams -> {"REGISTERED", "WAITING", "OUT", "DELETED"}]
      BY <1>1, <1>4 DEF Lists!DeleteRound, CardInv, ListTypes
    <3>4. Lists(s)!Drop(ks)
      BY <1>4 DEF Lists!DeleteRound
    <3> HIDE DEF ks
    <3> QED
      BY <1>1, <3>1, <3>2, <3>3, <3>4, EntriesDropped
  <2> QED
    BY <2>1, <2>2
<1>5. ASSUME NEW p \in Lists(s)!Permuted, Lists(s)!Reorder(p) PROVE Goal
  <2>1. OrdersOK(s)'
    BY <1>1, <1>5, OrderPermuted DEF Lists!Reorder
  <2> QED
    BY <1>1, <1>5, <2>1, CardsFewer DEF Lists!Reorder, CardInv, ListTypes
<1>6. ASSUME NEW r \in s.rounds, NEW q \in s.rounds, due = Lists(s)!NoAward, Lists(s)!Advance(r, q)
      PROVE  Goal
  <2>1. CardInv(s)'
    BY <1>1, <1>6, EntriesAdded DEF Lists!Advance
  <2>2. CASE Lists(s)!Later(r) # {}
    BY <1>1, <1>6, <2>1, <2>2, OrderKept DEF Lists!Advance
  <2>3. CASE Lists(s)!Later(r) = {}
    <3>1. order[r] = Cardinality(Lists(s)!Existing)
      <4> DEFINE n == Cardinality(Lists(s)!Existing)
      <4>1. n \in Nat /\ \A i \in 1..n : \E t \in Lists(s)!Existing : order[t] = i
        BY <1>1, OrdersFill
      <4>2. \A t \in Lists(s)!Existing : order[t] \in 1..n /\ order[t] <= order[r]
        BY <1>1, <2>3, <4>1 DEF OrdersOK, Lists!Later, Lists!Existing, Lists!Exists
      <4>3. r \in Lists(s)!Existing
        BY <1>6 DEF Lists!Advance, Lists!Existing
      <4> HIDE DEF n
      <4>4. order[r] \in 1..n /\ n \in 1..n
        BY <4>1, <4>2, <4>3
      <4>5. PICK t \in Lists(s)!Existing : order[t] = n
        BY <4>1, <4>4
      <4> QED
        BY <4>1, <4>2, <4>4, <4>5 DEF n
    <3>2. OrdersOK(s)'
      BY <1>1, <1>6, <2>3, <3>1, OrderAdded DEF Lists!Advance
    <3> QED
      BY <2>1, <3>2
  <2> QED
    BY <2>2, <2>3
<1>7. ASSUME NEW r \in s.rounds, NEW t \in s.teams, due = Lists(s)!NoAward, Lists(s)!AddTeam(r, t)
      PROVE  Goal
  BY <1>1, <1>7, EntriesAdded, OrderKept DEF Lists!AddTeam
<1>8. ASSUME NEW r \in s.rounds, NEW t \in s.teams, Lists(s)!RemoveTeam(r, t) PROVE Goal
  <2> DEFINE ks == {<<r, t>>}
  <2>1. ks \subseteq Lists(s)!Keys /\ Lists(s)!Drop(ks)
    <3>1. ks \subseteq Lists(s)!Keys
      BY DEF Lists!Keys
    <3>2. Lists(s)!Drop(ks)
      BY <1>8 DEF Lists!RemoveTeam
    <3> QED
      BY <3>1, <3>2
  <2>2. order' = order /\ published' = published /\ team' = team /\ card' = card /\ due' = due
    BY <1>8 DEF Lists!RemoveTeam
  <2>3. /\ team' \in [s.teams -> {"REGISTERED", "WAITING", "OUT", "DELETED"}]
        /\ published' \in [s.rounds -> BOOLEAN]
    BY <1>1, <2>2 DEF CardInv, ListTypes
  <2>4. \A q \in s.rounds, u \in s.teams :
            \/ published'[q] = published[q]
            \/ due = Lists(s)!NoAward /\ (entry[<<q, u>>] # "NONE" => <<q, u>> \in ks)
    BY <2>2
  <2> HIDE DEF ks
  <2>5. CardInv(s)'
    BY <1>1, <2>1, <2>2, <2>3, <2>4, EntriesDropped
  <2> QED
    BY <1>1, <2>2, <2>5, OrderKept
<1>9. ASSUME NEW r \in s.rounds, due = Lists(s)!NoAward, Lists(s)!Publish(r) PROVE Goal
  <2>1. /\ published' = [published EXCEPT ![r] = TRUE]
        /\ due' = [round |-> r, teams |-> Lists(s)!With(r, "SHORTLISTED")]
        /\ order' = order /\ entry' = entry /\ team' = team /\ card' = card /\ dropped' = dropped
    BY <1>9 DEF Lists!Publish
  <2>2. ListTypes(s)'
    BY <1>1, <2>1 DEF CardInv, ListTypes, Lists!With
  <2>3. \A q \in s.rounds : published[q] => published'[q]
    BY <1>1, <2>1 DEF CardInv, ListTypes
  <2>4. AwardsAreDue(s)'
    <3> SUFFICES ASSUME NEW k \in Lists(s)!Keys, k \in Lists(s)!Awarded'
                 PROVE  published'[k[1]] /\ entry[k] = "SHORTLISTED"
      BY <2>1 DEF AwardsAreDue, Lists!Keys
    <3>1. k \in {r} \X Lists(s)!With(r, "SHORTLISTED")
      BY <2>1 DEF Lists!Awarded
    <3>2. PICK t \in Lists(s)!With(r, "SHORTLISTED") : k = <<r, t>>
      BY <3>1
    <3>3. entry[<<r, t>>] = "SHORTLISTED"
      BY <3>2 DEF Lists!With
    <3>4. published'[r]
      BY <1>1, <2>1 DEF CardInv, ListTypes
    <3> QED
      BY <3>2, <3>3, <3>4
  <2>5. Lists(s)!CardsAreTrue'
    BY <1>1, <2>1, <2>3 DEF CardInv, Lists!CardsAreTrue, Lists!Keys
  <2> QED
    BY <1>1, <2>1, <2>2, <2>4, <2>5, OrderKept DEF CardInv
<1>10. ASSUME NEW r \in s.rounds, due = Lists(s)!NoAward, Lists(s)!Unpublish(r) PROVE Goal
  <2>1. /\ published' = [published EXCEPT ![r] = FALSE]
        /\ card' = Lists(s)!Retract({r} \X Lists(s)!Entered(r))
        /\ order' = order /\ entry' = entry /\ team' = team /\ due' = due /\ dropped' = dropped
    BY <1>10 DEF Lists!Unpublish
  <2>2. ListTypes(s)'
    BY <1>1, <2>1 DEF CardInv, ListTypes, Lists!Retract, Lists!NoAward
  <2>3. AwardsAreDue(s)'
    BY <1>10, <2>1 DEF AwardsAreDue, Lists!Awarded, Lists!NoAward
  <2>4. Lists(s)!CardsAreTrue'
    <3> SUFFICES ASSUME NEW k \in Lists(s)!Keys, card'[k] = "UNSEEN", k \notin dropped
                 PROVE  published'[k[1]] /\ entry[k] = "SHORTLISTED"
      BY <2>1 DEF Lists!CardsAreTrue, Lists!Keys
    <3>1. k = <<k[1], k[2]>> /\ k[1] \in s.rounds /\ k[2] \in s.teams
      BY DEF Lists!Keys
    <3>2. card[k] = "UNSEEN" /\ k \notin {r} \X Lists(s)!Entered(r)
      BY <2>1 DEF Lists!Retract
    <3>3. published[k[1]] /\ entry[k] = "SHORTLISTED"
      BY <1>1, <3>2 DEF CardInv, Lists!CardsAreTrue
    <3>4. k[1] # r
      BY <3>1, <3>2, <3>3 DEF Lists!Entered
    <3> QED
      BY <1>1, <2>1, <3>1, <3>3, <3>4 DEF CardInv, ListTypes
  <2> QED
    BY <1>1, <2>1, <2>2, <2>3, <2>4, OrderKept DEF CardInv
<1>11. ASSUME NEW r \in s.rounds, NEW over \in BOOLEAN, NEW visible \in BOOLEAN,
              NEW ts \in SUBSET s.teams, NEW st \in {"PENDING", "SHORTLISTED", "REJECTED"},
              due = Lists(s)!NoAward, Lists(s)!Decide(r, ts, st, over, visible)
       PROVE  Goal
  <2>1. order' = order
    BY <1>11 DEF Lists!Decide, Lists!Decided
  <2> DEFINE yes == IF st = "SHORTLISTED" THEN ts ELSE {}
             no == IF st = "REJECTED" THEN ts ELSE {}
             open == IF st = "PENDING" THEN ts ELSE {}
  <2>2. yes \in SUBSET s.teams /\ no \in SUBSET s.teams /\ open \in SUBSET s.teams /\ yes \cap no = {}
    OBVIOUS
  <2>3. Lists(s)!Decided(r, yes, no, open)
    BY <1>11 DEF Lists!Decide
  <2> HIDE DEF yes, no, open
  <2> QED
    BY <1>1, <1>11, <2>1, <2>2, <2>3, CardsDecided, OrderKept
<1>12. ASSUME NEW r \in s.rounds, NEW over \in BOOLEAN, NEW visible \in BOOLEAN,
              NEW rule \in {"FLAG", "MIN", "TOP"}, NEW n \in 1..2, NEW rest \in BOOLEAN,
              due = Lists(s)!NoAward, Lists(s)!AutoShortlist(r, rule, n, rest, over, visible)
       PROVE  Goal
  <2> DEFINE yes == Lists(s)!Selected(r, rule, n)
             no == IF rest THEN Lists(s)!With(r, "PENDING") \ yes ELSE {}
  <2>1. yes \in SUBSET s.teams
    BY <1>12 DEF Lists!Selected, Lists!Entered
  <2>2. no \in SUBSET s.teams /\ yes \cap no = {}
    BY <2>1 DEF Lists!With
  <2>3. Lists(s)!Decided(r, yes, no, {})
    BY <1>12 DEF Lists!AutoShortlist
  <2>4. order' = order
    BY <2>3 DEF Lists!Decided
  <2> HIDE DEF yes, no
  <2> QED
    BY <1>1, <1>12, <2>1, <2>2, <2>3, <2>4, CardsDecided, OrderKept
<1>13. ASSUME Lists(s)!RunAward PROVE Goal
  BY <1>1, <1>13, CardsAwarded, OrderKept DEF Lists!RunAward, Lists!rows
<1>14. ASSUME Lists(s)!LoseAward PROVE Goal
  BY <1>1, <1>14, CardsFewer, OrderKept DEF Lists!LoseAward, Lists!rows, CardInv, ListTypes
<1>15. ASSUME NEW k \in Lists(s)!Keys, Lists(s)!See(k) \/ Lists(s)!Sweep(k) PROVE Goal
  BY <1>1, <1>15, CardsFewer, OrderKept DEF Lists!See, Lists!Sweep, Lists!rows, CardInv, ListTypes
<1>16. ASSUME NEW t \in s.teams, Lists(s)!Leave(t) \/ Lists(s)!Return(t) PROVE Goal
  <2>1. /\ order' = order /\ published' = published /\ entry' = entry /\ dropped' = dropped
        /\ due' = due
    BY <1>16 DEF Lists!Leave, Lists!Return
  <2>2. team' \in [s.teams -> {"REGISTERED", "WAITING", "OUT", "DELETED"}]
    <3>1. team \in [s.teams -> {"REGISTERED", "WAITING", "OUT", "DELETED"}]
      BY <1>1 DEF CardInv, ListTypes
    <3>2. team' = [team EXCEPT ![t] = "OUT"] \/ team' = [team EXCEPT ![t] = "REGISTERED"]
      BY <1>16 DEF Lists!Leave, Lists!Return
    <3> QED
      BY <3>1, <3>2
  <2>3. card \in [Lists(s)!Keys -> {"NONE", "UNSEEN", "SEEN"}]
    BY <1>1 DEF CardInv, ListTypes
  <2>4. card' = card \/ \E ks : card' = Lists(s)!Retract(ks)
    BY <1>16 DEF Lists!Leave, Lists!Return
  <2>5. /\ card' \in [Lists(s)!Keys -> {"NONE", "UNSEEN", "SEEN"}]
        /\ \A k \in Lists(s)!Keys : card'[k] = "UNSEEN" => card[k] = "UNSEEN"
    BY <2>3, <2>4 DEF Lists!Retract
  <2> QED
    BY <1>1, <2>1, <2>2, <2>5, CardsFewer, OrderKept
<1>17. ASSUME NEW t \in s.teams, Lists(s)!DeleteTeam(t) PROVE Goal
  <2> DEFINE ks == {r \in s.rounds : entry[<<r, t>>] # "NONE"} \X {t}
  <2>1. ks \subseteq Lists(s)!Keys
    BY DEF Lists!Keys
  <2>2. Lists(s)!Drop(ks)
    BY <1>17 DEF Lists!DeleteTeam
  <2>3. /\ team' \in [s.teams -> {"REGISTERED", "WAITING", "OUT", "DELETED"}]
        /\ order' = order /\ published' = published /\ card' = card /\ due' = due
        /\ published' \in [s.rounds -> BOOLEAN]
    BY <1>1, <1>17 DEF Lists!DeleteTeam, CardInv, ListTypes
  <2>4. \A q \in s.rounds, u \in s.teams :
            \/ published'[q] = published[q]
            \/ due = Lists(s)!NoAward /\ (entry[<<q, u>>] # "NONE" => <<q, u>> \in ks)
    BY <2>3
  <2> HIDE DEF ks
  <2>5. CardInv(s)'
    BY <1>1, <2>1, <2>2, <2>3, <2>4, EntriesDropped
  <2> QED
    BY <1>1, <2>3, <2>5, OrderKept
<1> HIDE DEF Goal
<1>18. ASSUME Lists(s)!Organize PROVE Goal
  BY <1>2, <1>3, <1>4, <1>5, <1>6, <1>7, <1>8, <1>9, <1>10, <1>18 DEF Lists!Organize
<1>19. ASSUME Lists(s)!Shortlist PROVE Goal
  BY <1>11, <1>12, <1>19 DEF Lists!Shortlist
<1>20. Goal
  BY <1>13, <1>14, <1>15, <1>16, <1>17, <1>18, <1>19 DEF Lists!Next, Lists!Celebrate, Lists!Manage
<1> QED
  BY <1>20 DEF Goal, ListInv, CardInv

LEMMA ListTypeOK == ASSUME NEW s \in ShortlistSizes, ListInv(s) PROVE Lists(s)!TypeOK
<1>1. order \in [s.rounds -> 0..Cardinality(s.rounds)]
  <2> DEFINE n == Cardinality(Lists(s)!Existing)
             m == Cardinality(s.rounds)
  <2>1. OrdersOK(s)
    BY DEF ListInv
  <2>2. n \in Nat /\ m \in Nat /\ n <= m
    BY <2>1, OrdersFill
  <2>3. order \in [s.rounds -> Nat] /\ \A r \in s.rounds : order[r] = 0 \/ order[r] <= n
    BY <2>1 DEF OrdersOK, Lists!Existing, Lists!Exists
  <2> HIDE DEF n, m
  <2>4. \A r \in s.rounds : order[r] \in 0..m
    BY <2>2, <2>3
  <2> QED
    BY <2>3, <2>4 DEF m
<1> QED
  BY <1>1, ListCount DEF ListInv, ListTypes, Lists!TypeOK

-----------------------------------------------------------------------------
(* Ideas. *)

\* An unfinished save that found the idea still finds it as it was...
IdeaLocks(s) ==
    /\ \A r \in Idea(s)!Requests :
           save[r] # Idea(s)!Idle /\ save[r].existing # Idea(s)!NoIdea => save[r].existing = idea
    /\ \A q, r \in Idea(s)!Requests :
           q # r /\ save[q] # Idea(s)!Idle /\ save[r] # Idea(s)!Idle =>
               save[q].existing = Idea(s)!NoIdea \/ save[r].existing = Idea(s)!NoIdea

\* ...the files it picked are its own, uploaded or those of the idea it found...
FileLocks(s) ==
    /\ \A r \in Idea(s)!Requests : save[r] # Idea(s)!Idle =>
           \A f \in {save[r].deck, save[r].proof} \ {Idea(s)!NoFile} :
               \/ file[f] = "UPLOADED"
               \/ save[r].existing # Idea(s)!NoIdea /\ f \in {idea.deck, idea.proof}
    /\ \A q, r \in Idea(s)!Requests :
           q # r /\ save[q] # Idea(s)!Idle /\ save[r] # Idea(s)!Idle =>
               {save[q].deck, save[q].proof} \cap {save[r].deck, save[r].proof}
                   \subseteq {Idea(s)!NoFile}

\* ...and what a request still has to delete is nobody's file any more.
DeletesAreSafe(s) ==
    \A r \in Idea(s)!Requests, f \in Idea(s)!Files :
        Idea(s)!Final(f) \in due[r] => file[f] = "DELETED"

IdeaInv(s) ==
    /\ Idea(s)!TypeOK
    /\ Idea(s)!HeldFilesExist
    /\ IdeaLocks(s)
    /\ FileLocks(s)
    /\ DeletesAreSafe(s)
    /\ save["LEADER"] # Idea(s)!Idle => ~Idea(s)!Decided(save["LEADER"].existing)

LEMMA IdeaInit == ASSUME NEW s, Idea(s)!Init PROVE IdeaInv(s)
BY DEF IdeaInv, IdeaLocks, FileLocks, DeletesAreSafe, Idea!Init, Idea!TypeOK,
       Idea!HeldFilesExist, Idea!Requests, Idea!Idle, Idea!NoIdea, Idea!Idea, Idea!Ideas_,
       Idea!NoFile, Idea!Files, Idea!Active, Idea!Keys

LEMMA IdeaStep ==
    ASSUME NEW s \in IdeaSizes, IdeaInv(s), Idea(s)!Next
    PROVE  IdeaInv(s)' /\ Idea(s)!SaveRespectsDecision
<1>1. Idea(s)!FilesDiffer
  BY HackathonAssumption
<1> USE DEF IdeaInv, IdeaLocks, FileLocks, DeletesAreSafe, Idea!TypeOK, Idea!HeldFilesExist,
            Idea!SaveRespectsDecision, Idea!Requests, Idea!Idle, Idea!NoIdea, Idea!Idea,
            Idea!Ideas_, Idea!NoFile, Idea!Files, Idea!Active, Idea!Keys, Idea!Decided,
            Idea!FilesDiffer, Idea!Final, Idea!Outcomes
<1> DEFINE Goal == IdeaInv(s)' /\ Idea(s)!SaveRespectsDecision
<1>2. ASSUME NEW r \in Idea(s)!Requests, NEW d \in s.decks \cup {Idea(s)!NoFile},
             NEW p \in s.proofs \cup {Idea(s)!NoFile}, Idea(s)!BeginSave(r, d, p)
      PROVE  Goal
  BY <1>1, <1>2 DEF Idea!BeginSave, Idea!IdeaLocked, Idea!FileLocked, Idea!Picks, Idea!Saving, Idea!CanTeamEdit
<1>3. ASSUME NEW r \in Idea(s)!Requests, NEW st, st \in {"SUBMITTED", "APPROVED"},
             Idea(s)!CommitSave(r, st)
      PROVE  Goal
  <2> DEFINE v == save[r]
  <2> USE <1>1
  <2>1. /\ v # Idea(s)!Idle
        /\ v.existing = Idea(s)!NoIdea => ~Idea(s)!IdeaLocked
        /\ idea' = [status |-> st, deck |-> v.deck, proof |-> v.proof]
        /\ bucket' = bucket \cup {Idea(s)!Final(f) : f \in Idea(s)!Moving(v)}
        /\ file' = [f \in Idea(s)!Files |-> IF f \in Idea(s)!Moving(v) THEN "ATTACHED"
                                    ELSE IF f \in Idea(s)!Replaced(v) THEN "DELETED" ELSE file[f]]
        /\ due' = [due EXCEPT ![r] = {Idea(s)!Tmp(f) : f \in Idea(s)!Moving(v)}
                                      \cup {Idea(s)!Final(f) : f \in Idea(s)!Replaced(v)}]
        /\ save' = [save EXCEPT ![r] = [op |-> "IDLE"]]
        /\ edits' = edits
    BY <1>3 DEF Idea!CommitSave
  <2>2. Idea(s)!Moving(v) \subseteq Idea(s)!Files
    BY <2>1 DEF Idea!Moving
  <2>3. Idea(s)!Replaced(v) \subseteq Idea(s)!Files
    BY DEF Idea!Replaced
  <2>4. Idea(s)!TypeOK'
    BY <1>3, <2>1, <2>2, <2>3 DEF Idea!Tmp
  <2>11. /\ v.deck \in s.decks \cup {Idea(s)!NoFile} /\ v.proof \in s.proofs \cup {Idea(s)!NoFile}
         /\ v.existing \in Idea(s)!Ideas_
    BY <2>1
  <2>12. ASSUME NEW f \in {v.deck, v.proof} \ {Idea(s)!NoFile}, f \notin Idea(s)!Moving(v)
         PROVE  /\ f \in {idea.deck, idea.proof} /\ v.existing = idea
                /\ f \notin Idea(s)!Replaced(v)
    BY <2>1, <2>11, <2>12 DEF Idea!Moving, Idea!Replaced
  <2>13. /\ v.existing = Idea(s)!NoIdea \/ v.existing = idea
         /\ \A f \in {idea.deck, idea.proof} \ {Idea(s)!NoFile} : file[f] = "ATTACHED"
    BY <2>1
  <2>5. Idea(s)!HeldFilesExist'
    <3>1. ASSUME NEW f \in {v.deck, v.proof} \ {Idea(s)!NoFile}
          PROVE  file'[f] = "ATTACHED" /\ Idea(s)!Final(f) \in bucket'
      <4>1. f \in Idea(s)!Files
        BY <2>11, <3>1
      <4>2. CASE f \in Idea(s)!Moving(v)
        BY <2>1, <4>1, <4>2
      <4>3. CASE f \notin Idea(s)!Moving(v)
        BY <2>1, <2>12, <4>1, <4>3
      <4> QED
        BY <4>2, <4>3
    <3> QED
      BY <2>1, <3>1
  <2>6. IdeaLocks(s)'
    BY <2>1 DEF Idea!IdeaLocked
  <2>7. FileLocks(s)'
    <3>1. ASSUME NEW q \in Idea(s)!Requests, save'[q] # Idea(s)!Idle,
                 NEW f \in {save'[q].deck, save'[q].proof} \ {Idea(s)!NoFile}
          PROVE  \/ file'[f] = "UPLOADED"
                 \/ save'[q].existing # Idea(s)!NoIdea /\ f \in {idea'.deck, idea'.proof}
      <4>1. q # r /\ save'[q] = save[q] /\ f \in Idea(s)!Files
        BY <2>1, <3>1
      <4>2. f \notin {v.deck, v.proof}
        BY <2>1, <3>1, <4>1
      <4>3. CASE file[f] = "UPLOADED"
        <5>1. f \notin Idea(s)!Replaced(v)
          BY <2>1, <2>11, <2>13, <4>1, <4>3 DEF Idea!Replaced
        <5> QED
          BY <2>1, <4>1, <4>2, <4>3, <5>1 DEF Idea!Moving
      <4>4. CASE save[q].existing # Idea(s)!NoIdea
        BY <2>1, <3>1, <4>1, <4>4 DEF Idea!IdeaLocked
      <4> QED
        BY <3>1, <4>1, <4>3, <4>4
    <3>2. ASSUME NEW p \in Idea(s)!Requests, NEW q \in Idea(s)!Requests, p # q,
                 save'[p] # Idea(s)!Idle, save'[q] # Idea(s)!Idle
          PROVE  {save'[p].deck, save'[p].proof} \cap {save'[q].deck, save'[q].proof}
                     \subseteq {Idea(s)!NoFile}
      BY <2>1, <3>2
    <3> QED
      BY <3>1, <3>2
  <2>8. DeletesAreSafe(s)'
    BY <2>1 DEF Idea!Moving, Idea!Replaced, Idea!Tmp
  <2>9. IdeaInv(s)'
    BY <2>1, <2>4, <2>5, <2>6, <2>7, <2>8
  <2>10. Idea(s)!SaveRespectsDecision
    BY <2>1
  <2> QED
    BY <2>9, <2>10
<1>4. ASSUME NEW r \in Idea(s)!Requests, Idea(s)!AbortSave(r) PROVE Goal
  BY <1>1, <1>4 DEF Idea!AbortSave, Idea!Moving
<1>5. ASSUME NEW r \in Idea(s)!Requests, Idea(s)!DeleteObjects(r) PROVE Goal
  BY <1>1, <1>5 DEF Idea!DeleteObjects
<1>6. ASSUME NEW r \in Idea(s)!Requests, Idea(s)!LoseDeletes(r) PROVE Goal
  BY <1>1, <1>6 DEF Idea!LoseDeletes
<1>7. ASSUME NEW f \in Idea(s)!Files, Idea(s)!RequestUpload(f) PROVE Goal
  BY <1>1, <1>7 DEF Idea!RequestUpload, Idea!Gone, Idea!FileLocked, Idea!Tmp
<1>8. ASSUME NEW f \in Idea(s)!Files, Idea(s)!Post(f) PROVE Goal
  BY <1>1, <1>8 DEF Idea!Post, Idea!Tmp
<1>9. ASSUME NEW f \in Idea(s)!Files, NEW ok \in BOOLEAN, Idea(s)!Complete(f, ok) PROVE Goal
  BY <1>1, <1>9 DEF Idea!Complete, Idea!Tmp
<1>10. ASSUME NEW f \in Idea(s)!Files, Idea(s)!Discard(f) PROVE Goal
  BY <1>1, <1>10 DEF Idea!Discard, Idea!Gone, Idea!FileLocked, Idea!Tmp
<1>11. ASSUME NEW f \in Idea(s)!Files, Idea(s)!Quarantine(f) PROVE Goal
  <2> DEFINE Without(g) == IF g = f THEN Idea(s)!NoFile ELSE g
  <2>1. idea' = [status |-> idea.status, deck |-> Without(idea.deck), proof |-> Without(idea.proof)]
    BY <1>11, Zenon DEF Idea!Quarantine
  <2>6. Idea(s)!TypeOK'
    BY <1>1, <1>11, <2>1 DEF Idea!Quarantine, Idea!Tmp
  <2>7. Idea(s)!HeldFilesExist'
    <3>1. \A g \in {idea'.deck, idea'.proof} \ {Idea(s)!NoFile} :
              g \in {idea.deck, idea.proof} /\ g # f /\ g \in Idea(s)!Files
      BY <1>1, <2>1
    <3>2. ASSUME NEW g \in Idea(s)!Files, g # f
          PROVE  /\ file'[g] = file[g]
                 /\ Idea(s)!Final(g) \in bucket => Idea(s)!Final(g) \in bucket'
      BY <1>11, <3>2 DEF Idea!Quarantine, Idea!Tmp
    <3> QED
      BY <3>1, <3>2
  <2>2. Idea(s)!TypeOK' /\ Idea(s)!HeldFilesExist'
    BY <2>6, <2>7
  <2>8. idea' = idea \/ ~Idea(s)!IdeaLocked
    <3>1. CASE f \notin {idea.deck, idea.proof}
      BY <2>1, <3>1
    <3> QED
      BY <1>11, <3>1 DEF Idea!Quarantine
  <2>3. IdeaLocks(s)'
    BY <1>11, <2>8 DEF Idea!Quarantine, Idea!IdeaLocked
  <2>4. FileLocks(s)'
    BY <1>1, <1>11, <2>1 DEF Idea!Quarantine, Idea!FileLocked, Idea!IdeaLocked
  <2>5. DeletesAreSafe(s)'
    BY <1>1, <1>11 DEF Idea!Quarantine
  <2> QED
    BY <1>11, <2>2, <2>3, <2>4, <2>5 DEF Idea!Quarantine
<1>12. ASSUME NEW o \in Idea(s)!Outcomes, Idea(s)!Review(o) PROVE Goal
  BY <1>1, <1>12 DEF Idea!Review, Idea!IdeaLocked
<1>13. ASSUME Idea(s)!SwitchEdits PROVE Goal
  BY <1>1, <1>13 DEF Idea!SwitchEdits
<1> HIDE DEF Goal, Idea!SaveRespectsDecision, IdeaInv, Idea!Requests, Idea!Files, Idea!Outcomes,
             Idea!NoFile
<1>14. ASSUME NEW r \in Idea(s)!Requests, Idea(s)!SaveIdea(r) PROVE Goal
  BY <1>2, <1>3, <1>4, <1>5, <1>6, <1>14 DEF Idea!SaveIdea
<1>15. ASSUME NEW f \in Idea(s)!Files, Idea(s)!Upload(f) PROVE Goal
  BY <1>7, <1>8, <1>9, <1>10, <1>11, <1>15 DEF Idea!Upload
<1>16. Goal
  <2>1. CASE \E r \in Idea(s)!Requests : Idea(s)!SaveIdea(r)
    BY <1>14, <2>1
  <2>2. CASE \E f \in Idea(s)!Files : Idea(s)!Upload(f)
    BY <1>15, <2>2
  <2>3. CASE \E o \in Idea(s)!Outcomes : Idea(s)!Review(o)
    BY <1>12, <2>3
  <2>4. CASE Idea(s)!SwitchEdits
    BY <1>13, <2>4
  <2> QED
    BY <2>1, <2>2, <2>3, <2>4 DEF Idea!Next
<1> QED
  BY <1>16 DEF Goal

-----------------------------------------------------------------------------
(* Judging. *)

JudgeScores(s) == [credits : SUBSET s.criteria, total : 0..100]
JudgeKept(s)   == [score : 0..100, count : 0..Judges(s)!Cardinality(s.people)]
JudgeSheets(s) == [s.teams \X s.people -> JudgeScores(s) \cup {Judges(s)!NoReview}]
JudgeWork(s)   == {Judges(s)!Idle}
    \cup [op : {"REVIEW"}, team : s.teams, by : s.people, wrote : JudgeScores(s), kept : JudgeKept(s)]
    \cup [op : {"RUBRIC"}, criteria : SUBSET s.criteria, review : JudgeSheets(s)]

\* With one request at a time the score and count kept on a project are those
\* of its reviews, and those a request will keep are those of the reviews it
\* will leave.
JudgeInv(s) ==
    /\ Judges(s)!TypeOK
    /\ req \in [s.requests -> JudgeWork(s)]
    /\ (\A j, k \in s.requests : j = k) =>
          /\ \A t \in s.teams : kept[t] = Judges(s)!Stats(review, t)
          /\ \A k \in s.requests : req[k].op = "REVIEW" =>
                req[k].kept = Judges(s)!Stats(
                    [review EXCEPT ![<<req[k].team, req[k].by>>] = req[k].wrote], req[k].team)

LEMMA JudgeFinite == ASSUME NEW s \in JudgingSizes
                     PROVE  IsFiniteSet(s.people) /\ IsFiniteSet(s.criteria)
BY HackathonAssumption

\* A part counts with its own copy of the library's operator.
LEMMA JudgeCount == ASSUME NEW s, NEW S PROVE Judges(s)!Cardinality(S) = Cardinality(S)
BY DEF Judges!Cardinality, Cardinality, Judges!IsFiniteSet, IsFiniteSet

\* The total of a review is a share of 100.
LEMMA TotalOf100 ==
    ASSUME NEW s \in JudgingSizes, NEW c \in SUBSET s.criteria, NEW d \in SUBSET c
    PROVE  Judges(s)!Total(d, c) \in 0..100
<1>1. /\ IsFiniteSet(c) /\ Cardinality(d) <= Cardinality(c)
      /\ Cardinality(d) \in Nat /\ Cardinality(c) \in Nat
  BY JudgeFinite, FS_Subset, FS_CardinalityType
<1>2. CASE c = {}
  BY <1>2 DEF Judges!Total
<1>3. CASE c # {}
  <2>1. Cardinality(c) # 0
    BY <1>1, <1>3, FS_EmptySet
  <2>2. \A m, n \in Nat : n # 0 /\ m <= n => (100 * m) \div n \in 0..100
    OBVIOUS
  <2>3. (100 * Cardinality(d)) \div Cardinality(c) \in 0..100
    BY <1>1, <2>1, <2>2
  <2> QED
    BY <1>3, <2>3, JudgeCount DEF Judges!Total
<1> QED
  BY <1>2, <1>3

\* The reviews of one project alone decide its score and count.
LEMMA StatsOwn ==
    ASSUME NEW s, NEW q, NEW r, NEW t, \A p \in s.people : q[<<t, p>>] = r[<<t, p>>]
    PROVE  Judges(s)!Stats(q, t) = Judges(s)!Stats(r, t)
<1> DEFINE G(f) == {p \in s.people : f[<<t, p>>] # Judges(s)!NoReview}
           P(f) == {x \in G(f) \X (0..100) : 0 < x[2] /\ x[2] <= f[<<t, x[1]>>].total}
<1>1. G(q) = G(r)
  OBVIOUS
<1>2. ASSUME NEW x \in G(r) \X (0..100) PROVE q[<<t, x[1]>>] = r[<<t, x[1]>>]
  BY <1>2
<1>3. P(q) = P(r)
  BY <1>1, <1>2
<1> QED
  BY <1>1, <1>3, Zenon DEF Judges!Stats, Judges!Points

\* A project without reviews has no score.
LEMMA StatsNone ==
    ASSUME NEW s, NEW r, NEW t, \A p \in s.people : r[<<t, p>>] = Judges(s)!NoReview
    PROVE  Judges(s)!Stats(r, t) = [score |-> 0, count |-> 0]
<1>1. {p \in s.people : r[<<t, p>>] # Judges(s)!NoReview} = {}
  OBVIOUS
<1>2. Judges(s)!Cardinality({}) = 0
  BY JudgeCount, FS_EmptySet
<1> QED
  BY <1>1, <1>2, Zenon DEF Judges!Stats

LEMMA PairsCounted ==
    ASSUME NEW S, IsFiniteSet(S), NEW n \in Nat
    PROVE  /\ IsFiniteSet(S \X (1..n))
           /\ Cardinality(S \X (1..n)) = Cardinality(S) * n
<1>1. IsFiniteSet(1..n) /\ Cardinality(1..n) = n
  BY FS_Interval
<1>2. IsFiniteSet(S \X (1..n)) /\ Cardinality(S \X (1..n)) = Cardinality(S) * Cardinality(1..n)
  BY <1>1, FS_Product, Zenon
<1> QED
  BY <1>1, <1>2

\* Scores stay within 100, counts within the number of people.
LEMMA StatsType ==
    ASSUME NEW s \in JudgingSizes, NEW r, NEW t
    PROVE  Judges(s)!Stats(r, t) \in JudgeKept(s)
<1> DEFINE given == {p \in s.people : r[<<t, p>>] # Judges(s)!NoReview}
           one   == {x \in given \X (0..100) : 0 < x[2] /\ x[2] <= r[<<t, x[1]>>].total}
           C(S)  == Judges(s)!Cardinality(S)
<1>1. /\ IsFiniteSet(given) /\ Cardinality(given) \in Nat
      /\ Cardinality(given) <= Cardinality(s.people) /\ Cardinality(s.people) \in Nat
  BY JudgeFinite, FS_Subset, FS_CardinalityType
<1>2. 100 \in Nat
  OBVIOUS
<1>3. IsFiniteSet(given \X (1..100)) /\ Cardinality(given \X (1..100)) = Cardinality(given) * 100
  BY <1>1, <1>2, PairsCounted, Zenon
<1>4. one \subseteq given \X (1..100)
  <2> HIDE DEF given
  <2> QED
    OBVIOUS
<1>5. Cardinality(one) \in Nat /\ Cardinality(one) <= Cardinality(given) * 100
  <2> HIDE DEF one, given
  <2> QED
    BY <1>3, <1>4, FS_Subset, FS_CardinalityType
<1>6. given # {} => Cardinality(given) # 0
  <2> HIDE DEF given
  <2> QED
    BY <1>1, FS_EmptySet
<1>7. \A m, n \in Nat : n # 0 /\ m <= n * 100 => m \div n \in 0..100
  OBVIOUS
<1>8. Judges(s)!Stats(r, t) = [score |-> IF given = {} THEN 0 ELSE C(one) \div C(given),
                               count |-> C(given)]
  BY Zenon DEF Judges!Stats, Judges!Points
<1>9. /\ (IF given = {} THEN 0 ELSE C(one) \div C(given)) \in 0..100
      /\ C(given) \in 0..C(s.people)
  <2> DEFINE m == Cardinality(one)
             n == Cardinality(given)
  <2>1. C(one) = m /\ C(given) = n /\ C(s.people) = Cardinality(s.people)
    BY JudgeCount, Zenon
  <2>2. given # {} => m \div n \in 0..100
    <3>1. m \in Nat /\ n \in Nat /\ m <= n * 100 /\ (given # {} => n # 0)
      BY <1>1, <1>5, <1>6
    <3> HIDE DEF m, n, given
    <3> QED
      BY <1>7, <3>1
  <2> HIDE DEF given, one, C
  <2> QED
    BY <1>1, <2>1, <2>2
<1> HIDE DEF given, one, C
<1> QED
  <2>1. C(s.people) = Judges(s)!Cardinality(s.people)
    BY DEF C
  <2> QED
    BY <1>8, <1>9, <2>1 DEF JudgeKept

LEMMA JudgeTypes ==
    ASSUME NEW s \in JudgingSizes
    PROVE  /\ JudgeKept(s) = Judges(s)!Kept
           /\ JudgeSheets(s) = [s.teams \X s.people -> Judges(s)!Reviews]
           /\ [score |-> 0, count |-> 0] \in JudgeKept(s)
           /\ Judges(s)!Idle \in JudgeWork(s) /\ Judges(s)!Idle.op = "IDLE"
           /\ \A w \in JudgeWork(s) :
                 /\ w = Judges(s)!Idle \/ w.op = "REVIEW" \/ w.op = "RUBRIC"
                 /\ w.op = "REVIEW" => /\ w.team \in s.teams /\ w.by \in s.people
                                       /\ w.wrote \in JudgeScores(s) /\ w.kept \in JudgeKept(s)
                 /\ w.op = "RUBRIC" => w.criteria \in SUBSET s.criteria /\ w.review \in JudgeSheets(s)
<1>1. JudgeKept(s) = Judges(s)!Kept
  BY DEF JudgeKept, Judges!Kept, Judges!Points
<1>2. JudgeSheets(s) = [s.teams \X s.people -> Judges(s)!Reviews]
  BY DEF JudgeSheets, JudgeScores, Judges!Reviews, Judges!Points
<1>3. [score |-> 0, count |-> 0] \in JudgeKept(s)
  BY JudgeFinite, JudgeCount, FS_CardinalityType DEF JudgeKept
<1>4. Judges(s)!Idle \in JudgeWork(s) /\ Judges(s)!Idle.op = "IDLE"
  BY DEF JudgeWork, Judges!Idle
<1>5. ASSUME NEW w \in JudgeWork(s)
      PROVE  /\ w = Judges(s)!Idle \/ w.op = "REVIEW" \/ w.op = "RUBRIC"
             /\ w.op = "REVIEW" => /\ w.team \in s.teams /\ w.by \in s.people
                                   /\ w.wrote \in JudgeScores(s) /\ w.kept \in JudgeKept(s)
             /\ w.op = "RUBRIC" => w.criteria \in SUBSET s.criteria /\ w.review \in JudgeSheets(s)
  <2> HIDE DEF JudgeScores, JudgeKept, JudgeSheets
  <2> QED
    BY <1>5 DEF JudgeWork, Judges!Idle
<1> QED
  BY <1>1, <1>2, <1>3, <1>4, <1>5

\* The types of the rows and of the work in progress, for the step's end.
LEMMA JudgeTypesNext ==
    ASSUME NEW s \in JudgingSizes,
           rubric' \subseteq s.criteria, judge' \subseteq s.people,
           on' \in [s.people -> s.teams \cup {Judges(s)!NoTeam}],
           project' \in [s.teams -> {"NONE", "LISTED", "OUT"}],
           review' \in JudgeSheets(s), kept' \in [s.teams -> JudgeKept(s)],
           published' \in BOOLEAN, awarded' \in BOOLEAN,
           req' \in [s.requests -> JudgeWork(s)]
    PROVE  Judges(s)!TypeOK'
<1>1. \A k \in s.requests : req'[k] \in JudgeWork(s)
  OBVIOUS
<1>2. \A k \in s.requests :
          \/ req'[k] = Judges(s)!Idle
          \/ req'[k].op = "REVIEW" /\ req'[k].kept \in Judges(s)!Kept
          \/ /\ req'[k].op = "RUBRIC"
             /\ req'[k].review \in [s.teams \X s.people -> Judges(s)!Reviews]
  BY <1>1, JudgeTypes
<1> QED
  BY <1>2, JudgeTypes DEF Judges!TypeOK

LEMMA JudgeInit == ASSUME NEW s \in JudgingSizes, Judges(s)!Init PROVE JudgeInv(s)
<1>1. /\ rubric = {} /\ judge = {} /\ awarded = FALSE /\ published = FALSE
      /\ on = [p \in s.people |-> Judges(s)!NoTeam]
      /\ project = [t \in s.teams |-> "NONE"]
      /\ review = [x \in s.teams \X s.people |-> Judges(s)!NoReview]
      /\ kept = [t \in s.teams |-> [score |-> 0, count |-> 0]]
      /\ req = [k \in s.requests |-> Judges(s)!Idle]
  BY DEF Judges!Init
<1>2. /\ review \in JudgeSheets(s) /\ kept \in [s.teams -> JudgeKept(s)]
      /\ req \in [s.requests -> JudgeWork(s)]
  <2>1. review \in JudgeSheets(s)
    BY <1>1 DEF JudgeSheets
  <2> QED
    BY <1>1, <2>1, JudgeTypes
<1>3. Judges(s)!TypeOK
  BY <1>1, <1>2, JudgeTypes DEF Judges!TypeOK
<1>4. \A t \in s.teams : kept[t] = Judges(s)!Stats(review, t)
  <2> TAKE t \in s.teams
  <2>1. \A p \in s.people : review[<<t, p>>] = Judges(s)!NoReview
    BY <1>1
  <2> QED
    BY <1>1, <2>1, StatsNone
<1>5. \A k \in s.requests : req[k].op # "REVIEW"
  BY <1>1, JudgeTypes
<1> QED
  BY <1>2, <1>3, <1>4, <1>5 DEF JudgeInv

\* The other steps touch no review and no work in progress.
LEMMA JudgeRest ==
    ASSUME NEW s \in JudgingSizes, JudgeInv(s),
           rubric' \subseteq s.criteria, judge' \subseteq s.people,
           on' \in [s.people -> s.teams \cup {Judges(s)!NoTeam}],
           project' \in [s.teams -> {"NONE", "LISTED", "OUT"}],
           published' \in BOOLEAN, awarded' \in BOOLEAN,
           review' = review, kept' = kept, req' = req
    PROVE  JudgeInv(s)'
<1>1. Judges(s)!TypeOK'
  BY JudgeTypes, JudgeTypesNext DEF JudgeInv, Judges!TypeOK
<1> QED
  BY <1>1, Zenon DEF JudgeInv

LEMMA JudgeStep ==
    ASSUME NEW s \in JudgingSizes, JudgeInv(s), Judges(s)!Next
    PROVE  JudgeInv(s)'
<1> DEFINE Goal == JudgeInv(s)'
           Stat(r, t) == Judges(s)!Stats(r, t)
           Left(r, k) == [r EXCEPT ![<<req[k].team, req[k].by>>] = req[k].wrote]
           Alone == \A j, k \in s.requests : j = k
<1>1. /\ rubric \subseteq s.criteria /\ judge \subseteq s.people
      /\ on \in [s.people -> s.teams \cup {Judges(s)!NoTeam}]
      /\ project \in [s.teams -> {"NONE", "LISTED", "OUT"}]
      /\ review \in JudgeSheets(s) /\ kept \in [s.teams -> JudgeKept(s)]
      /\ published \in BOOLEAN /\ awarded \in BOOLEAN
      /\ req \in [s.requests -> JudgeWork(s)]
  BY JudgeTypes DEF JudgeInv, Judges!TypeOK
<1>2. /\ Alone => \A t \in s.teams : kept[t] = Stat(review, t)
      /\ Alone => \A k \in s.requests : req[k].op = "REVIEW" => req[k].kept = Stat(Left(review, k), req[k].team)
  BY Zenon DEF JudgeInv
<1>3. /\ Judges(s)!Idle.op = "IDLE" /\ Judges(s)!Idle \in JudgeWork(s)
      /\ \A k \in s.requests :
            /\ req[k].op = "REVIEW" => /\ req[k].team \in s.teams /\ req[k].by \in s.people
                                        /\ req[k].wrote \in JudgeScores(s) /\ req[k].kept \in JudgeKept(s)
            /\ req[k].op = "RUBRIC" => req[k].criteria \in SUBSET s.criteria /\ req[k].review \in JudgeSheets(s)
  BY <1>1, JudgeTypes
<1>4. ASSUME NEW k \in s.requests, NEW t \in s.teams, NEW p \in s.people,
             NEW c \in SUBSET s.criteria, Judges(s)!BeginReview(k, t, p, c)
      PROVE  Goal
  <2> DEFINE wrote == [credits |-> c, total |-> Judges(s)!Total(c, rubric)]
             after == [review EXCEPT ![<<t, p>>] = wrote]
             w == [op |-> "REVIEW", team |-> t, by |-> p, wrote |-> wrote, kept |-> Stat(after, t)]
  <2>1. /\ c \subseteq rubric
        /\ rubric' = rubric /\ judge' = judge /\ on' = on /\ project' = project
        /\ review' = review /\ kept' = kept /\ published' = published /\ awarded' = awarded
    BY <1>4 DEF Judges!BeginReview
  <2>2. wrote \in JudgeScores(s)
    BY <1>1, <2>1, TotalOf100 DEF JudgeScores
  <2>3. after[<<t, p>>] = wrote
    BY <1>1 DEF JudgeSheets
  <2>4. req' = [req EXCEPT ![k] = w]
    <3>1. Judges(s)!Written(t, p, c) = after
      BY Zenon DEF Judges!Written
    <3>2. req' = [req EXCEPT ![k] = [op |-> "REVIEW", team |-> t, by |-> p,
                     wrote |-> Judges(s)!Written(t, p, c)[<<t, p>>],
                     kept |-> Judges(s)!Stats(Judges(s)!Written(t, p, c), t)]]
      BY <1>4, Zenon DEF Judges!BeginReview
    <3> HIDE DEF after, wrote
    <3> QED
      BY <2>3, <3>1, <3>2
  <2>5. Stat(after, t) \in JudgeKept(s)
    BY StatsType
  <2> HIDE DEF wrote, after, Stat
  <2>6. w \in JudgeWork(s)
    BY <2>2, <2>5 DEF JudgeWork
  <2>7. w.op = "REVIEW" /\ w.team = t /\ w.by = p /\ w.wrote = wrote /\ w.kept = Stat(after, t)
    OBVIOUS
  <2> HIDE DEF w
  <2>8. req' \in [s.requests -> JudgeWork(s)]
    BY <1>1, <2>4, <2>6
  <2>9. Judges(s)!TypeOK'
    BY <1>1, <2>1, <2>8, JudgeTypesNext
  <2>10. \A j \in s.requests : Alone /\ req'[j].op = "REVIEW" =>
            req'[j].kept = Stat([review' EXCEPT ![<<req'[j].team, req'[j].by>>] = req'[j].wrote],
                                req'[j].team)
    <3> TAKE j \in s.requests
    <3>1. Alone => req'[j] = w
      BY <1>1, <2>4
    <3>2. [review' EXCEPT ![<<w.team, w.by>>] = w.wrote] = after
      BY <2>1, <2>7 DEF after
    <3> QED
      BY <2>7, <3>1, <3>2
  <2> QED
    BY <1>2, <2>1, <2>8, <2>9, <2>10, Zenon DEF JudgeInv, Stat
<1>5. ASSUME NEW k \in s.requests, Judges(s)!CommitReview(k) PROVE Goal
  <2> DEFINE t == req[k].team
             p == req[k].by
  <2>1. /\ req[k].op = "REVIEW" /\ review' = Left(review, k)
        /\ kept' = [kept EXCEPT ![t] = req[k].kept] /\ req' = [req EXCEPT ![k] = Judges(s)!Idle]
        /\ rubric' = rubric /\ judge' = judge /\ on' = on /\ project' = project
        /\ published' = published /\ awarded' = awarded
    BY <1>5 DEF Judges!CommitReview
  <2>2. /\ t \in s.teams /\ p \in s.people /\ req[k].wrote \in JudgeScores(s)
        /\ req[k].kept \in JudgeKept(s)
    BY <1>3, <2>1
  <2>3. review' \in JudgeSheets(s) /\ kept' \in [s.teams -> JudgeKept(s)]
        /\ req' \in [s.requests -> JudgeWork(s)]
    <3>1. review' \in JudgeSheets(s)
      BY <1>1, <2>1, <2>2 DEF JudgeSheets
    <3> QED
      BY <1>1, <1>3, <2>1, <2>2, <3>1
  <2>4. Judges(s)!TypeOK'
    BY <1>1, <2>1, <2>3, JudgeTypesNext
  <2>5. Alone => \A u \in s.teams : kept'[u] = Stat(review', u)
    <3> SUFFICES ASSUME Alone, NEW u \in s.teams PROVE kept'[u] = Stat(review', u)
      OBVIOUS
    <3>1. CASE u = t
      BY <1>1, <1>2, <2>1, <2>2, <3>1
    <3>2. CASE u # t
      <4>1. \A q \in s.people : review'[<<u, q>>] = review[<<u, q>>]
        BY <1>1, <2>1, <2>2, <3>2 DEF JudgeSheets
      <4>2. Stat(review', u) = Stat(review, u)
        BY <4>1, StatsOwn
      <4> HIDE DEF Stat
      <4> QED
        BY <1>1, <1>2, <2>1, <3>2, <4>2
    <3> QED
      BY <3>1, <3>2
  <2>6. Alone => \A j \in s.requests : req'[j].op # "REVIEW"
    BY <1>1, <1>3, <2>1
  <2> QED
    BY <2>3, <2>4, <2>5, <2>6, Zenon DEF JudgeInv
<1>6. ASSUME NEW k \in s.requests, NEW c \in SUBSET s.criteria, Judges(s)!BeginReplace(k, c) PROVE Goal
  <2> DEFINE w == [op |-> "RUBRIC", criteria |-> c, review |-> review]
  <2>1. /\ req' = [req EXCEPT ![k] = w]
        /\ rubric' = rubric /\ judge' = judge /\ on' = on /\ project' = project
        /\ review' = review /\ kept' = kept /\ published' = published /\ awarded' = awarded
    BY <1>6 DEF Judges!BeginReplace
  <2>2. w \in JudgeWork(s) /\ w.op # "REVIEW"
    BY <1>1 DEF JudgeWork
  <2> HIDE DEF w
  <2>3. req' \in [s.requests -> JudgeWork(s)]
    BY <1>1, <2>1, <2>2
  <2>4. Judges(s)!TypeOK'
    BY <1>1, <2>1, <2>3, JudgeTypesNext
  <2>5. Alone => \A j \in s.requests : req'[j].op # "REVIEW"
    BY <1>1, <2>1, <2>2
  <2> QED
    BY <1>2, <2>1, <2>3, <2>4, <2>5, Zenon DEF JudgeInv
<1>7. ASSUME NEW k \in s.requests, Judges(s)!CommitReplace(k) PROVE Goal
  <2> DEFINE c == req[k].criteria
             Scored(x) == IF req[k].review[x] = Judges(s)!NoReview THEN review[x]
                          ELSE [credits |-> req[k].review[x].credits \cap c,
                                total |-> Judges(s)!Total(req[k].review[x].credits \cap c, c)]
  <2>1. /\ req[k].op = "RUBRIC" /\ rubric' = c /\ review' = [x \in s.teams \X s.people |-> Scored(x)]
        /\ kept' = [t \in s.teams |-> Stat(review', t)] /\ req' = [req EXCEPT ![k] = Judges(s)!Idle]
        /\ judge' = judge /\ on' = on /\ project' = project
        /\ published' = published /\ awarded' = awarded
    BY <1>7 DEF Judges!CommitReplace
  <2>2. c \in SUBSET s.criteria
    BY <1>3, <2>1
  <2>3. review' \in JudgeSheets(s)
    <3>1. ASSUME NEW x \in s.teams \X s.people PROVE Scored(x) \in JudgeScores(s) \cup {Judges(s)!NoReview}
      <4> DEFINE d == req[k].review[x].credits \cap c
      <4>1. Judges(s)!Total(d, c) \in 0..100
        BY <2>2, TotalOf100
      <4>2. d \subseteq s.criteria
        BY <2>2
      <4>3. review[x] \in JudgeScores(s) \cup {Judges(s)!NoReview}
        BY <1>1, <3>1 DEF JudgeSheets
      <4> HIDE DEF d
      <4>4. [credits |-> d, total |-> Judges(s)!Total(d, c)] \in JudgeScores(s)
        BY <4>1, <4>2 DEF JudgeScores
      <4> QED
        BY <4>3, <4>4 DEF d
    <3> HIDE DEF Scored
    <3> QED
      BY <2>1, <3>1 DEF JudgeSheets
  <2>4. kept' \in [s.teams -> JudgeKept(s)] /\ req' \in [s.requests -> JudgeWork(s)]
    <3>1. \A t \in s.teams : Stat(review', t) \in JudgeKept(s)
      BY StatsType
    <3> HIDE DEF Stat
    <3> QED
      BY <1>1, <1>3, <2>1, <3>1
  <2>5. Judges(s)!TypeOK'
    BY <1>1, <2>1, <2>2, <2>3, <2>4, JudgeTypesNext
  <2>6. \A u \in s.teams : kept'[u] = Stat(review', u)
    BY <2>1
  <2>7. Alone => \A j \in s.requests : req'[j].op # "REVIEW"
    BY <1>1, <1>3, <2>1
  <2> QED
    BY <2>4, <2>5, <2>6, <2>7, Zenon DEF JudgeInv
<1>8. ASSUME NEW t \in s.teams, Judges(s)!DeleteTeam(t) PROVE Goal
  <2>1. /\ project' = [project EXCEPT ![t] = "NONE"]
        /\ review' = [x \in s.teams \X s.people |-> IF x[1] = t THEN Judges(s)!NoReview ELSE review[x]]
        /\ kept' = [kept EXCEPT ![t] = [score |-> 0, count |-> 0]]
        /\ on' = [p \in s.people |-> IF on[p] = t THEN Judges(s)!NoTeam ELSE on[p]]
        /\ awarded' \in {awarded, FALSE}
        /\ req' = [k \in s.requests |-> IF Judges(s)!Fails(k, t) THEN Judges(s)!Idle ELSE req[k]]
        /\ rubric' = rubric /\ judge' = judge /\ published' = published
    BY <1>8 DEF Judges!DeleteTeam
  <2>2. review' \in JudgeSheets(s) /\ kept' \in [s.teams -> JudgeKept(s)]
        /\ req' \in [s.requests -> JudgeWork(s)]
    <3>1. review' \in JudgeSheets(s)
      BY <1>1, <2>1 DEF JudgeSheets
    <3> QED
      BY <1>1, <1>3, <2>1, <3>1, JudgeTypes
  <2>3. Judges(s)!TypeOK'
    <3>1. project' \in [s.teams -> {"NONE", "LISTED", "OUT"}]
      BY <1>1, <2>1
    <3>2. on' \in [s.people -> s.teams \cup {Judges(s)!NoTeam}]
      BY <1>1, <2>1
    <3>3. rubric' \subseteq s.criteria /\ judge' \subseteq s.people /\ published' \in BOOLEAN
          /\ awarded' \in BOOLEAN
      BY <1>1, <2>1
    <3> QED
      BY <2>2, <3>1, <3>2, <3>3, JudgeTypesNext
  <2>4. \A u \in s.teams \ {t} : \A q \in s.people : review'[<<u, q>>] = review[<<u, q>>]
    BY <2>1
  <2>5. Alone => \A u \in s.teams : kept'[u] = Stat(review', u)
    <3> SUFFICES ASSUME Alone, NEW u \in s.teams PROVE kept'[u] = Stat(review', u)
      OBVIOUS
    <3>1. CASE u = t
      <4>1. \A q \in s.people : review'[<<u, q>>] = Judges(s)!NoReview
        BY <2>1, <3>1
      <4>2. Stat(review', u) = [score |-> 0, count |-> 0]
        BY <4>1, StatsNone
      <4> HIDE DEF Stat
      <4> QED
        BY <1>1, <2>1, <3>1, <4>2
    <3>2. CASE u # t
      <4>1. Stat(review', u) = Stat(review, u)
        BY <2>4, <3>2, StatsOwn
      <4> HIDE DEF Stat
      <4> QED
        BY <1>1, <1>2, <2>1, <3>2, <4>1
    <3> QED
      BY <3>1, <3>2
  <2>6. \A j \in s.requests : Alone /\ req'[j].op = "REVIEW" =>
            req'[j].kept = Stat([review' EXCEPT ![<<req'[j].team, req'[j].by>>] = req'[j].wrote],
                                req'[j].team)
    <3> SUFFICES ASSUME NEW j \in s.requests, Alone, req'[j].op = "REVIEW"
                 PROVE  req'[j].kept = Stat([review' EXCEPT ![<<req'[j].team, req'[j].by>>] = req'[j].wrote],
                                            req'[j].team)
      OBVIOUS
    <3>1. req'[j] = req[j] /\ ~Judges(s)!Fails(j, t) /\ req[j].op = "REVIEW"
      BY <1>3, <2>1
    <3>2. req[j].team # t /\ req[j].team \in s.teams /\ req[j].by \in s.people
      BY <1>3, <3>1 DEF Judges!Fails
    <3>3. req[j].kept = Stat(Left(review, j), req[j].team)
      BY <1>2, <3>1
    <3>4. \A q \in s.people : Left(review', j)[<<req[j].team, q>>] = Left(review, j)[<<req[j].team, q>>]
      BY <1>1, <2>2, <2>4, <3>2 DEF JudgeSheets
    <3>5. Stat(Left(review', j), req[j].team) = Stat(Left(review, j), req[j].team)
      <4> HIDE DEF Left
      <4> QED
        BY <3>4, StatsOwn
    <3> HIDE DEF Stat
    <3> QED
      BY <3>1, <3>3, <3>5
  <2> QED
    BY <2>2, <2>3, <2>5, <2>6, Zenon DEF JudgeInv
<1>9. ASSUME NEW t \in s.teams, NEW p \in s.people, Judges(s)!JoinTeam(p, t) PROVE Goal
  <2>1. on' \in [s.people -> s.teams \cup {Judges(s)!NoTeam}]
    BY <1>1, <1>9 DEF Judges!JoinTeam
  <2> QED
    BY <1>1, <1>9, <2>1, JudgeRest DEF Judges!JoinTeam
<1>10. ASSUME NEW t \in s.teams, Judges(s)!SubmitProject(t) PROVE Goal
  <2>1. project' \in [s.teams -> {"NONE", "LISTED", "OUT"}]
    BY <1>1, <1>10 DEF Judges!SubmitProject
  <2> QED
    BY <1>1, <1>10, <2>1, JudgeRest DEF Judges!SubmitProject
<1>11. ASSUME NEW t \in s.teams, NEW state \in {"LISTED", "OUT"}, Judges(s)!SetTeam(t, state) PROVE Goal
  <2>1. project' \in [s.teams -> {"NONE", "LISTED", "OUT"}]
    BY <1>1, <1>11 DEF Judges!SetTeam
  <2> QED
    BY <1>1, <1>11, <2>1, JudgeRest DEF Judges!SetTeam
<1>12. ASSUME NEW p \in s.people, Judges(s)!SetJudge(p) PROVE Goal
  <2>1. judge' \subseteq s.people
    BY <1>1, <1>12 DEF Judges!SetJudge
  <2> QED
    BY <1>1, <1>12, <2>1, JudgeRest DEF Judges!SetJudge
<1>13. ASSUME NEW b \in BOOLEAN, Judges(s)!SetWinners(b) PROVE Goal
  BY <1>1, <1>13, JudgeRest DEF Judges!SetWinners
<1>14. ASSUME NEW b \in BOOLEAN, Judges(s)!Publish(b) PROVE Goal
  BY <1>1, <1>14, JudgeRest DEF Judges!Publish
<1>15. ASSUME Judges(s)!Unpublish PROVE Goal
  BY <1>1, <1>15, JudgeRest DEF Judges!Unpublish
<1>16. ASSUME NEW k \in s.requests, Judges(s)!JudgeStep(k) PROVE Goal
  <2> HIDE DEF Goal
  <2> QED
    BY <1>4, <1>5, <1>6, <1>7, <1>16 DEF Judges!JudgeStep
<1>17. ASSUME NEW t \in s.teams, Judges(s)!TeamStep(t) PROVE Goal
  <2> HIDE DEF Goal
  <2> QED
    BY <1>8, <1>9, <1>10, <1>11, <1>17 DEF Judges!TeamStep
<1>18. Goal
  <2> HIDE DEF Goal
  <2> QED
    BY <1>12, <1>13, <1>14, <1>15, <1>16, <1>17 DEF Judges!Next
<1> QED
  BY <1>18

\* What is kept is what the leaderboard should follow.
LEMMA JudgeLeaders ==
    ASSUME NEW s \in JudgingSizes, JudgeInv(s), \A j, k \in s.requests : j = k
    PROVE  Judges(s)!LeaderboardFollowsReviews
<1>1. \A t \in s.teams : kept[t] = Judges(s)!Stats(review, t)
  BY Zenon DEF JudgeInv
<1>2. Judges(s)!Listed \subseteq s.teams
  BY DEF Judges!Listed
<1>3. ASSUME NEW t \in Judges(s)!Listed
      PROVE  /\ Judges(s)!Place(t) = 1 + Judges(s)!Cardinality({u \in Judges(s)!Listed :
                      Judges(s)!Stats(review, u).score > Judges(s)!Stats(review, t).score})
             /\ kept[t].count = Judges(s)!Stats(review, t).count
  <2>1. {u \in Judges(s)!Listed : kept[u].score > kept[t].score} =
        {u \in Judges(s)!Listed : Judges(s)!Stats(review, u).score > Judges(s)!Stats(review, t).score}
    BY <1>1, <1>2, <1>3
  <2>2. kept[t] = Judges(s)!Stats(review, t)
    BY <1>1, <1>2
  <2> QED
    BY <2>1, <2>2, Zenon DEF Judges!Place
<1> QED
  BY <1>3, Zenon DEF Judges!LeaderboardFollowsReviews

==============================================================================
