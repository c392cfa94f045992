------------------------ MODULE SeatAllocationProofs ------------------------
(***************************************************************************)
(* The safety of SeatAllocation for every number of teams and workers and  *)
(* every set of settings: types, payments and the locks of promotions.     *)
(* Then, for requests handled one at a time, the two capacity limits and   *)
(* the order of the queue.                                                 *)
(***************************************************************************)
EXTENDS SeatAllocation, FiniteSetTheorems, TLAPS

-----------------------------------------------------------------------------
(* What the transactions in flight rely on: the inductive invariant. *)

\* A team that was never made has no payment, and only a team that has been
\* decided about waits.
RowsAgree ==
    \A t \in Teams :
        /\ status[t] = "ABSENT" => payment[t] = "NONE"
        /\ Waitlisted(t) => status[t] \in Decided

\* The hackathon's row is locked by one request at most, and what that request
\* has read of the team it decides about still holds.
DecidersAreRight ==
    /\ \A v, w \in Workers :
          busy[v].step \in {"PLACING", "JOINING"} /\ busy[w].step \in {"PLACING", "JOINING"}
          => v = w
    /\ \A w \in Workers :
          /\ busy[w].step = "PLACING" => status[busy[w].team] \in {"ABSENT", "PAYMENT_PENDING"}
          /\ busy[w].step = "JOINING" => size[busy[w].team] < MaxSize

\* A promotion works on teams it holds, and what it holds still waits.
PromotersAreRight ==
    \A w \in Workers :
        busy[w].step = "PROMOTING" =>
            /\ busy[w].left \subseteq busy[w].held
            /\ busy[w].chosen \subseteq busy[w].held
            /\ \A t \in busy[w].held : Active(t) /\ Waitlisted(t)

LocksInv ==
    /\ TypeOK
    /\ PaymentMatchesTeam
    /\ PromotionHoldsItsTeams
    /\ RowsAgree
    /\ DecidersAreRight
    /\ PromotersAreRight

-----------------------------------------------------------------------------
(* Lemmas about the transactions and the queue. *)

\* What a transaction carries follows from its step.
LEMMA TransactionShapes ==
    ASSUME NEW x \in Transactions
    PROVE  /\ x.step \in {"IDLE", "PLACING", "JOINING", "SAVING", "DUE", "PROMOTING"}
           /\ x.step = "IDLE" => x = Idle
           /\ x.step = "PLACING" => x.team \in Teams /\ x.waits \in BOOLEAN
           /\ x.step = "JOINING" => x.team \in Teams
           /\ x.step = "SAVING" => x.settings \in Settings /\ x.due \in BOOLEAN
           /\ x.step = "DUE" => x.settings \in Settings
           /\ x.step = "PROMOTING" => x \in Promotions
BY DEF Transactions, Promotions, Idle, Placing, Joining, Saving, Due

\* A worker that does anything but decide or promote is in one of the other steps.
LEMMA TransactionTypes ==
    /\ Idle \in Transactions
    /\ \A s \in Settings : Due(s) \in Transactions
    /\ \A t \in Teams, b \in BOOLEAN : Placing(t, b) \in Transactions
    /\ \A t \in Teams : Joining(t) \in Transactions
    /\ \A s \in Settings, b \in BOOLEAN : Saving(s, b) \in Transactions
    /\ \A s \in Settings, h, l, c \in SUBSET Teams : Promoting(s, h, l, c) \in Transactions
    /\ Promotions \subseteq Transactions
BY DEF Transactions, Promoting, Promotions

\* Leaving the queue leaves everybody else's place in it alone.
LEMMA UnqueuedKeepsOthers ==
    ASSUME NEW gone, line' = Unqueued(gone), NEW t
    PROVE  Waitlisted(t)' <=> Waitlisted(t) /\ t \notin gone
BY DEF Unqueued, Waitlisted

\* Joining the queue puts one team into it.
LEMMA QueuedAddsOne ==
    ASSUME NEW u \in Teams, line' = Queued(u), NEW t
    PROVE  Waitlisted(t)' <=> Waitlisted(t) \/ t = u
BY DEF Queued, Waitlisted, Waiting

\* A step that changes the rows of one team nobody holds, and after which no
\* worker holds more than before, respects every lock.
LEMMA UnheldTeamStep ==
    ASSUME LocksInv, NEW t \in Teams, ~Held(t),
           \A u \in Teams \ {t} : /\ status'[u] = status[u]
                                  /\ size'[u] = size[u]
                                  /\ Waitlisted(u)' <=> Waitlisted(u),
           \A w \in Workers : busy'[w] = busy[w] \/ busy'[w].step \in {"IDLE", "DUE"}
    PROVE  DecidersAreRight' /\ PromotersAreRight' /\ PromotionHoldsItsTeams'
<1> USE DEF LocksInv
<1>1. \A w \in Workers : /\ busy[w] \in Transactions
                         /\ busy[w].step \in {"PLACING", "JOINING"} =>
                              busy[w].team \in Teams \ {t}
                         /\ busy[w].step = "PROMOTING" =>
                              busy[w].held \subseteq Teams \ {t}
  BY TransactionShapes DEF TypeOK, Held, Promotions
<1>2. DecidersAreRight'
  BY <1>1 DEF DecidersAreRight
<1>3. PromotersAreRight'
  <2> SUFFICES ASSUME NEW w \in Workers, busy'[w].step = "PROMOTING"
               PROVE  /\ busy'[w].left \subseteq busy'[w].held
                      /\ busy'[w].chosen \subseteq busy'[w].held
                      /\ \A u \in busy'[w].held : Active(u)' /\ Waitlisted(u)'
    BY DEF PromotersAreRight
  <2>1. busy'[w] = busy[w]
    OBVIOUS
  <2> QED
    BY <1>1, <2>1 DEF PromotersAreRight, Active
<1>4. PromotionHoldsItsTeams'
  <2>1. ASSUME NEW w \in Workers, busy'[w].step = "PROMOTING"
        PROVE  busy'[w] = busy[w]
    BY <2>1
  <2> QED
    BY <1>3, <2>1 DEF PromotionHoldsItsTeams, PromotersAreRight
<1> QED
  BY <1>2, <1>3, <1>4

-----------------------------------------------------------------------------
(* Types, payments and locks. *)

LEMMA InitLocks == Init => LocksInv
BY TransactionTypes, TransactionShapes, SettingsAssumption
DEF Init, LocksInv, TypeOK, PaymentMatchesTeam, PromotionHoldsItsTeams, RowsAgree,
    DecidersAreRight, PromotersAreRight, Waitlisted, Gone, Decided, Idle

\* Steps that leave the rows alone.
LEMMA ReadsKeepLocks ==
    ASSUME LocksInv, UNCHANGED <<teamRows, settings>>, NEW w \in Workers,
           \/ \E t \in Teams : CreateTeam(w, t) \/ VerifyPayment(w, t) \/ JoinTeam(w, t)
           \/ \E s \in Settings : EditSettings(w, s)
           \/ StartPromotion(w) \/ ConsiderNext(w) \/ LosePromotion(w)
    PROVE  LocksInv'
<1> USE DEF LocksInv
<1>1. \A v \in Workers : busy[v] \in Transactions
  BY DEF TypeOK
<1>2. PaymentMatchesTeam' /\ RowsAgree'
  BY DEF PaymentMatchesTeam, RowsAgree, teamRows, Waitlisted
<1>0. status' = status /\ size' = size /\ line' = line
  BY DEF teamRows
<1>3. ASSUME NEW x \in Transactions, busy' = [busy EXCEPT ![w] = x]
      PROVE  TypeOK' /\ \A v \in Workers : busy'[v] = IF v = w THEN x ELSE busy[v]
  BY <1>3 DEF TypeOK, teamRows
<1>4. ASSUME NEW x \in Transactions, x.step \in {"IDLE", "DUE", "SAVING"},
             busy' = [busy EXCEPT ![w] = x]
      PROVE  LocksInv'
  <2>0. TypeOK' /\ \A v \in Workers : busy'[v] = IF v = w THEN x ELSE busy[v]
    BY <1>3, <1>4
  <2>1. DecidersAreRight'
    BY <1>0, <1>4, <2>0 DEF DecidersAreRight
  <2>2. PromotersAreRight'
    BY <1>0, <1>4, <2>0 DEF PromotersAreRight, Active, Waitlisted
  <2>3. PromotionHoldsItsTeams'
    BY <1>0, <1>4, <2>0 DEF PromotionHoldsItsTeams, Active, Waitlisted
  <2> QED
    BY <1>2, <2>0, <2>1, <2>2, <2>3
<1>5. ASSUME NEW t \in Teams, CreateTeam(w, t) \/ VerifyPayment(w, t) \/ JoinTeam(w, t)
      PROVE  LocksInv'
  <2>1. PICK x \in Transactions :
             /\ busy' = [busy EXCEPT ![w] = x]
             /\ \/ x.step = "PLACING" /\ x.team = t /\ status[t] \in {"ABSENT", "PAYMENT_PENDING"}
                \/ x.step = "JOINING" /\ x.team = t /\ size[t] < MaxSize
    <3>1. Full \in BOOLEAN
      BY DEF Full, TeamsFull, PeopleWouldExceed
    <3>2. CASE CreateTeam(w, t) \/ VerifyPayment(w, t)
      <4>1. Placing(t, Full) \in Transactions
        BY <3>1, TransactionTypes
      <4> QED
        BY <3>2, <4>1 DEF CreateTeam, VerifyPayment, Placing
    <3>3. CASE JoinTeam(w, t)
      BY <3>3, TransactionTypes DEF JoinTeam, Joining
    <3> QED
      BY <1>5, <3>2, <3>3
  <2>2. HackathonFree
    BY <1>5 DEF CreateTeam, VerifyPayment, JoinTeam, Lockable
  <2>0. TypeOK' /\ \A v \in Workers : busy'[v] = IF v = w THEN x ELSE busy[v]
    BY <1>3, <2>1
  <2>3. DecidersAreRight'
    BY <1>0, <2>0, <2>1, <2>2 DEF DecidersAreRight, HackathonFree
  <2>4. PromotersAreRight'
    BY <1>0, <2>0, <2>1 DEF PromotersAreRight, Active, Waitlisted
  <2>5. PromotionHoldsItsTeams'
    BY <1>0, <2>0, <2>1 DEF PromotionHoldsItsTeams, Active, Waitlisted
  <2> QED
    BY <1>2, <2>0, <2>3, <2>4, <2>5
<1>6. ASSUME NEW s \in Settings, EditSettings(w, s)
      PROVE  LocksInv'
  <2> DEFINE x == Saving(s, s.cap # settings.cap \/ s.queueing # settings.queueing)
  <2>1. x \in Transactions
    BY TransactionTypes
  <2>2. x.step = "SAVING" /\ busy' = [busy EXCEPT ![w] = x]
    BY <1>6 DEF EditSettings, Saving
  <2> HIDE DEF x
  <2> QED
    BY <1>4, <2>1, <2>2
<1>7. CASE StartPromotion(w)
  <2>1. CASE Queue = {}
    BY <1>4, <1>7, <2>1, TransactionTypes DEF StartPromotion, Idle
  <2>2. CASE Queue # {}
    <3> DEFINE x == Promoting(busy[w].settings, Queue, Queue, {})
    <3>1. x \in Transactions /\ busy' = [busy EXCEPT ![w] = x]
      BY <1>1, <1>7, <2>2, TransactionTypes, TransactionShapes
      DEF StartPromotion, Queue, Waiting
    <3>2. x.step = "PROMOTING" /\ x.held = Queue /\ x.left = Queue /\ x.chosen = {}
      BY DEF Promoting
    <3> HIDE DEF x
    <3>0. TypeOK' /\ \A v \in Workers : busy'[v] = IF v = w THEN x ELSE busy[v]
      BY <1>3, <3>1
    <3>3. DecidersAreRight'
      BY <1>0, <3>0, <3>2 DEF DecidersAreRight
    <3>4. PromotersAreRight'
      BY <1>0, <3>0, <3>2 DEF PromotersAreRight, Active, Waitlisted, Queue, Waiting
    <3>5. \A v \in Workers \ {w} : busy[v].step = "PROMOTING" => busy[v].held \cap Queue = {}
      BY <1>7 DEF StartPromotion, Held
    <3>6. PromotionHoldsItsTeams'
      BY <1>0, <3>0, <3>2, <3>4, <3>5 DEF PromotionHoldsItsTeams, Active, Waitlisted, PromotersAreRight
    <3> QED
      BY <1>2, <3>0, <3>3, <3>4, <3>6
  <2> QED
    BY <2>1, <2>2
<1>8. CASE ConsiderNext(w)
  <2>1. busy[w] \in Promotions /\ busy[w].step = "PROMOTING"
    BY <1>1, <1>8, TransactionShapes DEF ConsiderNext
  <2>2. PICK x \in Promotions :
             /\ busy' = [busy EXCEPT ![w] = x]
             /\ x.held = busy[w].held
             /\ x.left \subseteq busy[w].left
             /\ x.chosen \subseteq busy[w].chosen \cup busy[w].left
    <3> DEFINE p == busy[w]
    <3>1. PICK t \in p.left :
              \/ busy' = [busy EXCEPT ![w] = [p EXCEPT !.left = {}]]
              \/ busy' = [busy EXCEPT ![w] = [p EXCEPT !.left = @ \ {t}]]
              \/ busy' = [busy EXCEPT ![w] = [p EXCEPT !.left = @ \ {t}, !.chosen = @ \cup {t}]]
      BY <1>8 DEF ConsiderNext
    <3>2. [p EXCEPT !.left = {}] \in Promotions
      BY <2>1 DEF Promotions
    <3>3. [p EXCEPT !.left = @ \ {t}] \in Promotions
      BY <2>1 DEF Promotions
    <3>4. [p EXCEPT !.left = @ \ {t}, !.chosen = @ \cup {t}] \in Promotions
      BY <2>1 DEF Promotions
    <3> QED
      BY <2>1, <3>1, <3>2, <3>3, <3>4 DEF Promotions
  <2>3. x.step = "PROMOTING"
    BY DEF Promotions
  <2>4. x \in Transactions
    BY TransactionTypes
  <2>0. TypeOK' /\ \A v \in Workers : busy'[v] = IF v = w THEN x ELSE busy[v]
    BY <1>3, <2>2, <2>4
  <2>5. DecidersAreRight'
    BY <1>0, <2>0, <2>3 DEF DecidersAreRight
  <2>6. PromotersAreRight'
    BY <1>0, <2>0, <2>1, <2>2, <2>3 DEF PromotersAreRight, Active, Waitlisted
  <2>7. PromotionHoldsItsTeams'
    BY <1>0, <2>0, <2>1, <2>2, <2>3, <2>6 DEF PromotionHoldsItsTeams, PromotersAreRight
  <2> QED
    BY <1>2, <2>0, <2>5, <2>6, <2>7
<1>9. CASE LosePromotion(w)
  BY <1>4, <1>9, TransactionTypes DEF LosePromotion, Idle
<1> QED
  BY <1>5, <1>6, <1>7, <1>8, <1>9

\* Steps that change the rows of a team nobody holds.
LEMMA RequestsKeepLocks ==
    ASSUME LocksInv, NEW t \in Teams, NEW w \in Workers,
           \/ TeamStep(t)
           \/ MemberLeaves(w, t) \/ WithdrawTeam(w, t) \/ DeleteTeam(w, t)
           \/ \E s \in Decided : AdminSetStatus(w, t, s)
    PROVE  LocksInv'
<1> USE DEF LocksInv
<1>1. ~Held(t)
  BY DEF TeamStep, CreatePaidTeam, AdminCreateTeam, RejectPayment, ReopenPayment, RemovePayment,
         CancelPending, AdminAddMember, MemberLeaves, WithdrawTeam, DeleteTeam, AdminSetStatus,
         Lockable
<1>2. /\ Idle \in Transactions /\ Idle.step = "IDLE"
      /\ \A s \in Settings : Due(s) \in Transactions /\ Due(s).step = "DUE"
  BY TransactionTypes DEF Idle, Due
<1>3. /\ busy' = busy \/ \E x \in Transactions : x.step \in {"IDLE", "DUE"} /\ busy' = [busy EXCEPT ![w] = x]
      /\ settings' = settings
  BY <1>2 DEF TeamStep, CreatePaidTeam, AdminCreateTeam, RejectPayment, ReopenPayment, RemovePayment,
         CancelPending, AdminAddMember, MemberLeaves, WithdrawTeam, DeleteTeam, AdminSetStatus, TypeOK
<1>4. \A v \in Workers : busy'[v] = busy[v] \/ busy'[v].step \in {"IDLE", "DUE"}
  BY <1>3 DEF TypeOK
<1>5. busy' \in [Workers -> Transactions]
  BY <1>3 DEF TypeOK
<1>6. /\ status' \in [Teams -> Gone \cup PaymentStatuses \cup Decided]
      /\ size' \in [Teams -> 0..SizeBound]
      /\ headless' \subseteq Teams
      /\ line' \subseteq line
      /\ payment' \in [Teams -> {"NONE", "PENDING", "VERIFIED", "REJECTED", "CANCELLED", "REMOVED"}]
      /\ \A u \in Teams \ {t} : /\ status'[u] = status[u]
                                /\ size'[u] = size[u]
                                /\ payment'[u] = payment[u]
  BY SettingsAssumption
     DEF TeamStep, CreatePaidTeam, AdminCreateTeam, RejectPayment, ReopenPayment, RemovePayment,
         CancelPending, AdminAddMember, MemberLeaves, WithdrawTeam, DeleteTeam, AdminSetStatus,
         EraseTeam, Unqueued, TypeOK, Gone, PaymentStatuses, Decided, Exists
<1>7. line' = line \/ (line' = Unqueued({t}) /\ status'[t] = "DELETED")
  BY DEF TeamStep, CreatePaidTeam, AdminCreateTeam, RejectPayment, ReopenPayment, RemovePayment,
         CancelPending, AdminAddMember, MemberLeaves, WithdrawTeam, DeleteTeam, AdminSetStatus,
         EraseTeam, TypeOK
<1>8. \A u \in Teams : Waitlisted(u)' <=> Waitlisted(u) /\ (u # t \/ line' = line)
  BY <1>7, UnqueuedKeepsOthers DEF Waitlisted
<1>9. /\ status'[t] = "PAYMENT_PENDING" => payment'[t] = "PENDING"
      /\ status'[t] = "PAYMENT_REJECTED" => payment'[t] = "REJECTED"
      /\ status'[t] \in Decided => payment'[t] \in {"NONE", "VERIFIED"}
      /\ payment'[t] \in {"CANCELLED", "REMOVED"} => status'[t] = "DELETED"
      /\ status'[t] = "ABSENT" => payment'[t] = "NONE"
      /\ line' = line /\ Waitlisted(t) => status'[t] \in Decided
  BY DEF TeamStep, CreatePaidTeam, AdminCreateTeam, RejectPayment, ReopenPayment, RemovePayment,
         CancelPending, AdminAddMember, MemberLeaves, WithdrawTeam, DeleteTeam, AdminSetStatus,
         EraseTeam, Unqueued, Waitlisted, TypeOK, PaymentMatchesTeam, RowsAgree, Gone, PaymentStatuses,
         Decided, Exists, Active
<1>10. TypeOK'
  BY <1>3, <1>5, <1>6 DEF TypeOK
<1>11. PaymentMatchesTeam' /\ RowsAgree'
  BY <1>6, <1>8, <1>9 DEF PaymentMatchesTeam, RowsAgree
<1>12. DecidersAreRight' /\ PromotersAreRight' /\ PromotionHoldsItsTeams'
  BY <1>1, <1>4, <1>6, <1>8, UnheldTeamStep
<1> QED
  BY <1>10, <1>11, <1>12

\* Commits: what was read when the transaction began still holds.
LEMMA CommitsKeepLocks ==
    ASSUME LocksInv, NEW w \in Workers,
           CommitPlace(w) \/ CommitJoin(w) \/ SaveSettings(w) \/ CommitPromotion(w)
    PROVE  LocksInv'
<1> USE DEF LocksInv
<1> DEFINE t == busy[w].team
<1>1. /\ busy[w] \in Transactions
      /\ Idle \in Transactions /\ Idle.step = "IDLE"
  BY TransactionTypes DEF TypeOK, Idle
<1>2. PICK x \in Transactions : x.step \in {"IDLE", "DUE"} /\ busy' = [busy EXCEPT ![w] = x]
  <2>1. CASE SaveSettings(w)
    <3>1. busy[w].settings \in Settings
      BY <1>1, <2>1, TransactionShapes DEF SaveSettings
    <3>2. Due(busy[w].settings) \in Transactions /\ Due(busy[w].settings).step = "DUE"
      BY <3>1, TransactionTypes DEF Due
    <3> QED
      BY <1>1, <2>1, <3>2 DEF SaveSettings
  <2> QED
    BY <1>1, <2>1 DEF CommitPlace, CommitJoin, CommitPromotion
<1>3. /\ busy' \in [Workers -> Transactions]
      /\ \A v \in Workers : busy'[v] = IF v = w THEN x ELSE busy[v]
  BY <1>2 DEF TypeOK
<1>4. CASE CommitPlace(w)
  <2>1. t \in Teams /\ status[t] \in {"ABSENT", "PAYMENT_PENDING"}
    BY <1>1, <1>4, TransactionShapes DEF CommitPlace, DecidersAreRight
  <2>2. \A u : /\ Waitlisted(u) => Waitlisted(u)'
               /\ Waitlisted(u)' => Waitlisted(u) \/ u = t
    BY <1>4, <2>1, QueuedAddsOne DEF CommitPlace, Waitlisted
  <2>3. /\ status' = [status EXCEPT ![t] = "ACTIVE"]
        /\ size' \in [Teams -> 0..SizeBound]
        /\ line' \subseteq Teams \X Teams
    BY <1>4, <2>1, SettingsAssumption DEF CommitPlace, TypeOK, Queued, Waiting
  <2>4. TypeOK'
    BY <1>3, <1>4, <2>1, <2>3 DEF CommitPlace, TypeOK, Decided
  <2>5. PaymentMatchesTeam'
    BY <1>4, <2>1, <2>3 DEF CommitPlace, PaymentMatchesTeam, RowsAgree, TypeOK, Decided
  <2>6. RowsAgree'
    BY <1>4, <2>1, <2>2, <2>3 DEF CommitPlace, RowsAgree, TypeOK, Decided
  <2>7. DecidersAreRight'
    <3>1. \A v \in Workers \ {w} : busy'[v] = busy[v] /\ busy'[v].step \notin {"PLACING", "JOINING"}
      BY <1>3, <1>4 DEF CommitPlace, DecidersAreRight
    <3> QED
      BY <1>2, <1>3, <3>1 DEF DecidersAreRight
  <2>8. PromotersAreRight'
    <3> SUFFICES ASSUME NEW v \in Workers, busy'[v].step = "PROMOTING"
                 PROVE  /\ busy'[v].left \subseteq busy'[v].held
                        /\ busy'[v].chosen \subseteq busy'[v].held
                        /\ \A u \in busy'[v].held : Active(u)' /\ Waitlisted(u)'
      BY DEF PromotersAreRight
    <3>1. busy'[v] = busy[v]
      BY <1>2, <1>3
    <3>2. busy[v].held \subseteq Teams
      BY <3>1, TransactionShapes DEF TypeOK, Promotions
    <3> QED
      BY <2>1, <2>2, <2>3, <3>1, <3>2 DEF PromotersAreRight, Active, TypeOK
  <2>9. PromotionHoldsItsTeams'
    BY <1>2, <1>3, <2>8 DEF PromotionHoldsItsTeams, PromotersAreRight
  <2> QED
    BY <2>4, <2>5, <2>6, <2>7, <2>8, <2>9
<1>5. CASE CommitJoin(w)
  <2>1. t \in Teams /\ size[t] < MaxSize
    BY <1>1, <1>5, TransactionShapes DEF CommitJoin, DecidersAreRight
  <2>2. size' \in [Teams -> 0..SizeBound] /\ status' = status /\ line' = line /\ payment' = payment
    BY <1>5, <2>1, SettingsAssumption DEF CommitJoin, TypeOK
  <2>3. TypeOK'
    BY <1>3, <1>5, <2>2 DEF CommitJoin, TypeOK
  <2>4. PaymentMatchesTeam' /\ RowsAgree'
    BY <2>2 DEF PaymentMatchesTeam, RowsAgree, Waitlisted
  <2>5. DecidersAreRight'
    <3>1. \A v \in Workers \ {w} : busy'[v] = busy[v] /\ busy'[v].step \notin {"PLACING", "JOINING"}
      BY <1>3, <1>5 DEF CommitJoin, DecidersAreRight
    <3> QED
      BY <1>2, <1>3, <3>1 DEF DecidersAreRight
  <2>6. PromotersAreRight'
    BY <1>2, <1>3, <2>2 DEF PromotersAreRight, Active, Waitlisted
  <2>7. PromotionHoldsItsTeams'
    BY <1>2, <1>3, <2>6 DEF PromotionHoldsItsTeams, PromotersAreRight
  <2> QED
    BY <2>3, <2>4, <2>5, <2>6, <2>7
<1>6. CASE SaveSettings(w)
  <2>1. status' = status /\ size' = size /\ line' = line /\ payment' = payment /\ headless' = headless
    BY <1>6 DEF SaveSettings, teamRows
  <2>2. settings' \in Settings
    BY <1>1, <1>6, TransactionShapes DEF SaveSettings
  <2>3. TypeOK'
    BY <1>3, <2>1, <2>2 DEF TypeOK
  <2>4. PaymentMatchesTeam' /\ RowsAgree'
    BY <2>1 DEF PaymentMatchesTeam, RowsAgree, Waitlisted
  <2>5. DecidersAreRight'
    BY <1>2, <1>3, <2>1 DEF DecidersAreRight
  <2>6. PromotersAreRight'
    BY <1>2, <1>3, <2>1 DEF PromotersAreRight, Active, Waitlisted
  <2>7. PromotionHoldsItsTeams'
    BY <1>2, <1>3, <2>6 DEF PromotionHoldsItsTeams, PromotersAreRight
  <2> QED
    BY <2>3, <2>4, <2>5, <2>6, <2>7
<1>7. CASE CommitPromotion(w)
  <2>1. /\ status' = status /\ size' = size /\ payment' = payment /\ headless' = headless
        /\ settings' = settings
        /\ line' \subseteq line
        /\ \A u : Waitlisted(u)' <=> Waitlisted(u) /\ u \notin busy[w].chosen
    BY <1>7, UnqueuedKeepsOthers DEF CommitPromotion, Unqueued
  <2>2. TypeOK'
    BY <1>3, <2>1 DEF TypeOK
  <2>3. PaymentMatchesTeam' /\ RowsAgree'
    BY <2>1 DEF PaymentMatchesTeam, RowsAgree
  <2>4. DecidersAreRight'
    BY <1>2, <1>3, <2>1 DEF DecidersAreRight
  <2>5. PromotersAreRight'
    <3> SUFFICES ASSUME NEW v \in Workers, busy'[v].step = "PROMOTING"
                 PROVE  /\ busy'[v].left \subseteq busy'[v].held
                        /\ busy'[v].chosen \subseteq busy'[v].held
                        /\ \A u \in busy'[v].held : Active(u)' /\ Waitlisted(u)'
      BY DEF PromotersAreRight
    <3>1. busy'[v] = busy[v] /\ v # w
      BY <1>2, <1>3
    <3>2. busy[v].held \cap busy[w].chosen = {}
      BY <1>7, <3>1 DEF CommitPromotion, PromotionHoldsItsTeams, PromotersAreRight
    <3> QED
      BY <2>1, <3>1, <3>2 DEF PromotersAreRight, Active
  <2>6. PromotionHoldsItsTeams'
    BY <1>2, <1>3, <2>5 DEF PromotionHoldsItsTeams, PromotersAreRight
  <2> QED
    BY <2>2, <2>3, <2>4, <2>5, <2>6
<1> QED
  BY <1>4, <1>5, <1>6, <1>7

LEMMA StepsKeepLocks == LocksInv /\ [Next]_vars => LocksInv'
<1> SUFFICES ASSUME LocksInv, [Next]_vars PROVE LocksInv'
  OBVIOUS
<1>1. ASSUME NEW w \in Workers, NEW t \in Teams, Request(w, t) \/ TeamStep(t)
      PROVE  LocksInv'
  <2>1. CASE CreateTeam(w, t) \/ VerifyPayment(w, t) \/ JoinTeam(w, t)
    BY <2>1, ReadsKeepLocks DEF CreateTeam, VerifyPayment, JoinTeam
  <2> QED
    BY <1>1, <2>1, RequestsKeepLocks DEF Request
<1>2. ASSUME NEW w \in Workers, NEW s \in Settings, EditSettings(w, s)
      PROVE  LocksInv'
  BY <1>2, ReadsKeepLocks DEF EditSettings
<1>3. ASSUME NEW w \in Workers, Continue(w) \/ LosePromotion(w)
      PROVE  LocksInv'
  <2>1. CASE StartPromotion(w) \/ ConsiderNext(w) \/ LosePromotion(w)
    BY <2>1, ReadsKeepLocks DEF StartPromotion, ConsiderNext, LosePromotion
  <2> QED
    BY <1>3, <2>1, CommitsKeepLocks DEF Continue
<1>4. CASE UNCHANGED vars
  BY <1>4 DEF LocksInv, TypeOK, PaymentMatchesTeam, PromotionHoldsItsTeams, RowsAgree,
              DecidersAreRight, PromotersAreRight, Waitlisted, Active, vars, teamRows
<1> QED
  BY <1>1, <1>2, <1>3, <1>4 DEF Next

LEMMA LocksInvariant == Spec => []LocksInv
BY InitLocks, StepsKeepLocks, PTL DEF Spec

\* Every column keeps its type, and every request in flight what it carries
\* (registration.py, payments.py and WaitlistService).
THEOREM TypeCorrect == Spec => []TypeOK
BY LocksInvariant, PTL DEF LocksInv

\* With any number of requests at a time, only an organizer's addition takes a team
\* beyond max_team_size: _admit counts the members with the team locked, and the
\* lock is kept until the new member is there.
THEOREM SizesStayWithinCap == Spec => SizesWithinCap
<1> DEFINE Capped(t) == size'[t] > size[t] /\ size'[t] > MaxSize => AdminAddMember(t)
<1>1. LocksInv /\ [Next]_vars => [\A t \in Teams : Capped(t)]_vars
  <2> SUFFICES ASSUME LocksInv, Next, NEW t \in Teams, size'[t] > size[t], size'[t] > MaxSize
               PROVE  AdminAddMember(t)
    OBVIOUS
  <2> USE DEF LocksInv
  <2>1. /\ size \in [Teams -> 0..SizeBound]
        /\ MaxSize \in Nat \ {0}
        /\ \A w \in Workers : busy[w] \in Transactions
    BY SettingsAssumption DEF TypeOK
  <2>2. ASSUME NEW w \in Workers, CommitPlace(w) \/ CommitJoin(w)
        PROVE  FALSE
    <3>1. busy[w].team \in Teams
      BY <2>1, <2>2, TransactionShapes DEF CommitPlace, CommitJoin
    <3> QED
      BY <2>1, <2>2, <3>1 DEF CommitPlace, CommitJoin, DecidersAreRight
  <2>3. ASSUME NEW u \in Teams, NEW w \in Workers,
               \/ CreatePaidTeam(u) \/ AdminCreateTeam(u) \/ RejectPayment(u) \/ ReopenPayment(u)
               \/ RemovePayment(u) \/ CancelPending(u) \/ Request(w, u)
        PROVE  FALSE
    BY <2>1, <2>3
    DEF CreatePaidTeam, AdminCreateTeam, RejectPayment, ReopenPayment, RemovePayment, CancelPending,
        EraseTeam, Request, CreateTeam, VerifyPayment, JoinTeam, MemberLeaves, WithdrawTeam,
        AdminSetStatus, DeleteTeam, teamRows
  <2>4. ASSUME NEW u \in Teams, AdminAddMember(u)
        PROVE  AdminAddMember(t)
    <3>1. size' = [size EXCEPT ![u] = @ + 1]
      BY <2>4 DEF AdminAddMember
    <3>2. t = u
      BY <2>1, <3>1
    <3> QED
      BY <2>4, <3>2
  <2>5. ASSUME NEW w \in Workers,
               \/ \E s \in Settings : EditSettings(w, s)
               \/ SaveSettings(w) \/ StartPromotion(w) \/ ConsiderNext(w) \/ CommitPromotion(w)
               \/ LosePromotion(w)
        PROVE  FALSE
    <3>1. size' = size
      BY <2>5 DEF EditSettings, SaveSettings, StartPromotion, ConsiderNext, CommitPromotion,
                  LosePromotion, teamRows
    <3> QED
      BY <2>1, <3>1
  <2> QED
    BY <2>2, <2>3, <2>4, <2>5 DEF Next, Continue, TeamStep
<1> QED
  BY <1>1, LocksInvariant, PTL DEF Spec, SizesWithinCap

\* A payment is pending, rejected, verified or closed exactly as its team is: the
\* reviews of payments.py, whatever else is decided about the team meanwhile.
THEOREM PaymentsMatchTeams == Spec => []PaymentMatchesTeam
BY LocksInvariant, PTL DEF LocksInv

\* With any number of requests at a time, no two promotions hold the same team, and
\* a promotion places teams that still wait: WaitlistService.promote locks the
\* waiting teams, though not the hackathon.
THEOREM PromotionsHoldTheirTeams == Spec => []PromotionHoldsItsTeams
BY LocksInvariant, PTL DEF LocksInv

-----------------------------------------------------------------------------
(* Requests one at a time: what a transaction has read is still true when it *)
(* commits.                                                                  *)

OneRequest == \A v, w \in Workers : v = w

WithinTeams(teams)  == settings.cap > 0 => Cardinality(teams) <= settings.cap
WithinPeople(teams) == MaxPeople > 0 => People(teams) <= MaxPeople

\* The queue is an order of the teams that wait.
QueueIsOrder ==
    \A t, u \in Teams :
        <<t, u>> \in line =>
            /\ Waitlisted(t) /\ Waitlisted(u)
            /\ <<u, t>> \in line => t = u

\* A place is given, and promised, within the limits.
PlacesAreFree ==
    \A w \in Workers :
        /\ busy[w].step \in {"DUE", "PROMOTING"} => busy[w].settings = settings
        /\ busy[w].step = "PLACING" => busy[w].waits \/ ~Full
        /\ busy[w].step = "JOINING" =>
              Waitlisted(busy[w].team) \/ ~PeopleWouldExceed(Placed, 1)
        /\ busy[w].step = "PROMOTING" /\ busy[w].chosen # {} =>
              WithinTeams(Placed \cup busy[w].chosen) /\ WithinPeople(Placed \cup busy[w].chosen)

\* A promotion has looked at the whole queue in its order: who was passed over is
\* bigger than everybody chosen after.
PromotionsFollowQueue ==
    \A w \in Workers :
        busy[w].step = "PROMOTING" =>
            /\ busy[w].held = Queue
            /\ \A t \in busy[w].left, u \in busy[w].chosen : <<t, u>> \notin line
            /\ busy[w].left # {} =>
                  \A t \in busy[w].held \ (busy[w].left \cup busy[w].chosen) :
                      PeopleWouldExceed(Placed \cup busy[w].chosen, size[t])
            /\ \A t \in busy[w].held \ busy[w].chosen, u \in busy[w].chosen :
                  <<t, u>> \in line => size[u] < size[t]

SerialInv ==
    /\ LocksInv
    /\ QueueIsOrder
    /\ PlacesAreFree
    /\ PromotionsFollowQueue

-----------------------------------------------------------------------------
(* Lemmas about the people counted. *)

\* Sets of teams and of members are finite.
LEMMA FiniteRows ==
    ASSUME TypeOK, NEW teams \in SUBSET Teams
    PROVE  /\ IsFiniteSet(teams) /\ Cardinality(teams) \in Nat
           /\ IsFiniteSet(Members(teams)) /\ People(teams) \in Nat
<1>1. IsFiniteSet(teams) /\ Cardinality(teams) \in Nat
  BY TeamsAssumption, FS_Subset, FS_CardinalityType
<1>2. IsFiniteSet(1..SizeBound)
  BY SettingsAssumption, FS_Interval
<1>3. IsFiniteSet(Teams \X (1..SizeBound))
  BY <1>2, TeamsAssumption, FS_Product
<1>4. IsFiniteSet(Members(teams))
  BY <1>3, FS_Subset DEF Members
<1> QED
  BY <1>1, <1>4, FS_CardinalityType DEF People

\* More teams, no fewer people.
LEMMA PeopleMonotone ==
    ASSUME TypeOK, NEW more \in SUBSET Teams, NEW teams \in SUBSET more
    PROVE  People(teams) <= People(more)
<1>1. Members(teams) \subseteq Members(more)
  BY DEF Members
<1> QED
  BY <1>1, FiniteRows, FS_Subset DEF People

\* Whoever is too many for some teams is too many for more teams.
LEMMA ExceedMonotone ==
    ASSUME TypeOK, NEW more \in SUBSET Teams, NEW teams \in SUBSET more, NEW extra \in Nat,
           PeopleWouldExceed(teams, extra)
    PROVE  PeopleWouldExceed(more, extra)
<1>1. People(teams) <= People(more) /\ People(teams) \in Nat /\ People(more) \in Nat
  BY PeopleMonotone, FiniteRows
<1> QED
  BY <1>1, SettingsAssumption DEF PeopleWouldExceed

\* One more element, at most one more to count.
LEMMA OneMore ==
    ASSUME NEW S, IsFiniteSet(S), NEW x
    PROVE  Cardinality(S \cup {x}) \in Nat /\ Cardinality(S \cup {x}) <= Cardinality(S) + 1
<1>1. Cardinality(S) \in Nat
  BY FS_CardinalityType
<1> QED
  BY <1>1, FS_AddElement

\* One more team brings at most its members.
LEMMA PeopleOfOneMore ==
    ASSUME TypeOK, NEW teams \in SUBSET Teams, NEW t \in Teams
    PROVE  People(teams \cup {t}) <= People(teams) + size[t]
<1> DEFINE mine == {t} \X (1..size[t])
<1>1. size[t] \in Nat
  BY SettingsAssumption DEF TypeOK
<1>2. IsFiniteSet(mine) /\ Cardinality(mine) = size[t]
  <2>1. IsFiniteSet(1..size[t]) /\ Cardinality(1..size[t]) = size[t]
    BY <1>1, FS_Interval
  <2>2. IsFiniteSet({t}) /\ Cardinality({t}) = 1
    BY FS_Singleton
  <2>3. IsFiniteSet(mine) /\ Cardinality(mine) = Cardinality({t}) * Cardinality(1..size[t])
    BY <2>1, <2>2, FS_Product
  <2> QED
    BY <1>1, <2>1, <2>2, <2>3
<1>3. Members(teams \cup {t}) \subseteq Members(teams) \cup mine
  BY SettingsAssumption DEF Members, TypeOK
<1>4. IsFiniteSet(Members(teams)) /\ People(teams) \in Nat /\ People(teams \cup {t}) \in Nat
  BY FiniteRows
<1>5. /\ IsFiniteSet(Members(teams) \cup mine)
      /\ Cardinality(Members(teams) \cup mine) =
           Cardinality(Members(teams)) + Cardinality(mine) - Cardinality(Members(teams) \cap mine)
  BY <1>2, <1>4, FS_Union
<1>6. Cardinality(Members(teams) \cap mine) \in Nat
  BY <1>2, FS_Subset, FS_CardinalityType
<1>7. People(teams \cup {t}) <= Cardinality(Members(teams) \cup mine)
  BY <1>3, <1>5, FS_Subset DEF People
<1> QED
  BY <1>1, <1>2, <1>4, <1>5, <1>6, <1>7 DEF People

\* Over a step, what is added to the placed teams' members bounds their number.
LEMMA PeopleGrowBy ==
    ASSUME TypeOK, NEW more, IsFiniteSet(more), Members(Placed)' \subseteq Members(Placed) \cup more
    PROVE  People(Placed)' <= People(Placed) + Cardinality(more)
<1>1. IsFiniteSet(Members(Placed)) /\ Cardinality(Members(Placed)) \in Nat
  BY FiniteRows DEF Placed, People
<1>2. /\ IsFiniteSet(Members(Placed) \cup more)
      /\ Cardinality(Members(Placed) \cup more) =
           Cardinality(Members(Placed)) + Cardinality(more) - Cardinality(Members(Placed) \cap more)
  BY <1>1, FS_Union
<1>3. Cardinality(Members(Placed) \cap more) \in Nat /\ Cardinality(more) \in Nat
  BY <1>1, FS_Subset, FS_CardinalityType
<1>4. Cardinality(Members(Placed)') <= Cardinality(Members(Placed) \cup more)
      /\ Cardinality(Members(Placed)') \in Nat
  BY <1>2, FS_Subset, FS_CardinalityType
<1> QED
  BY <1>1, <1>2, <1>3, <1>4 DEF People

-----------------------------------------------------------------------------
(* The serial invariant is inductive. *)

\* Joining the queue at its end, and leaving it, keep it an order.
LEMMA QueueStaysOrder ==
    ASSUME LocksInv, QueueIsOrder,
           \/ line' = line
           \/ \E gone : line' = Unqueued(gone)
           \/ \E t \in Teams : line' = Queued(t) /\ ~Waitlisted(t)
    PROVE  QueueIsOrder'
<1>1. CASE line' = line
  BY <1>1 DEF QueueIsOrder, Waitlisted
<1>2. ASSUME NEW gone, line' = Unqueued(gone)
      PROVE  QueueIsOrder'
  BY <1>2 DEF QueueIsOrder, Unqueued, Waitlisted
<1>3. ASSUME NEW t \in Teams, line' = Queued(t), ~Waitlisted(t)
      PROVE  QueueIsOrder'
  BY <1>3 DEF QueueIsOrder, Queued, Waiting, Waitlisted
<1> QED
  BY <1>1, <1>2, <1>3

\* How each step may change the queue.
LEMMA LineSteps ==
    ASSUME LocksInv, [Next]_vars
    PROVE  \/ line' = line
           \/ \E gone : line' = Unqueued(gone)
           \/ \E t \in Teams : line' = Queued(t) /\ ~Waitlisted(t)
<1>1. ASSUME NEW w \in Workers, CommitPlace(w)
      PROVE  \/ line' = line
             \/ \E t \in Teams : line' = Queued(t) /\ ~Waitlisted(t)
  <2>1. busy[w].team \in Teams /\ status[busy[w].team] \notin Decided
    BY <1>1, TransactionShapes DEF CommitPlace, LocksInv, TypeOK, DecidersAreRight, Decided
  <2> QED
    BY <1>1, <2>1 DEF CommitPlace, LocksInv, RowsAgree
<1>2. ASSUME NEW w \in Workers, NEW t \in Teams, Request(w, t) \/ TeamStep(t)
      PROVE  line' = line \/ \E gone : line' = Unqueued(gone)
  BY <1>2 DEF Request, TeamStep, CreatePaidTeam, AdminCreateTeam, RejectPayment, ReopenPayment,
         RemovePayment, CancelPending, AdminAddMember, MemberLeaves, WithdrawTeam, DeleteTeam,
         AdminSetStatus, EraseTeam, CreateTeam, VerifyPayment, JoinTeam, teamRows
<1>3. ASSUME NEW w \in Workers,
             \/ \E s \in Settings : EditSettings(w, s)
             \/ LosePromotion(w) \/ CommitJoin(w) \/ SaveSettings(w) \/ StartPromotion(w)
             \/ ConsiderNext(w) \/ CommitPromotion(w)
      PROVE  line' = line \/ \E gone : line' = Unqueued(gone)
  BY <1>3 DEF EditSettings, LosePromotion, CommitJoin, SaveSettings, StartPromotion, ConsiderNext,
         CommitPromotion, teamRows
<1>4. CASE UNCHANGED vars
  BY <1>4 DEF vars, teamRows
<1> QED
  BY <1>1, <1>2, <1>3, <1>4 DEF Next, Continue

\* A promotion that looks at its next team.
LEMMA ConsiderNextIsSerial ==
    ASSUME SerialInv, NEW w \in Workers, OneRequest, ConsiderNext(w)
    PROVE  PlacesAreFree' /\ PromotionsFollowQueue'
<1> DEFINE p == busy[w]
           taken == Placed \cup p.chosen
           q == busy'[w]
<1> USE DEF SerialInv, LocksInv
<1>1. /\ p \in Promotions /\ p.settings = settings /\ p.held = Queue
      /\ p.left \subseteq Queue /\ p.chosen \subseteq Queue
      /\ Queue \subseteq Teams /\ Placed \subseteq Teams
  BY TransactionShapes DEF ConsiderNext, TypeOK, PlacesAreFree, PromotionsFollowQueue,
                           PromotersAreRight, Queue, Waiting, Placed
<1>2. PICK t \in p.left :
          /\ Oldest(t, p.left)
          /\ busy' = [busy EXCEPT ![w] =
                IF TeamsFull(settings, taken) THEN [p EXCEPT !.left = {}]
                ELSE IF PeopleWouldExceed(taken, size[t]) THEN [p EXCEPT !.left = @ \ {t}]
                ELSE [p EXCEPT !.left = @ \ {t}, !.chosen = @ \cup {t}]]
  BY <1>1 DEF ConsiderNext
<1>3. /\ status' = status /\ size' = size /\ line' = line /\ settings' = settings
      /\ Placed' = Placed /\ Queue' = Queue
      /\ \A teams \in SUBSET Teams : People(teams)' = People(teams)
  BY DEF ConsiderNext, teamRows, Placed, Queue, Waiting, Active, Waitlisted, People, Members
<1>4. \A v \in Workers : v = w
  BY DEF OneRequest
<1>5. SUFFICES
        /\ q.step = "PROMOTING" /\ q.settings = settings /\ q.held = Queue
        /\ q.left \subseteq Teams /\ q.chosen \subseteq Teams
        /\ q.chosen # {} => WithinTeams(Placed \cup q.chosen) /\ WithinPeople(Placed \cup q.chosen)
        /\ \A x \in q.left, u \in q.chosen : <<x, u>> \notin line
        /\ q.left # {} =>
              \A x \in Queue \ (q.left \cup q.chosen) :
                  PeopleWouldExceed(Placed \cup q.chosen, size[x])
        /\ \A x \in Queue \ q.chosen, u \in q.chosen : <<x, u>> \in line => size[u] < size[x]
  <2>1. (Placed \cup busy[w].chosen)' = Placed \cup q.chosen
    BY <1>3
  <2>2. ASSUME q.chosen # {}
        PROVE  /\ WithinTeams(Placed \cup busy[w].chosen)'
               /\ WithinPeople(Placed \cup busy[w].chosen)'
    BY <1>3, <1>5, <2>1, <2>2 DEF WithinTeams, WithinPeople, People, Members
  <2>4. PlacesAreFree'
    BY <1>4, <1>3, <1>5, <2>2 DEF PlacesAreFree
  <2>3. PromotionsFollowQueue'
    BY <1>1, <1>3, <1>4, <1>5 DEF PromotionsFollowQueue, PeopleWouldExceed
  <2> QED
    BY <2>3, <2>4
<1>6. CASE TeamsFull(settings, taken)
  <2>1. q = [p EXCEPT !.left = {}]
    BY <1>2, <1>6 DEF TypeOK
  <2>2. q.left = {} /\ q.chosen = p.chosen /\ q.step = "PROMOTING" /\ q.settings = settings /\ q.held = Queue
    BY <1>1, <2>1 DEF Promotions
  <2> QED
    BY <1>1, <2>2 DEF PlacesAreFree, PromotionsFollowQueue, Promotions
<1>7. CASE ~TeamsFull(settings, taken) /\ PeopleWouldExceed(taken, size[t])
  <2>1. q = [p EXCEPT !.left = @ \ {t}]
    BY <1>2, <1>7 DEF TypeOK
  <2>2. q.left = p.left \ {t} /\ q.chosen = p.chosen /\ q.step = "PROMOTING" /\ q.settings = settings
        /\ q.held = Queue
    BY <1>1, <2>1 DEF Promotions
  <2> QED
    BY <1>1, <1>7, <2>2 DEF PlacesAreFree, PromotionsFollowQueue, Promotions
<1>8. CASE ~TeamsFull(settings, taken) /\ ~PeopleWouldExceed(taken, size[t])
  <2>1. q = [p EXCEPT !.left = @ \ {t}, !.chosen = @ \cup {t}]
    BY <1>2, <1>8 DEF TypeOK
  <2>2. q.left = p.left \ {t} /\ q.chosen = p.chosen \cup {t} /\ q.step = "PROMOTING"
        /\ q.settings = settings /\ q.held = Queue
    BY <1>1, <2>1 DEF Promotions
  <2>3. /\ taken \in SUBSET Teams /\ t \in Teams /\ t \in Queue
        /\ IsFiniteSet(taken) /\ Cardinality(taken) \in Nat /\ People(taken) \in Nat
        /\ size[t] \in Nat /\ settings.cap \in Nat
    BY <1>1, FiniteRows, SettingsAssumption DEF TypeOK
  <2>4. Placed \cup q.chosen = taken \cup {t}
    BY <2>2
  <2>5. WithinTeams(taken \cup {t})
    <3>1. Cardinality(taken \cup {t}) \in Nat /\ Cardinality(taken \cup {t}) <= Cardinality(taken) + 1
      BY <2>3, OneMore
    <3> QED
      BY <1>8, <2>3, <3>1 DEF TeamsFull, WithinTeams
  <2>6. WithinPeople(taken \cup {t})
    <3>1. People(taken \cup {t}) <= People(taken) + size[t] /\ People(taken \cup {t}) \in Nat
      BY <2>3, PeopleOfOneMore, FiniteRows
    <3> QED
      BY <1>8, <2>3, <3>1, SettingsAssumption DEF PeopleWouldExceed, WithinPeople
  <2>7. \A x \in q.left, u \in q.chosen : <<x, u>> \notin line
    <3>1. \A x \in q.left : <<x, t>> \notin line
      BY <1>1, <1>2, <2>2, <2>3 DEF Oldest, QueueIsOrder
    <3> QED
      BY <2>2, <3>1 DEF PromotionsFollowQueue, ConsiderNext
  <2>8. \A x \in Queue \ (p.left \cup p.chosen) :
           PeopleWouldExceed(taken, size[x]) /\ size[t] < size[x]
    <3> SUFFICES ASSUME NEW x \in Queue \ (p.left \cup p.chosen)
                 PROVE  PeopleWouldExceed(taken, size[x]) /\ size[t] < size[x]
      OBVIOUS
    <3>1. PeopleWouldExceed(taken, size[x])
      BY <1>1, <1>2 DEF PromotionsFollowQueue, ConsiderNext
    <3>2. size[x] \in Nat
      BY <1>1, SettingsAssumption DEF TypeOK
    <3> QED
      BY <1>8, <2>3, <3>1, <3>2, SettingsAssumption DEF PeopleWouldExceed
  <2>9. \A x \in Queue \ (q.left \cup q.chosen) : PeopleWouldExceed(taken \cup {t}, size[x])
    <3> SUFFICES ASSUME NEW x \in Queue \ (p.left \cup p.chosen)
                 PROVE  PeopleWouldExceed(taken \cup {t}, size[x])
      BY <2>2
    <3>1. size[x] \in Nat /\ taken \cup {t} \in SUBSET Teams
      BY <1>1, <2>3, SettingsAssumption DEF TypeOK
    <3> QED
      BY <2>8, <3>1, ExceedMonotone
  <2>10. \A x \in Queue \ q.chosen, u \in q.chosen : <<x, u>> \in line => size[u] < size[x]
    <3> SUFFICES ASSUME NEW x \in Queue \ q.chosen, NEW u \in q.chosen, <<x, u>> \in line
                 PROVE  size[u] < size[x]
      OBVIOUS
    <3>1. CASE u = t
      BY <2>2, <2>7, <2>8, <3>1
    <3>2. CASE u \in p.chosen
      BY <1>1, <2>2, <3>2 DEF PromotionsFollowQueue, ConsiderNext
    <3> QED
      BY <2>2, <3>1, <3>2
  <2> QED
    BY <1>1, <2>2, <2>3, <2>4, <2>5, <2>6, <2>7, <2>9, <2>10
<1> QED
  BY <1>6, <1>7, <1>8

\* A worker that has nothing in flight has nothing to be wrong about.
LEMMA NothingInFlight ==
    ASSUME \A w \in Workers : \/ busy'[w].step \in {"IDLE", "SAVING"}
                              \/ busy'[w].step = "DUE" /\ busy'[w].settings = settings'
    PROVE  PlacesAreFree' /\ PromotionsFollowQueue'
BY DEF PlacesAreFree, PromotionsFollowQueue

LEMMA StepsAreSerial ==
    ASSUME SerialInv, OneRequest, [Next]_vars
    PROVE  SerialInv'
<1> USE DEF SerialInv
<1>1. LocksInv'
  BY StepsKeepLocks
<1>2. QueueIsOrder'
  BY LineSteps, QueueStaysOrder
<1>3. busy \in [Workers -> Transactions]
  BY DEF LocksInv, TypeOK
<1>4. ASSUME NEW w \in Workers PROVE \A v \in Workers : v = w
  BY DEF OneRequest
<1>5. ASSUME NEW w \in Workers, NEW t \in Teams, busy[w] = Idle, TeamStep(t)
      PROVE  PlacesAreFree' /\ PromotionsFollowQueue'
  <2>1. busy' = busy
    BY <1>5 DEF TeamStep, CreatePaidTeam, AdminCreateTeam, RejectPayment, ReopenPayment,
                RemovePayment, CancelPending, AdminAddMember
  <2> QED
    BY <1>4, <1>5, <2>1, NothingInFlight DEF Idle
<1>6. ASSUME NEW w \in Workers, NEW t \in Teams,
             \/ MemberLeaves(w, t) \/ WithdrawTeam(w, t) \/ DeleteTeam(w, t)
             \/ \E s \in Decided : AdminSetStatus(w, t, s)
      PROVE  PlacesAreFree' /\ PromotionsFollowQueue'
  <2>1. settings' = settings /\ (busy' = [busy EXCEPT ![w] = Idle] \/ busy' = [busy EXCEPT ![w] = Due(settings)])
    BY <1>6 DEF MemberLeaves, WithdrawTeam, DeleteTeam, AdminSetStatus
  <2>2. \A v \in Workers : \/ busy'[v].step = "IDLE"
                           \/ busy'[v].step = "DUE" /\ busy'[v].settings = settings'
    BY <1>3, <1>4, <2>1 DEF Idle, Due
  <2> QED
    BY <2>2, NothingInFlight
<1>7. ASSUME NEW w \in Workers, NEW t \in Teams, CreateTeam(w, t) \/ VerifyPayment(w, t)
      PROVE  PlacesAreFree' /\ PromotionsFollowQueue'
  <2>1. busy' = [busy EXCEPT ![w] = Placing(t, Full)] /\ UNCHANGED <<teamRows, settings>>
    BY <1>7 DEF CreateTeam, VerifyPayment
  <2>2. Full' <=> Full
    BY <2>1 DEF Full, TeamsFull, PeopleWouldExceed, People, Members, Placed, Active, Waitlisted, teamRows
  <2>3. \A v \in Workers : busy'[v].step = "PLACING" /\ (busy'[v].waits = Full)
    BY <1>3, <1>4, <2>1 DEF Placing
  <2> QED
    BY <2>2, <2>3 DEF PlacesAreFree, PromotionsFollowQueue
<1>8. ASSUME NEW w \in Workers, NEW t \in Teams, JoinTeam(w, t)
      PROVE  PlacesAreFree' /\ PromotionsFollowQueue'
  <2>1. /\ busy' = [busy EXCEPT ![w] = Joining(t)]
        /\ UNCHANGED <<teamRows, settings>>
        /\ Waitlisted(t) \/ ~PeopleWouldExceed(Placed, 1)
    BY <1>8 DEF JoinTeam
  <2>2. Waitlisted(t)' \/ ~PeopleWouldExceed(Placed, 1)'
    BY <2>1 DEF PeopleWouldExceed, People, Members, Placed, Active, Waitlisted, teamRows
  <2>3. \A v \in Workers : busy'[v].step = "JOINING" /\ busy'[v].team = t
    BY <1>3, <1>4, <2>1 DEF Joining
  <2> QED
    BY <2>2, <2>3 DEF PlacesAreFree, PromotionsFollowQueue, Waitlisted
<1>9. ASSUME NEW w \in Workers, NEW s \in Settings, EditSettings(w, s)
      PROVE  PlacesAreFree' /\ PromotionsFollowQueue'
  <2>1. \A v \in Workers : busy'[v].step = "SAVING"
    BY <1>3, <1>4, <1>9 DEF EditSettings, Saving
  <2> QED
    BY <2>1, NothingInFlight
<1>10. ASSUME NEW w \in Workers, CommitPlace(w) \/ CommitJoin(w) \/ CommitPromotion(w) \/ LosePromotion(w)
       PROVE  PlacesAreFree' /\ PromotionsFollowQueue'
  <2>1. \A v \in Workers : busy'[v].step = "IDLE"
    BY <1>3, <1>4, <1>10 DEF CommitPlace, CommitJoin, CommitPromotion, LosePromotion, Idle
  <2> QED
    BY <2>1, NothingInFlight
<1>11. ASSUME NEW w \in Workers, SaveSettings(w)
       PROVE  PlacesAreFree' /\ PromotionsFollowQueue'
  <2>1. busy' = [busy EXCEPT ![w] = Idle] \/ busy' = [busy EXCEPT ![w] = Due(settings')]
    BY <1>11 DEF SaveSettings
  <2>2. \A v \in Workers : \/ busy'[v].step = "IDLE"
                           \/ busy'[v].step = "DUE" /\ busy'[v].settings = settings'
    BY <1>3, <1>4, <2>1 DEF Idle, Due
  <2> QED
    BY <2>2, NothingInFlight
<1>12. ASSUME NEW w \in Workers, StartPromotion(w)
       PROVE  PlacesAreFree' /\ PromotionsFollowQueue'
  <2>1. CASE Queue = {}
    <3>1. \A v \in Workers : busy'[v].step = "IDLE"
      BY <1>3, <1>4, <1>12, <2>1 DEF StartPromotion, Idle
    <3> QED
      BY <3>1, NothingInFlight
  <2>2. CASE Queue # {}
    <3>1. busy[w].settings = settings
      BY <1>12 DEF StartPromotion, PlacesAreFree
    <3>2. \A v \in Workers : busy'[v] = Promoting(settings, Queue, Queue, {})
      BY <1>3, <1>4, <1>12, <2>2, <3>1 DEF StartPromotion
    <3>3. \A v \in Workers : /\ busy'[v].step = "PROMOTING" /\ busy'[v].settings = settings
                             /\ busy'[v].held = Queue /\ busy'[v].left = Queue /\ busy'[v].chosen = {}
      BY <3>2 DEF Promoting
    <3>4. settings' = settings /\ Queue' = Queue
      BY <1>12 DEF StartPromotion, teamRows, Queue, Waiting, Waitlisted, Active
    <3> QED
      BY <3>3, <3>4 DEF PlacesAreFree, PromotionsFollowQueue
  <2> QED
    BY <2>1, <2>2
<1>13. ASSUME NEW w \in Workers, ConsiderNext(w)
       PROVE  PlacesAreFree' /\ PromotionsFollowQueue'
  BY <1>13, ConsiderNextIsSerial
<1>14. CASE UNCHANGED vars
  <2>1. status' = status /\ size' = size /\ line' = line /\ settings' = settings /\ busy' = busy
    BY <1>14 DEF vars, teamRows
  <2>2. Placed' = Placed /\ Queue' = Queue /\ (Full' <=> Full)
    BY <2>1 DEF Full, TeamsFull, PeopleWouldExceed, People, Members, Placed, Queue, Waiting, Active,
                Waitlisted
  <2>3. PlacesAreFree'
    BY <2>1, <2>2 DEF PlacesAreFree, WithinTeams, WithinPeople, PeopleWouldExceed, People, Members,
                      Waitlisted
  <2>4. PromotionsFollowQueue'
    BY <2>1, <2>2 DEF PromotionsFollowQueue, PeopleWouldExceed, People, Members
  <2> QED
    BY <1>1, <1>2, <2>3, <2>4
<1> QED
  BY <1>1, <1>2, <1>5, <1>6, <1>7, <1>8, <1>9, <1>10, <1>11, <1>12, <1>13, <1>14
  DEF Next, Request, Continue

LEMMA SerialInvariant == ASSUME OneRequest PROVE Spec => []SerialInv
<1>1. Init => SerialInv
  <2> SUFFICES ASSUME Init PROVE SerialInv
    OBVIOUS
  <2>1. \A w \in Workers : busy[w].step = "IDLE"
    BY DEF Init, Idle
  <2> QED
    BY <2>1, InitLocks DEF SerialInv, QueueIsOrder, PlacesAreFree, PromotionsFollowQueue, Init
<1>2. SerialInv /\ [Next]_vars => SerialInv'
  BY StepsAreSerial
<1> QED
  BY <1>1, <1>2, PTL DEF Spec

-----------------------------------------------------------------------------
(* Both limits, and the order of the queue. *)

\* A team leaves the queue for a place only when a promotion commits.
LEMMA PlacesChange ==
    ASSUME SerialInv, [Next]_vars
    PROVE  \/ \E t \in Teams : \/ AdminCreateTeam(t) \/ AdminAddMember(t)
                               \/ \E w \in Workers : AdminSetStatus(w, t, "ACTIVE")
           \/ \E w \in Workers : CommitPlace(w) \/ CommitJoin(w) \/ CommitPromotion(w)
           \/ Placed' \subseteq Placed /\ \A t \in Placed' : size'[t] <= size[t]
<1> USE DEF SerialInv, LocksInv
<1>1. \A t \in Teams : size[t] \in Int
  BY DEF TypeOK
<1>2. ASSUME NEW w \in Workers, NEW t \in Teams, Request(w, t) \/ TeamStep(t),
             ~AdminCreateTeam(t), ~AdminAddMember(t), ~AdminSetStatus(w, t, "ACTIVE")
      PROVE  Placed' \subseteq Placed /\ \A u \in Placed' : size'[u] <= size[u]
  <2>1. CASE RemovePayment(t) \/ CancelPending(t) \/ DeleteTeam(w, t)
    <3>1. /\ status' = [status EXCEPT ![t] = "DELETED"] /\ size' = [size EXCEPT ![t] = 0]
          /\ line' = Unqueued({t})
      BY <2>1 DEF RemovePayment, CancelPending, DeleteTeam, EraseTeam
    <3>2. \A u \in Teams : u \in Placed' => u # t /\ u \in Placed
      BY <3>1, UnqueuedKeepsOthers DEF Placed, Active, TypeOK
    <3> QED
      BY <1>1, <3>1, <3>2 DEF Placed, TypeOK
  <2>2. CASE CreatePaidTeam(t) \/ RejectPayment(t) \/ ReopenPayment(t)
    <3>1. line' = line /\ \E s \in PaymentStatuses : status' = [status EXCEPT ![t] = s]
      BY <2>2 DEF CreatePaidTeam, RejectPayment, ReopenPayment, PaymentStatuses
    <3>2. \A u \in Teams \ {t} : size'[u] = size[u]
      BY <2>2 DEF CreatePaidTeam, RejectPayment, ReopenPayment, TypeOK
    <3>3. \A u \in Teams : u \in Placed' => u # t /\ u \in Placed
      BY <3>1 DEF Placed, Active, TypeOK, Waitlisted, PaymentStatuses
    <3> QED
      BY <1>1, <3>2, <3>3 DEF Placed
  <2>3. CASE MemberLeaves(w, t)
    BY <1>1, <2>3 DEF MemberLeaves, Placed, Active, Waitlisted, TypeOK
  <2>4. CASE WithdrawTeam(w, t) \/ \E s \in Decided : AdminSetStatus(w, t, s)
    <3>1. line' = line /\ status' = [status EXCEPT ![t] = "OUT"] /\ \A u \in Teams \ {t} : size'[u] = size[u]
      BY <1>2, <2>4 DEF WithdrawTeam, AdminSetStatus, Decided, TypeOK
    <3>2. \A u \in Teams : u \in Placed' => u # t /\ u \in Placed
      BY <3>1 DEF Placed, Active, TypeOK, Waitlisted
    <3> QED
      BY <1>1, <3>1, <3>2 DEF Placed
  <2>5. CASE CreateTeam(w, t) \/ VerifyPayment(w, t) \/ JoinTeam(w, t)
    BY <1>1, <2>5 DEF CreateTeam, VerifyPayment, JoinTeam, teamRows, Placed, Active, Waitlisted
  <2> QED
    BY <1>2, <2>1, <2>2, <2>3, <2>4, <2>5 DEF Request, TeamStep
<1>3. ASSUME NEW w \in Workers,
             \/ \E s \in Settings : EditSettings(w, s)
             \/ LosePromotion(w) \/ SaveSettings(w) \/ StartPromotion(w) \/ ConsiderNext(w)
      PROVE  Placed' \subseteq Placed /\ \A u \in Placed' : size'[u] <= size[u]
  <2>1. status' = status /\ size' = size /\ line' = line
    BY <1>3 DEF EditSettings, LosePromotion, SaveSettings, StartPromotion, ConsiderNext, teamRows
  <2> QED
    BY <1>1, <2>1 DEF Placed, Active, Waitlisted
<1>4. CASE UNCHANGED vars
  BY <1>1, <1>4 DEF vars, teamRows, Placed, Active, Waitlisted
<1> QED
  BY <1>2, <1>3, <1>4 DEF Next, Continue

\* A new or a verified team takes a place only if it did not have to queue.
LEMMA CommittedPlaces ==
    ASSUME SerialInv, [Next]_vars, NEW w \in Workers, CommitPlace(w), NEW t, t = busy[w].team
    PROVE  /\ t \in Teams
           /\ settings' = settings
           /\ \A u \in Teams \ {t} : size'[u] = size[u]
           /\ Placed' \subseteq Placed \/ (Placed' \subseteq Placed \cup {t} /\ ~Full)
           /\ size'[t] = IF status[t] = "ABSENT" THEN 1 ELSE size[t]
<1> USE DEF SerialInv, LocksInv
<1>1. t \in Teams /\ busy[w].waits \in BOOLEAN
  BY TransactionShapes DEF CommitPlace, TypeOK
<1>2. /\ status' = [status EXCEPT ![t] = "ACTIVE"]
      /\ size' = [size EXCEPT ![t] = IF status[t] = "ABSENT" THEN 1 ELSE @]
      /\ line' = IF busy[w].waits THEN Queued(t) ELSE line
      /\ settings' = settings
  BY DEF CommitPlace
<1>3. \A u : Waitlisted(u)' <=> Waitlisted(u) \/ (u = t /\ busy[w].waits)
  BY <1>1, <1>2, QueuedAddsOne DEF Waitlisted
<1>4. Placed' \subseteq Placed \cup {t} /\ (busy[w].waits => Placed' \subseteq Placed)
  BY <1>1, <1>2, <1>3 DEF Placed, Active, TypeOK
<1>5. ~busy[w].waits => ~Full
  BY DEF CommitPlace, PlacesAreFree
<1>6. /\ \A u \in Teams \ {t} : size'[u] = size[u]
      /\ size'[t] = IF status[t] = "ABSENT" THEN 1 ELSE size[t]
  BY <1>1, <1>2 DEF TypeOK
<1>7. Placed' \subseteq Placed \/ (Placed' \subseteq Placed \cup {t} /\ ~Full)
  BY <1>4, <1>5
<1> QED
  BY <1>1, <1>2, <1>6, <1>7

\* A promotion places whom it chose.
LEMMA CommittedPromotion ==
    ASSUME SerialInv, [Next]_vars, NEW w \in Workers, CommitPromotion(w)
    PROVE  /\ Placed' = Placed \cup busy[w].chosen
           /\ busy[w].chosen \subseteq Teams
           /\ status' = status /\ size' = size /\ settings' = settings
           /\ \A t : Waitlisted(t)' <=> Waitlisted(t) /\ t \notin busy[w].chosen
           /\ busy[w].step = "PROMOTING"
<1> USE DEF SerialInv, LocksInv
<1>1. /\ status' = status /\ size' = size /\ settings' = settings /\ busy[w].step = "PROMOTING"
      /\ \A t : Waitlisted(t)' <=> Waitlisted(t) /\ t \notin busy[w].chosen
  BY UnqueuedKeepsOthers DEF CommitPromotion
<1>2. busy[w].chosen \subseteq Teams /\ \A t \in busy[w].chosen : Active(t) /\ Waitlisted(t)
  BY <1>1, TransactionShapes DEF TypeOK, Promotions, PromotersAreRight
<1> QED
  BY <1>1, <1>2 DEF Placed, Active

LEMMA TeamsStayWithinCap ==
    ASSUME SerialInv, [Next]_vars, ~(Placed' \subseteq Placed), settings.cap > 0,
           Cardinality(Placed') > settings.cap
    PROVE  \E t \in Teams : \/ AdminCreateTeam(t)
                            \/ \E w \in Workers : AdminSetStatus(w, t, "ACTIVE")
<1> USE DEF SerialInv, LocksInv
<1>1. /\ Placed \subseteq Teams /\ IsFiniteSet(Placed) /\ Cardinality(Placed) \in Nat
      /\ settings.cap \in Nat
  BY FiniteRows, SettingsAssumption DEF Placed, TypeOK
<1>2. ASSUME NEW w \in Workers, CommitPlace(w) PROVE FALSE
  <2> DEFINE t == busy[w].team
  <2>1. Placed' \subseteq Placed \cup {t} /\ t \in Teams /\ ~Full
    BY <1>2, CommittedPlaces
  <2>2. Cardinality(Placed) < settings.cap
    BY <1>1, <2>1 DEF Full, TeamsFull
  <2>3. /\ IsFiniteSet(Placed \cup {t})
        /\ Cardinality(Placed \cup {t}) \in Nat
        /\ Cardinality(Placed \cup {t}) <= Cardinality(Placed) + 1
    BY <1>1, OneMore, FS_AddElement
  <2>4. Cardinality(Placed') <= Cardinality(Placed \cup {t}) /\ Cardinality(Placed') \in Nat
    BY <2>1, <2>3, FS_Subset, FS_CardinalityType
  <2> QED
    BY <1>1, <2>2, <2>3, <2>4
<1>3. ASSUME NEW w \in Workers, CommitPromotion(w) PROVE FALSE
  <2>1. Placed' = Placed \cup busy[w].chosen /\ busy[w].chosen # {} /\ busy[w].step = "PROMOTING"
        /\ busy[w].chosen \subseteq Teams
    BY <1>3, CommittedPromotion
  <2>2. Cardinality(Placed') <= settings.cap
    BY <2>1 DEF PlacesAreFree, WithinTeams
  <2>3. Cardinality(Placed') \in Nat
    BY <1>1, <2>1, FiniteRows
  <2> QED
    BY <1>1, <2>2, <2>3
<1>4. ASSUME NEW t \in Teams, AdminAddMember(t) PROVE FALSE
  BY <1>4 DEF AdminAddMember, Placed, Active, Waitlisted
<1>5. ASSUME NEW w \in Workers, CommitJoin(w) PROVE FALSE
  BY <1>5 DEF CommitJoin, Placed, Active, Waitlisted
<1> QED
  BY <1>2, <1>3, <1>4, <1>5, PlacesChange

LEMMA PeopleStayWithinCap ==
    ASSUME SerialInv, [Next]_vars, MaxPeople > 0,
           People(Placed)' > People(Placed), People(Placed)' > MaxPeople
    PROVE  \E t \in Teams : \/ AdminCreateTeam(t)
                            \/ AdminAddMember(t)
                            \/ \E w \in Workers : \/ AdminSetStatus(w, t, "ACTIVE")
                                                  \/ (size[t] > 1 /\ CommitPlace(w))
<1> USE DEF SerialInv, LocksInv
<1>0. TypeOK'
  BY StepsKeepLocks
<1>1. /\ IsFiniteSet(Members(Placed)) /\ People(Placed) \in Nat /\ People(Placed)' \in Nat
      /\ MaxPeople \in Nat
      /\ \A t \in Teams : size[t] \in Nat /\ size'[t] \in Nat /\ size'[t] <= SizeBound
  <2>1. Placed' \subseteq Teams
    BY DEF Placed
  <2>2. IsFiniteSet(1..SizeBound)
    BY SettingsAssumption, FS_Interval
  <2>3. IsFiniteSet(Teams \X (1..SizeBound))
    BY <2>2, TeamsAssumption, FS_Product
  <2>4. IsFiniteSet(Members(Placed)')
    BY <2>3, FS_Subset DEF Members
  <2>5. People(Placed)' \in Nat
    BY <2>4, FS_CardinalityType DEF People
  <2> QED
    BY <1>0, <2>5, FiniteRows, SettingsAssumption DEF Placed, TypeOK
<1>2. ~(Members(Placed)' \subseteq Members(Placed))
  BY <1>1, FS_Subset DEF People
<1>3. ASSUME NEW t \in Teams, NEW n \in Nat,
             Members(Placed)' \subseteq Members(Placed) \cup ({t} \X {n})
      PROVE  PeopleWouldExceed(Placed, 1)
  <2>1. IsFiniteSet({<<t, n>>}) /\ Cardinality({<<t, n>>}) = 1
    BY FS_Singleton
  <2>2. Members(Placed)' \subseteq Members(Placed) \cup {<<t, n>>}
    BY <1>3
  <2>3. People(Placed)' <= People(Placed) + 1
    BY <2>1, <2>2, PeopleGrowBy
  <2> QED
    BY <1>1, <2>3 DEF PeopleWouldExceed
<1>4. ASSUME NEW w \in Workers, CommitPlace(w)
      PROVE  \E t \in Teams : size[t] > 1 /\ CommitPlace(w)
  <2> DEFINE t == busy[w].team
  <2>1. /\ t \in Teams
        /\ \A u \in Teams \ {t} : size'[u] = size[u]
        /\ Placed' \subseteq Placed \/ (Placed' \subseteq Placed \cup {t} /\ ~Full)
        /\ size'[t] = IF status[t] = "ABSENT" THEN 1 ELSE size[t]
    BY <1>4, CommittedPlaces
  <2>2. t \notin Placed
    BY <1>4 DEF CommitPlace, DecidersAreRight, Placed, Active
  <2>3. ~(Placed' \subseteq Placed)
    BY <1>2, <2>1, <2>2 DEF Members, Placed
  <2>4. SUFFICES ASSUME size'[t] <= 1 PROVE FALSE
    BY <1>1, <1>4, <2>1
  <2>5. Members(Placed)' \subseteq Members(Placed) \cup ({t} \X {1})
    BY <1>1, <2>1, <2>4 DEF Members, Placed
  <2> QED
    BY <1>3, <2>1, <2>3, <2>5 DEF Full
<1>5. ASSUME NEW w \in Workers, CommitJoin(w) PROVE FALSE
  <2> DEFINE t == busy[w].team
  <2>1. /\ t \in Teams /\ busy[w].step = "JOINING"
        /\ size' = [size EXCEPT ![t] = @ + 1]
        /\ Placed' = Placed
    BY <1>5, TransactionShapes DEF CommitJoin, TypeOK, Placed, Active, Waitlisted
  <2>2. CASE t \notin Placed
    BY <1>2, <2>1, <2>2 DEF Members, TypeOK, Placed
  <2>3. CASE t \in Placed
    <3>1. Members(Placed)' \subseteq Members(Placed) \cup ({t} \X {size[t] + 1})
      BY <1>1, <2>1 DEF Members, TypeOK, Placed
    <3>2. PeopleWouldExceed(Placed, 1)
      BY <1>1, <1>3, <2>1, <3>1
    <3> QED
      BY <2>1, <2>3, <3>2 DEF PlacesAreFree, Placed
  <2> QED
    BY <2>2, <2>3
<1>6. ASSUME NEW w \in Workers, CommitPromotion(w) PROVE FALSE
  <2>1. /\ Placed' = Placed \cup busy[w].chosen /\ busy[w].step = "PROMOTING"
        /\ size' = size
    BY <1>6, CommittedPromotion
  <2>2. busy[w].chosen # {}
    BY <1>2, <2>1 DEF Members
  <2>3. People(Placed \cup busy[w].chosen) <= MaxPeople
    BY <2>1, <2>2 DEF PlacesAreFree, WithinPeople
  <2>4. People(Placed)' = People(Placed \cup busy[w].chosen)
    BY <2>1 DEF People, Members
  <2> QED
    BY <1>1, <2>3, <2>4
<1>7. CASE Placed' \subseteq Placed /\ \A t \in Placed' : size'[t] <= size[t]
  BY <1>1, <1>2, <1>7 DEF Members, Placed
<1> QED
  BY <1>4, <1>5, <1>6, <1>7, PlacesChange

\* Handled one at a time, whatever requests come and whichever promotions are
\* lost, no request places a team beyond max_teams or people beyond
\* max_participants, or a team beyond max_team_size: registration.py is asked
\* before every place that is given, _admit counts the team, and only an organizer,
\* or for max_participants a verified team of several people, passes them.
THEOREM PlacesStayWithinCaps == ASSUME OneRequest PROVE Spec => PlacesWithinCaps
<1>1. SerialInv /\ [Next]_vars =>
        [~(Placed' \subseteq Placed) /\ settings.cap > 0 /\ Cardinality(Placed') > settings.cap
         => \E t \in Teams : \/ AdminCreateTeam(t)
                             \/ \E w \in Workers : AdminSetStatus(w, t, "ACTIVE")]_vars
  BY TeamsStayWithinCap
<1>2. SerialInv /\ [Next]_vars =>
        [MaxPeople > 0 /\ People(Placed)' > People(Placed) /\ People(Placed)' > MaxPeople
         => \E t \in Teams : \/ AdminCreateTeam(t)
                             \/ AdminAddMember(t)
                             \/ \E w \in Workers : \/ AdminSetStatus(w, t, "ACTIVE")
                                                   \/ (size[t] > 1 /\ CommitPlace(w))]_vars
  BY PeopleStayWithinCap
<1>3. Spec => TeamsWithinCap
  BY <1>1, SerialInvariant, PTL DEF Spec, TeamsWithinCap
<1>4. Spec => PeopleWithinCap
  BY <1>2, SerialInvariant, PTL DEF Spec, PeopleWithinCap
<1> QED
  BY <1>3, <1>4, SizesStayWithinCap DEF PlacesWithinCaps

\* Handled one at a time, a promotion passes over an older waiting team only for
\* its size: WaitlistService.promote goes through the whole queue in its order.
THEOREM OldestGoFirst == ASSUME OneRequest PROVE Spec => OldestFirst
<1>1. ASSUME SerialInv, [Next]_vars, NEW t \in Teams, NEW u \in Teams, t # u, <<t, u>> \in line,
             Active(t), Waitlisted(t)', ~Waitlisted(u)', status'[u] = "ACTIVE"
      PROVE  size[u] < size[t]
  <2> USE DEF SerialInv, LocksInv
  <2>1. Waitlisted(t) /\ Waitlisted(u)
    BY <1>1 DEF QueueIsOrder
  <2>2. PICK w \in Workers : CommitPromotion(w)
    <3>1. ASSUME NEW w \in Workers, NEW x \in Teams, Request(w, x) \/ TeamStep(x)
          PROVE  FALSE
      <4>1. CASE RemovePayment(x) \/ CancelPending(x) \/ DeleteTeam(w, x)
        <5>1. status' = [status EXCEPT ![x] = "DELETED"] /\ line' = Unqueued({x})
          BY <4>1 DEF RemovePayment, CancelPending, DeleteTeam, EraseTeam
        <5>2. u = x
          BY <1>1, <2>1, <5>1, UnqueuedKeepsOthers
        <5> QED
          BY <1>1, <5>1, <5>2 DEF TypeOK
      <4>2. CASE line' = line
        BY <1>1, <2>1, <4>2 DEF Waitlisted
      <4> QED
        BY <3>1, <4>1, <4>2
           DEF Request, TeamStep, CreatePaidTeam, AdminCreateTeam, RejectPayment, ReopenPayment,
               AdminAddMember, MemberLeaves, WithdrawTeam, AdminSetStatus, CreateTeam, VerifyPayment,
               JoinTeam, teamRows
    <3>2. ASSUME NEW w \in Workers,
                 \/ \E s \in Settings : EditSettings(w, s)
                 \/ LosePromotion(w) \/ CommitJoin(w) \/ SaveSettings(w) \/ StartPromotion(w)
                 \/ ConsiderNext(w)
          PROVE  FALSE
      <4>1. line' = line
        BY <3>2 DEF EditSettings, LosePromotion, CommitJoin, SaveSettings, StartPromotion,
                    ConsiderNext, teamRows
      <4> QED
        BY <1>1, <2>1, <4>1 DEF Waitlisted
    <3>3. ASSUME NEW w \in Workers, CommitPlace(w)
          PROVE  FALSE
      BY <1>1, <2>1, <3>3, QueuedAddsOne DEF CommitPlace, Waitlisted, Queued
    <3>4. ~UNCHANGED vars
      BY <1>1, <2>1 DEF vars, teamRows, Waitlisted
    <3> QED
      BY <1>1, <3>1, <3>2, <3>3, <3>4 DEF Next, Continue
  <2>3. u \in busy[w].chosen /\ t \notin busy[w].chosen /\ busy[w].step = "PROMOTING"
    BY <1>1, <2>1, <2>2, CommittedPromotion
  <2>4. t \in busy[w].held
    BY <1>1, <2>1, <2>3 DEF PromotionsFollowQueue, Queue, Waiting
  <2> QED
    BY <1>1, <2>3, <2>4 DEF PromotionsFollowQueue
<1>2. SerialInv /\ [Next]_vars =>
        [\A t, u \in Teams :
            /\ t # u
            /\ <<t, u>> \in line
            /\ Active(t)
            /\ Waitlisted(t)'
            /\ ~Waitlisted(u)'
            /\ status'[u] = "ACTIVE"
            => PeopleWouldExceed(Placed, size[t]) \/ size[u] < size[t]]_vars
  BY <1>1
<1> QED
  BY <1>2, SerialInvariant, PTL DEF Spec, OldestFirst

\* Handled one at a time, places are given within the limits, except by an
\* organizer's hand, and to waiting teams in the order in which they came, except
\* past those too big (registration.py, WaitlistService.promote).
THEOREM PlacesGoFairly == ASSUME OneRequest PROVE Spec => PlacesAreFair
<1> QED
  BY PlacesStayWithinCaps, OldestGoFirst DEF PlacesAreFair

-----------------------------------------------------------------------------
(* Requests one at a time give places as module Places does. *)

\* The chosen teams before t have their places: what is taken when t's turn comes.
TakenBefore(t, chosen) == Placed \cup {u \in chosen \ {t} : <<u, t>> \in line}

\* What a request has found out is what it would find at its commit, and a promotion
\* has decided about the front of the queue, each team by what was taken before it.
CommitsAreDecided ==
    \A w \in Workers :
        /\ busy[w].step = "PLACING" => /\ busy[w].waits <=> Full
                                       /\ Full => settings.queueing
        /\ busy[w].step = "SAVING" => \/ busy[w].settings.cap \in {settings.cap, 0}
                                      \/ busy[w].settings.cap >= Cardinality(Placed)
        /\ busy[w].step = "PROMOTING" =>
              /\ \A t \in busy[w].left, u \in busy[w].held \ busy[w].left : <<u, t>> \in line
              /\ \A t \in busy[w].held \ busy[w].left :
                    t \in busy[w].chosen <=>
                        /\ ~TeamsFull(settings, TakenBefore(t, busy[w].chosen))
                        /\ ~PeopleWouldExceed(TakenBefore(t, busy[w].chosen), size[t])

\* Module Places' variables.
Running == {t \in Teams : Active(t)}
Sizes   == [t \in Teams |-> IF Active(t) THEN size[t] ELSE 0]

\* Both modules count the same places and people.
LEMMA DeskView ==
    ASSUME TypeOK
    PROVE  /\ \A t : Desk!Waits(t) <=> Waitlisted(t)
           /\ Desk!Placed = Placed
           /\ Desk!Queue = Queue
           /\ \A teams : Desk!TeamsFull(teams) <=> TeamsFull(settings, teams)
           /\ \A teams \in SUBSET Running, n \in Nat :
                 Desk!TooMany(teams, n) <=> PeopleWouldExceed(teams, n)
           /\ Desk!NoRoom <=> Full
           /\ \A t : Desk!AtEnd(t) = Queued(t)
           /\ \A teams : Desk!Without(teams) = Unqueued(teams)
<1>1. \A t : Desk!Waits(t) <=> Waitlisted(t)
  BY DEF Desk!Waits, Waitlisted
<1>2. Desk!Placed = Placed /\ Placed \subseteq Running
  BY <1>1 DEF Desk!Placed, Placed, Running
<1>3. Desk!Queue = Queue
  BY <1>1 DEF Desk!Queue, Queue, Waiting
<1>0. \A S : Desk!Cardinality(S) = Cardinality(S)
  BY DEF Desk!Cardinality, Cardinality
<1>4. \A teams : Desk!TeamsFull(teams) <=> TeamsFull(settings, teams)
  BY <1>0 DEF Desk!TeamsFull, TeamsFull
<1>5. ASSUME NEW teams \in SUBSET Running PROVE Desk!People(teams) = Members(teams)
  BY DEF Desk!People, Members, Running
<1>6. \A teams \in SUBSET Running, n \in Nat :
         Desk!TooMany(teams, n) <=> PeopleWouldExceed(teams, n)
  BY <1>0, <1>5 DEF Desk!TooMany, PeopleWouldExceed, People
<1>7. Desk!NoRoom <=> Full
  BY <1>2, <1>4, <1>6 DEF Desk!NoRoom, Full
<1>8. \A t : Desk!AtEnd(t) = Queued(t)
  BY <1>1 DEF Desk!AtEnd, Queued, Waiting
<1>9. \A teams : Desk!Without(teams) = Unqueued(teams)
  BY DEF Desk!Without, Unqueued
<1> QED
  BY <1>1, <1>2, <1>3, <1>4, <1>6, <1>7, <1>8, <1>9

\* One team's row changes.
LEMMA OneRow ==
    ASSUME TypeOK, NEW t \in Teams,
           \A u \in Teams \ {t} : status'[u] = status[u] /\ size'[u] = size[u]
    PROVE  /\ Running' = IF status'[t] = "ACTIVE" THEN Running \cup {t} ELSE Running \ {t}
           /\ Sizes' = [Sizes EXCEPT ![t] = IF status'[t] = "ACTIVE" THEN size'[t] ELSE 0]
BY DEF Running, Sizes, Active


\* A promotion that looks at its next team decides about it as module Places does.
LEMMA ConsiderNextDecides ==
    ASSUME SerialInv, CommitsAreDecided, OneRequest, NEW w \in Workers, ConsiderNext(w)
    PROVE  CommitsAreDecided'
<1> DEFINE p == busy[w]
           taken == Placed \cup p.chosen
           q == busy'[w]
<1> USE DEF SerialInv, LocksInv
<1>1. /\ p \in Promotions /\ p.step = "PROMOTING" /\ p.settings = settings /\ p.held = Queue
      /\ p.left \subseteq Queue /\ p.chosen \subseteq Queue
      /\ Queue \subseteq Teams /\ Placed \subseteq Teams
  BY TransactionShapes DEF ConsiderNext, TypeOK, PlacesAreFree, PromotionsFollowQueue,
                           PromotersAreRight, Queue, Waiting, Placed
<1>2. PICK t \in p.left :
          /\ Oldest(t, p.left)
          /\ busy' = [busy EXCEPT ![w] =
                IF TeamsFull(settings, taken) THEN [p EXCEPT !.left = {}]
                ELSE IF PeopleWouldExceed(taken, size[t]) THEN [p EXCEPT !.left = @ \ {t}]
                ELSE [p EXCEPT !.left = @ \ {t}, !.chosen = @ \cup {t}]]
  BY <1>1 DEF ConsiderNext
<1>3. /\ status' = status /\ size' = size /\ line' = line /\ settings' = settings
      /\ Placed' = Placed
      /\ \A x, teams : TakenBefore(x, teams)' = TakenBefore(x, teams)
      /\ \A teams, n : PeopleWouldExceed(teams, n)' = PeopleWouldExceed(teams, n)
  BY DEF ConsiderNext, teamRows, Placed, Active, Waitlisted, PeopleWouldExceed, People, Members,
         TakenBefore
<1>4. \A v \in Workers : v = w
  BY DEF OneRequest
<1>5. /\ \A x \in p.left, u \in Queue \ p.left : <<u, x>> \in line
      /\ \A x \in Queue \ p.left : x \in p.chosen <=> /\ ~TeamsFull(settings, TakenBefore(x, p.chosen))
                                                      /\ ~PeopleWouldExceed(TakenBefore(x, p.chosen), size[x])
      /\ \A x \in p.left, u \in p.chosen : <<x, u>> \notin line
  BY <1>1 DEF CommitsAreDecided, PromotionsFollowQueue
<1>6. p.chosen \cap p.left = {}
  BY <1>1, <1>5 DEF Queue, Waiting, Waitlisted
\* All that is chosen is older than what is left.
<1>7. \A x \in p.left : TakenBefore(x, p.chosen) = taken
  BY <1>1, <1>5, <1>6 DEF TakenBefore
<1>8. SUFFICES
        /\ q.step = "PROMOTING" /\ q.held = Queue
        /\ \A x \in q.left, u \in Queue \ q.left : <<u, x>> \in line
        /\ \A x \in Queue \ q.left : x \in q.chosen <=> /\ ~TeamsFull(settings, TakenBefore(x, q.chosen))
                                                        /\ ~PeopleWouldExceed(TakenBefore(x, q.chosen), size[x])
  <2>1. \A x, teams : /\ TeamsFull(settings', TakenBefore(x, teams)') <=> TeamsFull(settings, TakenBefore(x, teams))
                      /\ PeopleWouldExceed(TakenBefore(x, teams), size[x])' <=>
                            PeopleWouldExceed(TakenBefore(x, teams), size[x])
    BY <1>3 DEF PeopleWouldExceed, People, Members
  <2> QED
    BY <1>3, <1>4, <1>8, <2>1 DEF CommitsAreDecided
<1>9. CASE TeamsFull(settings, taken)
  <2>1. q = [p EXCEPT !.left = {}]
    BY <1>2, <1>9 DEF TypeOK
  <2>2. q.left = {} /\ q.chosen = p.chosen /\ q.step = "PROMOTING" /\ q.held = Queue
    BY <1>1, <2>1 DEF Promotions
  <2>3. \A x \in p.left : x \notin p.chosen /\ TeamsFull(settings, TakenBefore(x, p.chosen))
    BY <1>6, <1>7, <1>9
  <2> QED
    BY <1>5, <2>2, <2>3
<1>10. CASE ~TeamsFull(settings, taken) /\ PeopleWouldExceed(taken, size[t])
  <2>1. q = [p EXCEPT !.left = @ \ {t}]
    BY <1>2, <1>10 DEF TypeOK
  <2>2. q.left = p.left \ {t} /\ q.chosen = p.chosen /\ q.step = "PROMOTING" /\ q.held = Queue
    BY <1>1, <2>1 DEF Promotions
  <2>3. t \notin p.chosen /\ PeopleWouldExceed(TakenBefore(t, p.chosen), size[t])
    BY <1>6, <1>7, <1>10
  <2>4. \A x \in q.left : <<t, x>> \in line
    BY <1>2, <2>2 DEF Oldest
  <2> QED
    BY <1>5, <2>2, <2>3, <2>4
<1>11. CASE ~TeamsFull(settings, taken) /\ ~PeopleWouldExceed(taken, size[t])
  <2>1. q = [p EXCEPT !.left = @ \ {t}, !.chosen = @ \cup {t}]
    BY <1>2, <1>11 DEF TypeOK
  <2>2. q.left = p.left \ {t} /\ q.chosen = p.chosen \cup {t} /\ q.step = "PROMOTING" /\ q.held = Queue
    BY <1>1, <2>1 DEF Promotions
  <2>3. TakenBefore(t, q.chosen) = taken
    <3>1. TakenBefore(t, q.chosen) = TakenBefore(t, p.chosen)
      BY <2>2 DEF TakenBefore
    <3> QED
      BY <1>7, <3>1
  <2>4. \A x \in q.left : <<t, x>> \in line
    BY <1>2, <2>2 DEF Oldest
  <2>5. ASSUME NEW x \in Queue \ p.left PROVE TakenBefore(x, q.chosen) = TakenBefore(x, p.chosen)
    <3>1. <<x, t>> \in line /\ x # t
      BY <1>5, <2>5
    <3>2. <<t, x>> \notin line
      BY <1>1, <3>1, <2>5 DEF QueueIsOrder
    <3> QED
      BY <2>2, <3>2 DEF TakenBefore
  <2>6. \A x \in Queue \ q.left : x = t \/ x \in Queue \ p.left
    BY <2>2
  <2>7. t \in Queue \ q.left /\ t \in q.chosen
    BY <1>1, <2>2
  <2> QED
    BY <1>5, <1>11, <2>2, <2>3, <2>4, <2>5, <2>6, <2>7
<1> QED
  BY <1>9, <1>10, <1>11

LEMMA CommitsStayDecided ==
    ASSUME SerialInv, CommitsAreDecided, OneRequest, [Next]_vars
    PROVE  CommitsAreDecided'
<1> USE DEF SerialInv, LocksInv
<1>1. busy \in [Workers -> Transactions]
  BY DEF TypeOK
<1>2. ASSUME NEW w \in Workers PROVE \A v \in Workers : v = w
  BY DEF OneRequest
<1>3. ASSUME \A w \in Workers : busy'[w].step \notin {"PLACING", "SAVING", "PROMOTING"}
      PROVE  CommitsAreDecided'
  BY <1>3 DEF CommitsAreDecided
<1>4. ASSUME NEW w \in Workers, NEW t \in Teams, CreateTeam(w, t) \/ VerifyPayment(w, t)
      PROVE  CommitsAreDecided'
  <2>1. /\ busy' = [busy EXCEPT ![w] = Placing(t, Full)] /\ UNCHANGED <<teamRows, settings>>
        /\ Full => settings.queueing
    BY <1>4 DEF CreateTeam, VerifyPayment
  <2>2. Full' <=> Full
    BY <2>1 DEF Full, TeamsFull, PeopleWouldExceed, People, Members, Placed, Active, Waitlisted, teamRows
  <2>3. \A v \in Workers : busy'[v].step = "PLACING" /\ (busy'[v].waits = Full)
    BY <1>1, <1>2, <2>1 DEF Placing
  <2> QED
    BY <2>1, <2>2, <2>3 DEF CommitsAreDecided
<1>5. ASSUME NEW w \in Workers, NEW s \in Settings, EditSettings(w, s)
      PROVE  CommitsAreDecided'
  <2>1. \A v \in Workers : busy'[v].step = "SAVING" /\ busy'[v].settings = s
    BY <1>1, <1>2, <1>5 DEF EditSettings, Saving
  <2>2. Placed' = Placed /\ settings' = settings
    BY <1>5 DEF EditSettings, Placed, Active, Waitlisted, teamRows
  <2> QED
    BY <1>5, <2>1, <2>2 DEF EditSettings, CommitsAreDecided
<1>6. ASSUME NEW w \in Workers, StartPromotion(w)
      PROVE  CommitsAreDecided'
  <2>1. CASE Queue = {}
    BY <1>1, <1>2, <1>3, <1>6, <2>1 DEF StartPromotion, Idle
  <2>2. CASE Queue # {}
    <3>1. \A v \in Workers : /\ busy'[v].step = "PROMOTING"
                             /\ busy'[v].held = Queue /\ busy'[v].left = Queue
      BY <1>1, <1>2, <1>6, <2>2 DEF StartPromotion, Promoting
    <3> QED
      BY <3>1 DEF CommitsAreDecided
  <2> QED
    BY <2>1, <2>2
<1>7. ASSUME NEW w \in Workers, NEW t \in Teams, busy[w] = Idle, TeamStep(t)
      PROVE  CommitsAreDecided'
  <2>1. busy' = busy
    BY <1>7 DEF TeamStep, CreatePaidTeam, AdminCreateTeam, RejectPayment, ReopenPayment,
                RemovePayment, CancelPending, AdminAddMember
  <2> QED
    BY <1>2, <1>3, <1>7, <2>1 DEF Idle
<1>8. ASSUME NEW w \in Workers, NEW t \in Teams,
             \/ JoinTeam(w, t) \/ MemberLeaves(w, t) \/ WithdrawTeam(w, t) \/ DeleteTeam(w, t)
             \/ \E s \in Decided : AdminSetStatus(w, t, s)
      PROVE  CommitsAreDecided'
  <2>1. \E x \in {Idle, Due(settings), Joining(t)} : busy' = [busy EXCEPT ![w] = x]
    BY <1>8 DEF JoinTeam, MemberLeaves, WithdrawTeam, DeleteTeam, AdminSetStatus
  <2>2. \A v \in Workers : busy'[v].step \in {"IDLE", "DUE", "JOINING"}
    BY <1>1, <1>2, <2>1 DEF Idle, Due, Joining
  <2> QED
    BY <1>3, <2>2
<1>9. ASSUME NEW w \in Workers,
             CommitPlace(w) \/ CommitJoin(w) \/ SaveSettings(w) \/ CommitPromotion(w) \/ LosePromotion(w)
      PROVE  CommitsAreDecided'
  <2>1. \E x \in {Idle, Due(busy[w].settings)} : busy' = [busy EXCEPT ![w] = x]
    BY <1>9 DEF CommitPlace, CommitJoin, SaveSettings, CommitPromotion, LosePromotion
  <2>2. \A v \in Workers : busy'[v].step \in {"IDLE", "DUE"}
    BY <1>1, <1>2, <2>1 DEF Idle, Due
  <2> QED
    BY <1>3, <2>2
<1>10. CASE UNCHANGED vars
  <2>1. status' = status /\ size' = size /\ line' = line /\ settings' = settings /\ busy' = busy
    BY <1>10 DEF vars, teamRows
  <2>2. Placed' = Placed /\ (Full' <=> Full)
    BY <2>1 DEF Full, TeamsFull, PeopleWouldExceed, People, Members, Placed, Active, Waitlisted
  <2>3. \A w \in Workers : busy[w].step = "PROMOTING" =>
            \A t \in busy[w].held \ busy[w].left :
                /\ TakenBefore(t, busy[w].chosen)' = TakenBefore(t, busy[w].chosen)
                /\ PeopleWouldExceed(TakenBefore(t, busy[w].chosen), size[t])'
                      <=> PeopleWouldExceed(TakenBefore(t, busy[w].chosen), size[t])
    BY <2>1, <2>2 DEF TakenBefore, PeopleWouldExceed, People, Members
  <2> QED
    BY <2>1, <2>2, <2>3 DEF CommitsAreDecided, TeamsFull
<1> QED
  BY <1>4, <1>5, <1>6, <1>7, <1>8, <1>9, <1>10, ConsiderNextDecides DEF Next, Request, Continue


\* Every step is one of module Places' steps, or none.
LEMMA StepsImplementPlaces ==
    ASSUME SerialInv, CommitsAreDecided, [Next]_vars
    PROVE  Desk!Next \/ UNCHANGED <<Running, Sizes, line, settings>>
<1> USE DEF SerialInv, LocksInv
<1>1. /\ busy \in [Workers -> Transactions]
      /\ Running \subseteq Teams /\ Placed \subseteq Running /\ Queue \subseteq Running
      /\ \A t \in Teams : t \in Running <=> Active(t)
      /\ \A t \in Teams : size[t] \in 0..SizeBound /\ size'[t] \in 0..SizeBound
      /\ \A t \in Running : Sizes[t] = size[t]
      /\ MaxSize \in Nat /\ SizeBound \in Nat /\ MaxSize <= SizeBound
  <2>1. TypeOK'
    BY StepsKeepLocks
  <2> QED
    BY <2>1, SettingsAssumption DEF TypeOK, Running, Placed, Queue, Waiting, Sizes
<1>2. \A t : line' = Unqueued({t}) => line' = Desk!Without({t})
  BY DeskView
\* A team that is not running.
<1>3. ASSUME NEW t \in Teams, ~Active(t), status'[t] # "ACTIVE", line' = line, settings' = settings,
             \A u \in Teams \ {t} : status'[u] = status[u] /\ size'[u] = size[u]
      PROVE  UNCHANGED <<Running, Sizes, line, settings>>
  BY <1>3 DEF Running, Sizes, Active
<1>4. ASSUME NEW t \in Teams, status'[t] # "ACTIVE", line' = line \/ line' = Unqueued({t}),
             settings' = settings,
             \A u \in Teams \ {t} : status'[u] = status[u] /\ size'[u] = size[u]
      PROVE  Desk!Leave(t)
  <2>1. Running' = Running \ {t} /\ Sizes' = [Sizes EXCEPT ![t] = 0]
    BY <1>4, OneRow
  <2> QED
    BY <1>2, <1>4, <2>1 DEF Desk!Leave, Running, Sizes
<1>5. ASSUME NEW t \in Teams, Overrides, ~Active(t), status'[t] = "ACTIVE", line' = line,
             settings' = settings, NEW n \in 0..SizeBound, size'[t] = n,
             \A u \in Teams \ {t} : status'[u] = status[u] /\ size'[u] = size[u]
      PROVE  Desk!EnterByHand(t, n)
  <2>1. Running' = Running \cup {t} /\ Sizes' = [Sizes EXCEPT ![t] = n]
    BY <1>5, OneRow
  <2> QED
    BY <1>1, <1>5, <2>1 DEF Desk!EnterByHand, Running, Sizes
<1>6. ASSUME NEW t \in Teams, Active(t), size[t] < SizeBound, size' = [size EXCEPT ![t] = @ + 1],
             Overrides \/ (size[t] < MaxSize /\ (Waitlisted(t) \/ ~PeopleWouldExceed(Placed, 1))),
             status' = status, line' = line, settings' = settings
      PROVE  Desk!Grow(t)
  <2>1. size'[t] = size[t] + 1 /\ \A u \in Teams \ {t} : status'[u] = status[u] /\ size'[u] = size[u]
    BY <1>6 DEF TypeOK
  <2>2. Running' = Running /\ Sizes' = [Sizes EXCEPT ![t] = size[t] + 1]
    BY <1>6, <1>1, <2>1, OneRow DEF Active, Running
  <2>3. Overrides \/ (size[t] < MaxSize /\ (Desk!Waits(t) \/ ~Desk!TooMany(Desk!Placed, 1)))
    BY <1>1, <1>6, DeskView
  <2>4. Sizes[t] = size[t] /\ t \in Running
    BY <1>1, <1>6
  <2>5. Sizes' = [Sizes EXCEPT ![t] = @ + 1]
    BY <2>2, <2>4 DEF Sizes
  <2> QED
    BY <1>6, <2>2, <2>3, <2>4, <2>5 DEF Desk!Grow, Running, Sizes
<1>7. ASSUME NEW w \in Workers, NEW t \in Teams, busy[w] = Idle,
             TeamStep(t) \/ Request(w, t)
      PROVE  Desk!Next \/ UNCHANGED <<Running, Sizes, line, settings>>
  <2>1. CASE CreatePaidTeam(t) \/ RejectPayment(t) \/ ReopenPayment(t)
    <3>1. /\ ~Active(t) /\ status'[t] # "ACTIVE" /\ line' = line /\ settings' = settings
          /\ \A u \in Teams \ {t} : status'[u] = status[u] /\ size'[u] = size[u]
      BY <2>1 DEF CreatePaidTeam, RejectPayment, ReopenPayment, Active, TypeOK
    <3> QED
      BY <1>3, <3>1
  <2>2. CASE AdminCreateTeam(t)
    <3>1. /\ Overrides /\ ~Active(t) /\ status'[t] = "ACTIVE" /\ line' = line /\ settings' = settings
          /\ \A u \in Teams \ {t} : status'[u] = status[u] /\ size'[u] = size[u]
      BY <2>2 DEF AdminCreateTeam, Active, TypeOK
    <3> QED
      BY <1>1, <1>5, <3>1 DEF Desk!Next
  <2>3. CASE RemovePayment(t) \/ CancelPending(t) \/ DeleteTeam(w, t) \/ WithdrawTeam(w, t)
    <3>1. /\ status'[t] # "ACTIVE"
          /\ line' = line \/ line' = Unqueued({t})
          /\ settings' = settings
          /\ \A u \in Teams \ {t} : status'[u] = status[u] /\ size'[u] = size[u]
      BY <2>3 DEF RemovePayment, CancelPending, DeleteTeam, EraseTeam, WithdrawTeam, TypeOK
    <3> QED
      BY <1>4, <3>1 DEF Desk!Next
  <2>4. CASE AdminAddMember(t)
    <3>1. /\ Overrides /\ size[t] < SizeBound /\ size' = [size EXCEPT ![t] = @ + 1]
          /\ status' = status /\ line' = line /\ settings' = settings
      BY <2>4 DEF AdminAddMember
    <3>2. CASE Active(t)
      BY <1>6, <3>1, <3>2 DEF Desk!Next
    <3>3. CASE ~Active(t)
      <4>1. \A u \in Teams \ {t} : status'[u] = status[u] /\ size'[u] = size[u]
        BY <3>1 DEF TypeOK
      <4> QED
        BY <1>3, <3>1, <3>3, <4>1 DEF Active
    <3> QED
      BY <3>2, <3>3
  <2>5. CASE MemberLeaves(w, t)
    <3>1. /\ size[t] > 0 /\ size' = [size EXCEPT ![t] = @ - 1]
          /\ status' = status /\ line' = line /\ settings' = settings
          /\ size'[t] = size[t] - 1
          /\ \A u \in Teams \ {t} : status'[u] = status[u] /\ size'[u] = size[u]
      BY <1>1, <2>5 DEF MemberLeaves, TypeOK
    <3>2. CASE Active(t)
      <4>1. Running' = Running /\ Sizes' = [Sizes EXCEPT ![t] = size[t] - 1]
        BY <1>1, <3>1, <3>2, OneRow DEF Active, Running
      <4>2. Sizes[t] = size[t] /\ t \in Running
        BY <1>1, <3>2
      <4>3. Sizes' = [Sizes EXCEPT ![t] = @ - 1]
        BY <4>1, <4>2 DEF Sizes
      <4>4. Desk!Shrink(t)
        BY <3>1, <4>1, <4>2, <4>3 DEF Desk!Shrink, Running, Sizes
      <4> QED
        BY <4>4 DEF Desk!Next
    <3>3. CASE ~Active(t)
      BY <1>3, <3>1, <3>3 DEF Active
    <3> QED
      BY <3>2, <3>3
  <2>6. ASSUME NEW s \in Decided, AdminSetStatus(w, t, s)
        PROVE  Desk!Next \/ UNCHANGED <<Running, Sizes, line, settings>>
    <3>1. /\ status'[t] = s /\ s \in {"ACTIVE", "OUT"} /\ (s = "ACTIVE" => Overrides)
          /\ line' = line /\ settings' = settings /\ size' = size
          /\ \A u \in Teams \ {t} : status'[u] = status[u] /\ size'[u] = size[u]
      BY <2>6 DEF AdminSetStatus, TypeOK, Decided
    <3>2. CASE s = "OUT"
      BY <1>4, <3>1, <3>2 DEF Desk!Next
    <3>3. CASE s = "ACTIVE" /\ ~Active(t)
      BY <1>1, <1>5, <3>1, <3>3 DEF Desk!Next
    <3>4. CASE s = "ACTIVE" /\ Active(t)
      BY <3>1, <3>4 DEF Running, Sizes, Active
    <3> QED
      BY <3>1, <3>2, <3>3, <3>4
  <2>7. CASE CreateTeam(w, t) \/ VerifyPayment(w, t) \/ JoinTeam(w, t)
    BY <2>7 DEF CreateTeam, VerifyPayment, JoinTeam, teamRows, Running, Sizes, Active
  <2> QED
    BY <1>7, <2>1, <2>2, <2>3, <2>4, <2>5, <2>6, <2>7 DEF TeamStep, Request
<1>8. ASSUME NEW w \in Workers, CommitPlace(w)
      PROVE  Desk!Next
  <2> DEFINE t == busy[w].team
  <2>1. /\ t \in Teams /\ ~Active(t) /\ busy[w].waits \in BOOLEAN
        /\ busy[w].waits <=> Full
        /\ Full => settings.queueing
    BY <1>1, <1>8, TransactionShapes DEF CommitPlace, DecidersAreRight, CommitsAreDecided, Active
  <2>2. /\ status'[t] = "ACTIVE" /\ line' = (IF Full THEN Queued(t) ELSE line) /\ settings' = settings
        /\ \A u \in Teams \ {t} : status'[u] = status[u] /\ size'[u] = size[u]
    BY <1>8, <2>1 DEF CommitPlace, TypeOK
  <2>3. Running' = Running \cup {t} /\ Sizes' = [Sizes EXCEPT ![t] = size'[t]]
    BY <2>1, <2>2, OneRow
  <2>4. /\ Desk!NoRoom <=> Full
        /\ Desk!AtEnd(t) = Queued(t)
    BY DeskView
  <2>5. PICK n \in 0..SizeBound : n = size'[t]
    BY <1>1, <2>1
  <2>6. Desk!Enter(t, n)
    BY <1>1, <2>1, <2>2, <2>3, <2>4, <2>5 DEF Desk!Enter, Running, Sizes
  <2> QED
    BY <2>1, <2>6 DEF Desk!Next
<1>9. ASSUME NEW w \in Workers, CommitJoin(w)
      PROVE  Desk!Next \/ UNCHANGED <<Running, Sizes, line, settings>>
  <2>0. PICK t \in Teams : t = busy[w].team
    BY <1>1, <1>9, TransactionShapes DEF CommitJoin
  <2>1. /\ t \in Teams /\ size[t] < MaxSize /\ size' = [size EXCEPT ![t] = @ + 1]
        /\ Waitlisted(t) \/ ~PeopleWouldExceed(Placed, 1)
        /\ status' = status /\ line' = line /\ settings' = settings
    BY <1>1, <1>9, <2>0, TransactionShapes DEF CommitJoin, DecidersAreRight, PlacesAreFree
  <2>2. CASE Active(t)
    <3>1. size[t] < SizeBound
      BY <1>1, <2>1
    <3>2. Desk!Grow(t)
      BY <1>6, <2>1, <2>2, <3>1
    <3> QED
      BY <2>1, <3>2 DEF Desk!Next
  <2>3. CASE ~Active(t)
    <3>1. \A u \in Teams \ {t} : status'[u] = status[u] /\ size'[u] = size[u]
      BY <2>1 DEF TypeOK
    <3> QED
      BY <1>3, <2>1, <2>3, <3>1 DEF Active
  <2> QED
    BY <2>2, <2>3
<1>10. ASSUME NEW w \in Workers, SaveSettings(w)
       PROVE  Desk!Next
  <2> DEFINE s == busy[w].settings
  <2>1. /\ s \in Settings /\ settings' = s
        /\ s.cap \in {settings.cap, 0} \/ s.cap >= Cardinality(Placed)
        /\ UNCHANGED <<Running, Sizes, line>>
    BY <1>1, <1>10, TransactionShapes
       DEF SaveSettings, CommitsAreDecided, teamRows, Running, Sizes, Active
  <2>2. Desk!Cardinality(Desk!Placed) = Cardinality(Placed)
    <3>1. \A S : Desk!Cardinality(S) = Cardinality(S)
      BY DEF Desk!Cardinality, Cardinality
    <3> QED
      BY <3>1, DeskView
  <2>3. Desk!Change(s)
    BY <2>1, <2>2 DEF Desk!Change, Running, Sizes
  <2> QED
    BY <2>1, <2>3 DEF Desk!Next
<1>11. ASSUME NEW w \in Workers, CommitPromotion(w)
       PROVE  Desk!Promote
  <2> DEFINE chosen == busy[w].chosen
  <2>0. /\ busy[w].step = "PROMOTING" /\ busy[w].left = {} /\ line' = Unqueued(chosen)
        /\ status' = status /\ size' = size /\ settings' = settings
    BY <1>11 DEF CommitPromotion
  <2>1. /\ busy[w].held = Queue /\ busy[w].left = {} /\ chosen \subseteq Queue
        /\ line' = Unqueued(chosen)
        /\ Running' = Running /\ Sizes' = Sizes /\ settings' = settings
    BY <2>0 DEF PromotionsFollowQueue, PromotersAreRight, Running, Sizes, Active
  <2>2. ASSUME NEW t \in Queue
        PROVE  t \in chosen <=> Desk!Fits(t, chosen)
    <3>1. t \in chosen <=> /\ ~TeamsFull(settings, TakenBefore(t, chosen))
                           /\ ~PeopleWouldExceed(TakenBefore(t, chosen), size[t])
      BY <1>11, <2>1 DEF CommitsAreDecided, CommitPromotion
    <3>2. TakenBefore(t, chosen) \in SUBSET Running /\ size[t] \in Nat /\ t \in Running /\ Sizes[t] = size[t]
      BY <1>1, <2>1 DEF TakenBefore
    <3>3. /\ Desk!TeamsFull(TakenBefore(t, chosen)) <=> TeamsFull(settings, TakenBefore(t, chosen))
          /\ Desk!TooMany(TakenBefore(t, chosen), size[t]) <=>
                PeopleWouldExceed(TakenBefore(t, chosen), size[t])
          /\ Desk!Placed = Placed
      BY <3>2, DeskView
    <3> QED
      BY <3>1, <3>2, <3>3 DEF Desk!Fits, TakenBefore, Sizes
  <2>3. Desk!Queue = Queue /\ Desk!Without(chosen) = Unqueued(chosen)
    BY DeskView
  <2> QED
    BY <2>1, <2>2, <2>3 DEF Desk!Promote, Running, Sizes
<1>12. ASSUME NEW w \in Workers,
              \/ \E s \in Settings : EditSettings(w, s)
              \/ StartPromotion(w) \/ ConsiderNext(w) \/ LosePromotion(w)
       PROVE  UNCHANGED <<Running, Sizes, line, settings>>
  BY <1>12 DEF EditSettings, StartPromotion, ConsiderNext, LosePromotion, teamRows, Running, Sizes, Active
<1>13. CASE UNCHANGED vars
  BY <1>13 DEF vars, teamRows, Running, Sizes, Active
<1>14. ASSUME NEW w \in Workers, NEW t \in Teams, Request(w, t)
       PROVE  Desk!Next \/ UNCHANGED <<Running, Sizes, line, settings>>
  <2>1. busy[w] = Idle
    BY <1>14 DEF Request, CreateTeam, VerifyPayment, JoinTeam, MemberLeaves, WithdrawTeam, AdminSetStatus,
                 DeleteTeam
  <2> QED
    BY <1>7, <1>14, <2>1
<1> QED
  BY <1>7, <1>8, <1>9, <1>10, <1>11, <1>12, <1>13, <1>14 DEF Next, Continue, Desk!Next

\* Handled one at a time, seat allocation implements module Places: what create_team,
\* verify, _admit and a settings change find out still holds when they commit, and
\* WaitlistService.promote, looking at one waiting team after the other, places
\* exactly those that fit when their turn comes.
THEOREM ImplementsPlacesHolds == ASSUME OneRequest PROVE Spec => ImplementsPlaces
<1>1. Init => CommitsAreDecided
  BY DEF Init, Idle, CommitsAreDecided
<1>2. Init => Desk!Init
  BY DEF Init, Desk!Init, Active
<1>3. SerialInv /\ CommitsAreDecided /\ [Next]_vars => CommitsAreDecided'
  BY CommitsStayDecided
<1>4. SerialInv /\ CommitsAreDecided /\ [Next]_vars => [Desk!Next]_Desk!vars
  BY StepsImplementPlaces DEF Desk!vars, Running, Sizes
<1> QED
  BY <1>1, <1>2, <1>3, <1>4, SerialInvariant, PTL DEF Spec, ImplementsPlaces, Desk!Spec

=============================================================================
