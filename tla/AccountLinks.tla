---------------------------- MODULE AccountLinks ----------------------------
(***************************************************************************)
(* The one-time links an account lives by: address verification and change *)
(* (accounts/services/email_verification.py), password setup and reset     *)
(* (password_setup_service.py) and the setup links of judge invitations    *)
(* (hackathons/judge_invites.py).                                          *)
(*                                                                         *)
(* Using a link locks it; asking for a verification link is held off by a  *)
(* cache entry for a minute, so two taps send one mail; asking for a setup *)
(* link is held off by nothing: its two statements are two steps when      *)
(* Overlap is on.  A completed setup marks the address verified after its  *)
(* transaction.  The rate limits only refuse and are left out.             *)
(***************************************************************************)
EXTENDS FiniteSets

CONSTANTS
    Accounts, Addresses,
    Links,     \* EmailVerificationToken rows
    Setups,    \* PasswordSetupToken rows
    Overlap

VARIABLES
    account,   \* User: e-mail address, email_verified_at, is_active, password_status
    link, setup,
    quiet,     \* addresses that get no verification mail
    invite,    \* JudgeInvite of each account
    toVerify,  \* setups that are completed and not yet followed by mark_verified
    proved     \* account and address, where mail to the address was used for the account

vars == <<account, link, setup, quiet, invite, toVerify, proved>>

NoAddress  == "NO_ADDRESS"
NoAccount  == [email |-> NoAddress, verified |-> FALSE, active |-> FALSE, hasPassword |-> FALSE]
NewLink    == [state |-> "NEW"]

AddressesNamed == NoAddress \notin Addresses /\ Overlap \in BOOLEAN

LinkRow    == [state : {"PENDING", "USED", "SUPERSEDED", "DISPUTED"}, user : Accounts,
               change : BOOLEAN, email : Addresses, mailed : Addresses, expired : BOOLEAN]
SetupRow   == [state : {"SENDING", "LIVE", "SPENT"}, user : Accounts, mailed : Addresses]

TypeOK ==
    /\ account \in [Accounts -> [email : Addresses \cup {NoAddress}, verified : BOOLEAN,
                                 active : BOOLEAN, hasPassword : BOOLEAN]]
    /\ link \in [Links -> {NewLink} \cup LinkRow]
    /\ setup \in [Setups -> {NewLink} \cup SetupRow]
    /\ quiet \subseteq Addresses
    /\ invite \in [Accounts -> {"NONE", "SENT", "ACCEPTED", "REVOKED"}]
    /\ toVerify \subseteq Setups
    /\ proved \subseteq Accounts \X Addresses

Init ==
    /\ account = [u \in Accounts |-> NoAccount]
    /\ link = [l \in Links |-> NewLink]
    /\ setup = [s \in Setups |-> NewLink]
    /\ quiet = {} /\ toVerify = {} /\ proved = {}
    /\ invite = [u \in Accounts |-> "NONE"]

-----------------------------------------------------------------------------
Exists(u)  == account[u].email # NoAddress
SignedIn(u) == account[u].active /\ account[u].hasPassword
Taken(a)   == \E u \in Accounts : account[u].email = a
Unsent     == Overlap \/ \A s \in Setups : setup[s].state # "SENDING"

(* Accounts                                                                *)

NewAccount(a, own) == [email |-> a, verified |-> FALSE, active |-> TRUE, hasPassword |-> own]

\* With a password of their own, or (an import) without.
Create(u, a, own) ==
    /\ ~Exists(u) /\ ~Taken(a)
    /\ account' = [account EXCEPT ![u] = NewAccount(a, own)]
    /\ UNCHANGED <<link, setup, quiet, invite, toVerify, proved>>

\* An admin vouches for the address.
Vouch(u) ==
    /\ Exists(u) /\ ~account[u].verified
    /\ account' = [account EXCEPT ![u].verified = TRUE]
    /\ proved' = proved \cup {<<u, account[u].email>>}
    /\ UNCHANGED <<link, setup, quiet, invite, toVerify>>

-----------------------------------------------------------------------------
(* Verification and change of the address                                  *)

Superseding(u, which) ==
    [l \in Links |-> IF link[l].state = "PENDING" /\ link[l].user = u /\ link[l].change \in which
                     THEN [link[l] EXCEPT !.state = "SUPERSEDED"] ELSE link[l]]

\* _issue: the older links of the purpose end, and one is mailed.
Issue(u, l, a, change, mailed) ==
    /\ SignedIn(u) /\ link[l] = NewLink /\ a \notin quiet
    /\ link' = [Superseding(u, {change}) EXCEPT ![l] =
                  [state |-> "PENDING", user |-> u, change |-> change, email |-> a,
                   mailed |-> mailed, expired |-> FALSE]]
    /\ UNCHANGED <<account, setup, quiet, invite, toVerify, proved>>

RequestLink(u, l) ==
    /\ ~account[u].verified
    /\ Issue(u, l, account[u].email, FALSE, account[u].email)

\* Mutant: the link of a change goes to the address the account has.
RequestChangeByOldMail(u, l, a) ==
    /\ a # account[u].email /\ ~Taken(a)
    /\ Issue(u, l, a, TRUE, account[u].email)

RequestChange(u, l, a) ==
    /\ a # account[u].email /\ ~Taken(a)
    /\ Issue(u, l, a, TRUE, a)

Expire(l) ==
    /\ link[l].state = "PENDING" /\ ~link[l].expired
    /\ link' = [link EXCEPT ![l].expired = TRUE]
    /\ UNCHANGED <<account, setup, quiet, invite, toVerify, proved>>

Open(l) ==
    /\ link[l].state = "PENDING" /\ ~link[l].expired /\ account[link[l].user].active

ConfirmVerify(l) ==
    /\ Open(l) /\ ~link[l].change
    /\ LET u == link[l].user
       IN  /\ account[u].email = link[l].email
           /\ account' = [account EXCEPT ![u].verified = TRUE]
           /\ proved' = proved \cup {<<u, link[l].mailed>>}
    /\ link' = [link EXCEPT ![l].state = "USED"]
    /\ UNCHANGED <<setup, quiet, invite, toVerify>>

\* The account takes the address over, and its other links end.
ConfirmChange(l) ==
    /\ Open(l) /\ link[l].change
    /\ LET u == link[l].user
       IN  /\ \A v \in Accounts \ {u} : account[v].email # link[l].email
           /\ account' = [account EXCEPT ![u].email = link[l].email, ![u].verified = TRUE]
           /\ link' = [Superseding(u, BOOLEAN) EXCEPT ![l] = [link[l] EXCEPT !.state = "USED"]]
           /\ proved' = proved \cup {<<u, link[l].mailed>>}
    /\ UNCHANGED <<setup, quiet, invite, toVerify>>

\* "This wasn't me", for a change: only the request ends.
DisputeChange(l) ==
    /\ link[l].state \notin {"NEW", "DISPUTED"} /\ link[l].change
    /\ link' = [link EXCEPT ![l].state = "DISPUTED"]
    /\ quiet' = quiet \cup {link[l].email}
    /\ UNCHANGED <<account, setup, invite, toVerify, proved>>

\* For a sign-up: the account is switched off, or removed if never used.
DisputeSignUp(l, removed) ==
    /\ link[l].state \notin {"NEW", "DISPUTED"} /\ ~link[l].change
    /\ quiet' = quiet \cup {link[l].email}
    /\ LET u == link[l].user
           Of(rows) == [r \in DOMAIN rows |->
                           IF rows[r] # NewLink /\ rows[r].user = u THEN NewLink ELSE rows[r]]
       IN  IF removed
           THEN /\ invite[u] = "NONE"        \* an invitation is use of the account
                /\ account' = [account EXCEPT ![u] = NoAccount]
                /\ link' = Of(link) /\ setup' = Of(setup)
                /\ proved' = {p \in proved : p[1] # u}
                /\ toVerify' = {s \in toVerify : setup[s].user # u}
           ELSE /\ account' = [account EXCEPT ![u].active = FALSE]
                /\ link' = [Superseding(u, BOOLEAN) EXCEPT ![l] = [link[l] EXCEPT !.state = "DISPUTED"]]
                /\ UNCHANGED <<setup, proved, toVerify>>
    /\ UNCHANGED invite

-----------------------------------------------------------------------------
(* Password setup and reset                                                *)

Spending(u) ==
    [s \in Setups |-> IF setup[s].state = "LIVE" /\ setup[s].user = u
                      THEN [setup[s] EXCEPT !.state = "SPENT"] ELSE setup[s]]
Sending(u, s, state, a) ==
    setup' = [Spending(u) EXCEPT ![s] = [state |-> state, user |-> u, mailed |-> a]]

\* issue_token: every earlier unused link ends ...
IssueSetup(u, s) ==
    /\ Unsent /\ account[u].active /\ setup[s] = NewLink
    /\ Sending(u, s, IF Overlap THEN "SENDING" ELSE "LIVE", account[u].email)
    /\ UNCHANGED <<account, link, quiet, invite, toVerify, proved>>

\* ... and the new one is stored and mailed.
StoreSetup(s) ==
    /\ setup[s].state = "SENDING"
    /\ setup' = [setup EXCEPT ![s].state = "LIVE"]
    /\ UNCHANGED <<account, link, quiet, invite, toVerify, proved>>

\* A link also ends when its day is over.
EndSetup(s) ==
    /\ setup[s].state = "LIVE"
    /\ setup' = [setup EXCEPT ![s].state = "SPENT"]
    /\ UNCHANGED <<account, link, quiet, invite, toVerify, proved>>

ConfirmSetup(s) ==
    /\ setup[s].state = "LIVE"
    /\ LET u == setup[s].user
       IN  /\ account' = [account EXCEPT ![u].hasPassword = TRUE]
           /\ setup' = Spending(u)
           /\ proved' = proved \cup {<<u, setup[s].mailed>>}
    /\ toVerify' = toVerify \cup {s}
    /\ UNCHANGED <<link, quiet, invite>>

MarkVerified(s) ==
    /\ s \in toVerify
    /\ account' = [account EXCEPT ![setup[s].user].verified = TRUE]
    /\ toVerify' = toVerify \ {s}
    /\ UNCHANGED <<link, setup, quiet, invite, proved>>

\* The process ends before it.
Die ==
    /\ toVerify # {}
    /\ toVerify' = {}
    /\ UNCHANGED <<account, link, setup, quiet, invite, proved>>

-----------------------------------------------------------------------------
(* Judge invitations                                                       *)

\* A stranger is given an account; one without a password is sent a link.
Invite(u, s, a) ==
    /\ Unsent /\ invite[u] \in {"NONE", "REVOKED"}
    /\ \/ Exists(u) /\ a = account[u].email /\ UNCHANGED account
       \/ ~Exists(u) /\ ~Taken(a) /\ account' = [account EXCEPT ![u] = NewAccount(a, FALSE)]
    /\ IF account[u].hasPassword
       THEN /\ invite' = [invite EXCEPT ![u] = "ACCEPTED"]
            /\ UNCHANGED setup
       ELSE /\ setup[s] = NewLink
            /\ invite' = [invite EXCEPT ![u] = "SENT"]
            /\ Sending(u, s, "LIVE", a)
    /\ UNCHANGED <<link, quiet, toVerify, proved>>

Resend(u, s) ==
    /\ Unsent /\ invite[u] = "SENT" /\ ~account[u].hasPassword /\ setup[s] = NewLink
    /\ Sending(u, s, "LIVE", account[u].email)
    /\ UNCHANGED <<account, link, quiet, invite, toVerify, proved>>

Revoke(u) ==
    /\ Unsent /\ invite[u] \in {"SENT", "ACCEPTED"}
    /\ invite' = [invite EXCEPT ![u] = "REVOKED"]
    /\ setup' = IF invite[u] = "SENT" THEN Spending(u) ELSE setup
    /\ UNCHANGED <<account, link, quiet, toVerify, proved>>

-----------------------------------------------------------------------------
Verification ==
    \/ \E u \in Accounts, l \in Links : RequestLink(u, l) \/ \E a \in Addresses : RequestChange(u, l, a)
    \/ \E l \in Links :
          \/ Expire(l) \/ ConfirmVerify(l) \/ ConfirmChange(l) \/ DisputeChange(l)
          \/ \E removed \in BOOLEAN : DisputeSignUp(l, removed)

Passwords ==
    \/ \E u \in Accounts, s \in Setups :
          \/ IssueSetup(u, s) \/ Resend(u, s)
          \/ \E a \in Addresses : Invite(u, s, a)
    \/ \E s \in Setups : StoreSetup(s) \/ EndSetup(s) \/ ConfirmSetup(s) \/ MarkVerified(s)
    \/ Die

Next ==
    \/ \E u \in Accounts :
          \/ Vouch(u) \/ Revoke(u)
          \/ \E a \in Addresses, own \in BOOLEAN : Create(u, a, own)
    \/ Verification \/ Passwords
Spec == Init /\ [][Next]_vars

-----------------------------------------------------------------------------
(* A verified address is one whose own mail was used for this account, or  *)
(* that an admin vouched for: whatever links were asked for, replaced,     *)
(* used late or overtaken by a change, and wherever the process stopped.   *)
VerifiedMeansProved ==
    \A u \in Accounts : account[u].verified => <<u, account[u].email>> \in proved

(* issue_token says "every earlier unused one stops working": an account   *)
(* never has two live setup links.  It does when two requests for one      *)
(* overlap.                                                                *)
OneLiveSetup ==
    \A s, t \in Setups :
        /\ setup[s].state = "LIVE" /\ setup[t].state = "LIVE" /\ setup[s].user = setup[t].user
        => s = t

LinksProve == VerifiedMeansProved /\ (Overlap \/ OneLiveSetup)
=============================================================================
