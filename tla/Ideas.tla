------------------------------- MODULE Ideas -------------------------------
(***************************************************************************)
(* A team's idea, its review, and its two files (slides and payment        *)
(* screenshot): ideas.py and idea_files.py, with the sweep and the         *)
(* quarantine of forms/upload_maintenance.py for these files.              *)
(*                                                                         *)
(* A save locks the idea's row, if there is one, and the files it picks;   *)
(* it copies them in the bucket before it commits and deletes objects      *)
(* after.  So a save is three steps, and the leader's and an organizer's   *)
(* may overlap; a review or a quarantine is one step that waits for the    *)
(* locks.  What a sweep can do to a file that is being attached is shown   *)
(* in module Uploads: here it is one step.                                 *)
(***************************************************************************)
EXTENDS Naturals, FiniteSets

CONSTANTS Decks, Proofs  \* rows of the file table, by kind, each used once

Files    == Decks \cup Proofs
Requests == {"LEADER", "ORGANIZER"}
Outcomes == {"APPROVED", "CHANGES_REQUESTED", "REJECTED"}
Active   == {"PENDING", "UPLOADED"}

VARIABLES
    idea,     \* the IdeaSubmission row, or NoIdea
    file,     \* IdeaFile.state
    bucket,   \* the objects stored under a temporary or a final key
    edits,    \* Hackathon.idea_edits_enabled
    save,     \* the save each request has begun, or Idle
    due       \* the keys each request deletes after its commit

vars == <<idea, file, bucket, edits, save, due>>

NoFile       == "NONE"
Idea(s, d, p) == [status |-> s, deck |-> d, proof |-> p]
NoIdea       == Idea("NONE", NoFile, NoFile)
Idle         == [op |-> "IDLE"]
Saving(e, d, p) == [op |-> "SAVE", existing |-> e, deck |-> d, proof |-> p]
Tmp(f)       == <<"TMP", f>>
Final(f)     == <<"FINAL", f>>
Keys         == {"TMP", "FINAL"} \X Files
Ideas_       == [status : {"NONE", "SUBMITTED"} \cup Outcomes,
                 deck : Decks \cup {NoFile}, proof : Proofs \cup {NoFile}]

\* What the constants must satisfy.
FilesDiffer == Decks \cap Proofs = {} /\ NoFile \notin Files

TypeOK ==
    /\ idea \in Ideas_
    /\ file \in [Files -> Active \cup {"NEW", "REJECTED", "ATTACHED", "DELETED"}]
    /\ bucket \subseteq Keys
    /\ edits \in BOOLEAN
    /\ save \in [Requests -> {Idle} \cup [op : {"SAVE"}, existing : Ideas_,
                    deck : Decks \cup {NoFile}, proof : Proofs \cup {NoFile}]]
    /\ due \in [Requests -> SUBSET Keys]

Init ==
    /\ idea = NoIdea
    /\ file = [f \in Files |-> "NEW"]
    /\ bucket = {}
    /\ edits = TRUE
    /\ save = [r \in Requests |-> Idle]
    /\ due = [r \in Requests |-> {}]

-----------------------------------------------------------------------------
Decided(i) == i.status \in {"APPROVED", "REJECTED"}

\* ideas.can_team_edit, while the idea phase is open.
CanTeamEdit == ~Decided(idea) /\ (idea.status = "SUBMITTED" => edits)

\* Mutant: the save reads the idea without select_for_update.
NeverLocked == FALSE

\* Row locks are what an unfinished save has read.
IdeaLocked    == \E r \in Requests : save[r] # Idle /\ save[r].existing # NoIdea
FileLocked(f) == f # NoFile /\ \E r \in Requests : save[r] # Idle /\ f \in {save[r].deck, save[r].proof}

\* Left out: keep what is there; null: remove it; an id: a finished upload.
Picks(kind, current) == {current, NoFile} \cup {f \in kind : file[f] = "UPLOADED"}

BeginSave(r, deck, proof) ==
    /\ save[r] = Idle /\ due[r] = {}
    /\ ~IdeaLocked
    /\ r = "LEADER" => CanTeamEdit
    /\ deck \in Picks(Decks, idea.deck) /\ proof \in Picks(Proofs, idea.proof)
    /\ ~FileLocked(deck) /\ ~FileLocked(proof)
    /\ save' = [save EXCEPT ![r] = Saving(idea, deck, proof)]
    /\ UNCHANGED <<idea, file, bucket, edits, due>>

\* attach: what the save picked and what it replaces, as it had read them.
Moving(s)   == {f \in {s.deck, s.proof} \ {NoFile} : file[f] = "UPLOADED"}

\* Mutant: the files of the idea are dropped even where the save keeps them.
AllHeld(s) == {s.existing.deck, s.existing.proof} \ {NoFile}

Replaced(s) == {f \in Files : \/ f = s.existing.deck /\ f # s.deck
                              \/ f = s.existing.proof /\ f # s.proof}

\* update_or_create finds the row another save has created since.
CommitSave(r, status) ==
    LET s == save[r]
    IN  /\ s # Idle
        /\ s.existing = NoIdea => ~IdeaLocked
        /\ idea' = Idea(status, s.deck, s.proof)
        /\ bucket' = bucket \cup {Final(f) : f \in Moving(s)}
        /\ file' = [f \in Files |-> IF f \in Moving(s) THEN "ATTACHED"
                                    ELSE IF f \in Replaced(s) THEN "DELETED" ELSE file[f]]
        /\ due' = [due EXCEPT ![r] = {Tmp(f) : f \in Moving(s)} \cup {Final(f) : f \in Replaced(s)}]
        /\ save' = [save EXCEPT ![r] = Idle]
        /\ UNCHANGED edits

\* The storage or the process fails before the commit: copies may be left.
AbortSave(r) ==
    /\ save[r] # Idle
    /\ \E copied \in SUBSET Moving(save[r]) :
          bucket' = bucket \cup {Final(f) : f \in copied}
    /\ save' = [save EXCEPT ![r] = Idle]
    /\ UNCHANGED <<idea, file, edits, due>>

DeleteObjects(r) ==
    /\ due[r] # {}
    /\ bucket' = bucket \ due[r]
    /\ due' = [due EXCEPT ![r] = {}]
    /\ UNCHANGED <<idea, file, edits, save>>

LoseDeletes(r) ==
    /\ due[r] # {}
    /\ due' = [due EXCEPT ![r] = {}]
    /\ UNCHANGED <<idea, file, bucket, edits, save>>

-----------------------------------------------------------------------------
(* Uploading: the row, the object the browser posts, the check of it.      *)

Gone(fs) == /\ \A f \in fs : ~FileLocked(f)
            /\ bucket' = bucket \ {Tmp(f) : f \in fs}

RequestUpload(f) ==
    LET kind    == IF f \in Decks THEN Decks ELSE Proofs
        earlier == {g \in kind : file[g] \in Active}
    IN  /\ file[f] = "NEW" /\ CanTeamEdit
        /\ Gone(earlier)
        /\ file' = [g \in Files |-> IF g = f THEN "PENDING"
                                    ELSE IF g \in earlier THEN "DELETED" ELSE file[g]]
        /\ UNCHANGED <<idea, edits, save, due>>

Post(f) ==
    /\ file[f] = "PENDING"
    /\ bucket' = bucket \cup {Tmp(f)}
    /\ UNCHANGED <<idea, file, edits, save, due>>

Complete(f, ok) ==
    /\ file[f] = "PENDING" /\ Tmp(f) \in bucket /\ CanTeamEdit
    /\ file' = [file EXCEPT ![f] = IF ok THEN "UPLOADED" ELSE "REJECTED"]
    /\ IF ok THEN UNCHANGED bucket ELSE bucket' = bucket \ {Tmp(f)}
    /\ UNCHANGED <<idea, edits, save, due>>

\* discard_upload by the team, or sweep_expired.
Discard(f) ==
    /\ file[f] \in Active
    /\ Gone({f})
    /\ file' = [file EXCEPT ![f] = "DELETED"]
    /\ UNCHANGED <<idea, edits, save, due>>

\* _quarantine_idea_file: detached from the idea, removed, its row kept.
Quarantine(f) ==
    /\ file[f] \in {"UPLOADED", "ATTACHED"}
    /\ ~FileLocked(f) /\ (f \in {idea.deck, idea.proof} => ~IdeaLocked)
    /\ file' = [file EXCEPT ![f] = "DELETED"]
    /\ bucket' = bucket \ {IF file[f] = "ATTACHED" THEN Final(f) ELSE Tmp(f)}
    /\ idea' = [idea EXCEPT !.deck = IF @ = f THEN NoFile ELSE @,
                            !.proof = IF @ = f THEN NoFile ELSE @]
    /\ UNCHANGED <<edits, save, due>>

-----------------------------------------------------------------------------
Review(outcome) ==
    /\ idea # NoIdea /\ ~IdeaLocked
    /\ idea' = [idea EXCEPT !.status = outcome]
    /\ UNCHANGED <<file, bucket, edits, save, due>>

SwitchEdits ==
    /\ edits' = ~edits
    /\ UNCHANGED <<idea, file, bucket, save, due>>

\* Submitted, or approved at once where no review is required.
SaveIdea(r) ==
    \/ \E d \in Decks \cup {NoFile}, p \in Proofs \cup {NoFile} : BeginSave(r, d, p)
    \/ \E status \in {"SUBMITTED", "APPROVED"} : CommitSave(r, status)
    \/ AbortSave(r)
    \/ DeleteObjects(r)
    \/ LoseDeletes(r)

Upload(f) == \/ RequestUpload(f) \/ Post(f) \/ Discard(f) \/ Quarantine(f)
             \/ \E ok \in BOOLEAN : Complete(f, ok)

Next == \/ \E r \in Requests : SaveIdea(r)
        \/ \E f \in Files : Upload(f)
        \/ \E o \in Outcomes : Review(o)
        \/ SwitchEdits
Spec == Init /\ [][Next]_vars

-----------------------------------------------------------------------------
(* The slides and the screenshot an idea holds are attached files whose    *)
(* objects are in the bucket under their final keys, whatever is replaced, *)
(* discarded, quarantined or rolled back, and whichever save commits last. *)
(* (idea_files.attach, _issue, discard_upload, _quarantine_idea_file.)     *)
HeldFilesExist ==
    \A f \in {idea.deck, idea.proof} \ {NoFile} :
        file[f] = "ATTACHED" /\ Final(f) \in bucket

SaveRespectsDecision ==
    LET s == save["LEADER"]
    IN  Decided(idea) /\ s # Idle /\ s # save'["LEADER"] /\ s.existing # NoIdea
           => idea' = idea

(* A team's save of an idea it has found cannot change it once accepted or *)
(* rejected: the save has locked the row it read, and a review waits.      *)
(* (can_team_edit: an accepted or rejected idea is final.  A team's first  *)
(* save has no row to lock: an organizer may make the idea and accept it   *)
(* before that save commits, which then submits it again.)                 *)
DecidedIdeasStand == [][SaveRespectsDecision]_vars
=============================================================================
