------------------------------ MODULE Uploads ------------------------------
(***************************************************************************)
(* The files of one file question in one person's response: upload         *)
(* service, attach, admin and maintenance modules of forms/, over an       *)
(* object store that no transaction covers.                                *)
(*                                                                         *)
(* A submission resolves the files its answer names, and checks them again *)
(* with their rows locked when it attaches them; the admin's operations    *)
(* and the quarantine hold the row's lock from end to end.  A new pick of  *)
(* a FILE question and the sweep list rows without a lock and mark them    *)
(* DELETED later, whatever they have become: two steps, between which      *)
(* other requests come when Overlap is on.  Objects are deleted after the  *)
(* commit, or never if the process ends.                                   *)
(***************************************************************************)
EXTENDS Naturals, FiniteSets

CONSTANTS
    Own, Swaps,  \* FormUpload rows of the person, and of an admin
    MaxFiles,    \* 1: a FILE question; more: maxFiles of a MULTI_FILE one
    Requests,
    Overlap

Files == Own \cup Swaps

VARIABLES
    file,      \* FormUpload: state, whether it has a response, has expired
    bucket,    \* objects, by temporary or final key
    response,  \* whether the Response row exists
    answer,    \* the files its answer names
    req,       \* what each submission has resolved
    picking,   \* the earlier picks that a request for a new file has listed
    swept,     \* what the sweep has listed
    due        \* keys to delete after a commit

vars == <<file, bucket, response, answer, req, picking, swept, due>>

Active   == {"PENDING", "UPLOADED"}
Idle     == [op |-> "IDLE"]
File(s)  == [state |-> s, attached |-> FALSE, expired |-> FALSE]
Tmp(f)   == <<"TMP", f>>
Final(f) == <<"FINAL", f>>

FilesNamed == Own \cap Swaps = {} /\ MaxFiles \in Nat /\ Overlap \in BOOLEAN

TypeOK ==
    /\ file \in [Files -> [state : Active \cup {"NEW", "ATTACHED", "REJECTED", "DELETED"},
                           attached : BOOLEAN, expired : BOOLEAN]]
    /\ bucket \subseteq {"TMP", "FINAL"} \X Files
    /\ due \subseteq {"TMP", "FINAL"} \X Files
    /\ response \in BOOLEAN
    /\ answer \subseteq Files /\ swept \subseteq Files
    /\ req \in [Requests -> {Idle} \cup [op : {"WRITE"}, refs : SUBSET Own]]
    /\ picking \in [Files -> {Idle} \cup [op : {"PICK"}, earlier : SUBSET Files]]

Init ==
    /\ file = [f \in Files |-> File("NEW")]
    /\ bucket = {} /\ due = {} /\ answer = {} /\ swept = {}
    /\ response = FALSE
    /\ req = [r \in Requests |-> Idle]
    /\ picking = [f \in Files |-> Idle]

-----------------------------------------------------------------------------
Key(f)     == IF file[f].state = "ATTACHED" THEN Final(f) ELSE Tmp(f)
Mark(fs, s) == [f \in Files |-> IF f \in fs THEN [file[f] EXCEPT !.state = s] ELSE file[f]]
Quiet      == Overlap \/ (swept = {} /\ \A f \in Files : picking[f] = Idle)

(* Before the submission                                                   *)

Waiting(f) == {g \in IF f \in Own THEN Own ELSE Swaps :
                  file[g].state \in Active /\ ~file[g].expired}

\* A new pick of a FILE question replaces the earlier ones, listed here ...
BeginPick(f) ==
    /\ Quiet /\ file[f].state = "NEW" /\ picking[f] = Idle
    /\ MaxFiles # 1 => Cardinality(Waiting(f)) < MaxFiles
    /\ LET earlier == IF MaxFiles = 1 THEN Waiting(f) ELSE {}
       IN  picking' = [picking EXCEPT ![f] = [op |-> "PICK", earlier |-> earlier]]
    /\ UNCHANGED <<file, bucket, response, answer, req, swept, due>>

\* ... and saved as DELETED here, as _discard has them.
CommitPick(f) ==
    /\ picking[f] # Idle
    /\ LET earlier == picking[f].earlier
       IN  /\ file' = [Mark(earlier, "DELETED") EXCEPT ![f] = File("PENDING")]
           /\ bucket' = bucket \ {Tmp(g) : g \in earlier}
    /\ picking' = [picking EXCEPT ![f] = Idle]
    /\ UNCHANGED <<response, answer, req, swept, due>>

\* The browser sends the file to the store.
Post(f) ==
    /\ file[f].state = "PENDING"
    /\ bucket' = bucket \cup {Tmp(f)}
    /\ UNCHANGED <<file, response, answer, req, picking, swept, due>>

Complete(f, ok) ==
    /\ Quiet /\ file[f].state = "PENDING" /\ ~file[f].expired /\ Tmp(f) \in bucket
    /\ file' = Mark({f}, IF ok THEN "UPLOADED" ELSE "REJECTED")
    /\ bucket' = IF ok THEN bucket ELSE bucket \ {Tmp(f)}
    /\ UNCHANGED <<response, answer, req, picking, swept, due>>

Discard(f) ==
    /\ Quiet /\ file[f].state \in Active
    /\ file' = Mark({f}, "DELETED")
    /\ bucket' = bucket \ {Tmp(f)}
    /\ UNCHANGED <<response, answer, req, picking, swept, due>>

Expire(f) ==
    /\ file[f].state \in Active /\ ~file[f].expired
    /\ file' = [file EXCEPT ![f].expired = TRUE]
    /\ UNCHANGED <<bucket, response, answer, req, picking, swept, due>>

-----------------------------------------------------------------------------
(* Submitting and editing                                                  *)

\* One's own finished upload, or one already part of this response.
Usable(f) ==
    /\ f \in Own
    /\ file[f].state = "UPLOADED" \/ (file[f].state = "ATTACHED" /\ file[f].attached)

Resolve(r, refs) ==
    /\ Quiet /\ req[r] = Idle
    /\ Cardinality(refs) <= MaxFiles /\ \A f \in refs : Usable(f)
    /\ req' = [req EXCEPT ![r] = [op |-> "WRITE", refs |-> refs]]
    /\ UNCHANGED <<file, bucket, response, answer, picking, swept, due>>

Moving(refs) == {f \in refs : file[f].state = "UPLOADED"}

\* The response is saved (again, if it was deleted meanwhile) and the files
\* are copied and attached; those it no longer names are dropped.
Written(r) ==
    LET refs    == req[r].refs
        moving  == Moving(refs)
        dropped == {f \in Files \ refs : file[f].state = "ATTACHED" /\ file[f].attached}
    IN  /\ response' = TRUE /\ answer' = refs
        /\ file' = [f \in Files |->
               IF f \in moving THEN [state |-> "ATTACHED", attached |-> TRUE, expired |-> FALSE]
               ELSE IF f \in dropped THEN [file[f] EXCEPT !.state = "DELETED"] ELSE file[f]]
        /\ bucket' = bucket \cup {Final(f) : f \in moving}
        /\ due' = due \cup {Tmp(f) : f \in moving} \cup {Final(f) : f \in dropped}

\* Mutant: the files are attached as resolve_references found them.
AttachUnchecked(r) ==
    /\ Quiet /\ req[r] # Idle
    /\ Written(r)
    /\ req' = [req EXCEPT ![r] = Idle]
    /\ UNCHANGED <<picking, swept>>

Attach(r) ==
    /\ Quiet /\ req[r] # Idle
    /\ IF \A f \in req[r].refs : Usable(f) THEN Written(r)
       ELSE UNCHANGED <<file, bucket, response, answer, due>>
    /\ req' = [req EXCEPT ![r] = Idle]
    /\ UNCHANGED <<picking, swept>>

\* The store fails: rolled back, though some objects may have been copied.
CopyFails(r) ==
    /\ Quiet /\ req[r] # Idle /\ \A f \in req[r].refs : Usable(f)
    /\ \E copied \in SUBSET Moving(req[r].refs) :
          copied # Moving(req[r].refs) /\ bucket' = bucket \cup {Final(f) : f \in copied}
    /\ req' = [req EXCEPT ![r] = Idle]
    /\ UNCHANGED <<file, response, answer, picking, swept, due>>

DeleteObjects ==
    /\ due # {}
    /\ bucket' = bucket \ due /\ due' = {}
    /\ UNCHANGED <<file, response, answer, req, picking, swept>>

LoseDeletes ==
    /\ due # {}
    /\ due' = {}
    /\ UNCHANGED <<file, bucket, response, answer, req, picking, swept>>

-----------------------------------------------------------------------------
(* Admins, the scanner and the sweep                                       *)

\* remove_files, or _quarantine of a file with malware: out of the answer too.
Forget(f, states) ==
    /\ Quiet /\ file[f].state \in states
    /\ file' = Mark({f}, "DELETED")
    /\ answer' = answer \ {f}
    /\ due' = due \cup {Key(f)}
    /\ UNCHANGED <<bucket, response, req, picking, swept>>
Remove(f)     == Forget(f, {"ATTACHED"})
Quarantine(f) == Forget(f, {"UPLOADED", "ATTACHED"})

Replace(old, new) ==
    /\ Quiet /\ file[old].state = "ATTACHED" /\ file[old].attached
    /\ new \in Swaps /\ file[new].state = "UPLOADED"
    /\ file' = [Mark({old}, "DELETED") EXCEPT
                   ![new] = [state |-> "ATTACHED", attached |-> TRUE, expired |-> FALSE]]
    /\ answer' = {IF f = old THEN new ELSE f : f \in answer}
    /\ bucket' = bucket \cup {Final(new)}
    /\ due' = due \cup {Tmp(new), Final(old)}
    /\ UNCHANGED <<response, req, picking, swept>>

\* A cancellation or bulk_delete: the rows stay, without a response.
DeleteResponse ==
    /\ Quiet /\ response
    /\ response' = FALSE /\ answer' = {}
    /\ file' = [f \in Files |-> [file[f] EXCEPT !.attached = FALSE]]
    /\ due' = due \cup {Key(f) : f \in {g \in Files : file[g].attached /\ file[g].state # "DELETED"}}
    /\ UNCHANGED <<bucket, req, picking, swept>>

ListExpired ==
    /\ Quiet /\ swept = {}
    /\ swept' = {f \in Files : file[f].state \in Active /\ file[f].expired}
    /\ swept' # {}
    /\ UNCHANGED <<file, bucket, response, answer, req, picking, due>>

Sweep ==
    /\ swept # {}
    /\ file' = Mark(swept, "DELETED")
    /\ bucket' = bucket \ {Tmp(f) : f \in swept}
    /\ swept' = {}
    /\ UNCHANGED <<response, answer, req, picking, due>>

Upload(f) == \/ BeginPick(f) \/ CommitPick(f) \/ Post(f) \/ Discard(f) \/ Expire(f)
             \/ \E ok \in BOOLEAN : Complete(f, ok)
Submit(r) == \/ \E refs \in SUBSET Own : Resolve(r, refs)
             \/ Attach(r) \/ CopyFails(r)
Manage(f) == Remove(f) \/ Quarantine(f) \/ \E new \in Swaps : Replace(f, new)

Next == \/ \E f \in Files : Upload(f) \/ Manage(f)
        \/ \E r \in Requests : Submit(r)
        \/ DeleteResponse \/ DeleteObjects \/ LoseDeletes
        \/ ListExpired \/ Sweep
Spec == Init /\ [][Next]_vars

-----------------------------------------------------------------------------
(* An answer names every file attached to its response, and each file it   *)
(* names has its object, whatever was replaced, removed, discarded,        *)
(* quarantined, swept or rolled back between the time a submission looked  *)
(* at its files and the time it attached them, and whichever requests      *)
(* overlap.  When nothing comes between a listing of rows and its write,   *)
(* the files it names are all attached too.  (UploadState.ATTACHED: "Part  *)
(* of a response".)                                                        *)
AnswerNamesItsFiles ==
    LET attached == {f \in Files : file[f].state = "ATTACHED" /\ file[f].attached}
    IN  /\ attached \subseteq answer
        /\ Overlap \/ answer \subseteq attached
        /\ \A f \in answer : Final(f) \in bucket
=============================================================================
