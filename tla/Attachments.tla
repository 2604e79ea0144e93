----------------------------- MODULE Attachments -----------------------------
(***************************************************************************)
(* The files people attach, apps/api/src/services/attachments.ts: uploads  *)
(* of one content share one file of the workspace, a message binds the     *)
(* pending ones to its run, and three flows delete them: the cross on an   *)
(* upload, the janitor's reaping of those never sent, and run retention    *)
(* (services/run-retention.ts).  Writing and unlinking a file are awaited. *)
(*                                                                         *)
(* Abstracted: the checks of an upload; its name, so that a content is one *)
(* file; ages, to a choice of what is old; one workspace, and one run in a *)
(* sweep.                                                                  *)
(***************************************************************************)
EXTENDS Naturals, FiniteSets

CONSTANTS Uploads, Contents,
          Messages,     \* the runs that carry them
          Deleters,     \* flows that delete
          Absent

ASSUME AttachmentsAssumption ==
    Absent \notin Contents \cup Messages \cup {"pending"} /\ "pending" \notin Messages

VARIABLES
    upload,     \* the row of each, content Absent if there is none
    disk,       \* contents in attachments/
    saving,     \* what save awaits
    message,    \* runs: "none", "live" or "ended"
    deleter,    \* what each flow has left of its listing, and is unlinking
    \* For the properties:
    raced,      \* contents written while being unlinked, or when the process
                \* died in the middle of writing or unlinking them
    forsaken    \* contents whose rows went with their session

attachmentVars == <<upload, disk, saving, message, deleter, raced, forsaken>>

NoUpload == [content |-> Absent, run |-> Absent]
NotSaving == [content |-> Absent, wrote |-> FALSE]
AtRest == [kind |-> "none", left |-> {}, run |-> Absent, unlinks |-> Absent]

IsNamed(c, rows) == \E u \in Uploads : rows[u].content = c

AttachmentsInit ==
    /\ upload = [u \in Uploads |-> NoUpload]
    /\ disk = {}
    /\ saving = [u \in Uploads |-> NotSaving]
    /\ message = [m \in Messages |-> "none"]
    /\ deleter = [d \in Deleters |-> AtRest]
    /\ raced = {} /\ forsaken = {}

-----------------------------------------------------------------------------
(* save *)

\* A content the workspace has is not written again.
Save(u, c) ==
    /\ upload[u] = NoUpload /\ saving[u] = NotSaving
    /\ ~\E d \in Deleters : \E x \in deleter[d].left : x.id = u
    /\ IF IsNamed(c, upload)
         THEN /\ upload' = [upload EXCEPT ![u] = [content |-> c, run |-> "pending"]]
              /\ UNCHANGED saving
         ELSE /\ saving' = [saving EXCEPT ![u].content = c]
              /\ UNCHANGED upload
    /\ UNCHANGED <<disk, message, deleter, raced, forsaken>>

FileWritten(u) ==
    /\ saving[u].content # Absent /\ ~saving[u].wrote
    /\ saving' = [saving EXCEPT ![u].wrote = TRUE]
    /\ disk' = disk \cup {saving[u].content}
    /\ UNCHANGED <<upload, message, deleter, raced, forsaken>>

Saved(u) ==
    /\ saving[u].wrote
    /\ saving' = [saving EXCEPT ![u] = NotSaving]
    /\ upload' = [upload EXCEPT ![u] = [content |-> saving[u].content, run |-> "pending"]]
    /\ UNCHANGED <<disk, message, deleter, raced, forsaken>>

-----------------------------------------------------------------------------
(* bind, in submit *)

Sent(us, m) == [u \in Uploads |-> IF u \in us THEN [upload[u] EXCEPT !.run = m] ELSE upload[u]]

\* One that is not pending fails the run; those before it stay bound.
Send(m, us, bound) ==
    /\ message[m] = "none" /\ us # {}
    /\ \A d \in Deleters : deleter[d].run # m
    /\ bound \subseteq us /\ \A u \in bound : upload[u].run = "pending"
    /\ (\A u \in us : upload[u].run = "pending") => bound = us
    /\ message' = [message EXCEPT ![m] = IF bound = us THEN "live" ELSE "ended"]
    /\ upload' = Sent(bound, m)
    /\ UNCHANGED <<disk, saving, deleter, raced, forsaken>>

MessageEnds(m) ==
    /\ message[m] = "live"
    /\ message' = [message EXCEPT ![m] = "ended"]
    /\ UNCHANGED <<upload, disk, saving, deleter, raced, forsaken>>

-----------------------------------------------------------------------------
(* Deleting *)

Listed(us) == {[id |-> u, content |-> upload[u].content] : u \in us}
OfRun(m) == {u \in Uploads : upload[u].run = m}

DoomedFiles_LeftToTheCascade(m) == {}

DoomedFiles(m) == Listed(OfRun(m))

\* deleteRowAndMaybeFile, for one of the rows a flow has listed: the file goes
\* when no other row names it.  Retention looks its row up first.
Deletes(d, job) ==
    \E x \in job.left :
        LET found == job.kind = "retention" => upload[x.id] # NoUpload
        IN  /\ upload' = [upload EXCEPT ![x.id] = NoUpload]
            /\ deleter' = [deleter EXCEPT ![d] =
                 [job EXCEPT !.left = @ \ {x},
                             !.unlinks = IF found /\ ~IsNamed(x.content, upload') THEN x.content ELSE Absent]]

RemoveUpload(d, u) ==
    /\ upload[u].run = "pending"
    /\ Deletes(d, [AtRest EXCEPT !.kind = "remove", !.left = Listed({u})])

\* collectOrphans lists the old ones at once.
CollectOrphans(d, old) ==
    /\ old # {} /\ \A u \in old : upload[u].run = "pending"
    /\ Deletes(d, [AtRest EXCEPT !.kind = "orphans", !.left = Listed(old)])

\* sweep, for one run that has ended.
Retain(d, m) ==
    /\ message[m] = "ended"
    /\ LET job == [AtRest EXCEPT !.kind = "retention", !.run = m, !.left = DoomedFiles(m)]
       IN  IF job.left = {} THEN deleter' = [deleter EXCEPT ![d] = job] /\ UNCHANGED upload
           ELSE Deletes(d, job)

Begins(d) ==
    /\ deleter[d] = AtRest
    /\ \/ \E u \in Uploads : RemoveUpload(d, u)
       \/ \E old \in SUBSET Uploads : CollectOrphans(d, old)
       \/ \E m \in Messages : Retain(d, m)
    /\ UNCHANGED <<disk, saving, message, raced, forsaken>>

GoesOn(d) ==
    /\ deleter[d].unlinks = Absent
    /\ Deletes(d, deleter[d])
    /\ UNCHANGED <<disk, saving, message, raced, forsaken>>

\* An upload of this content that is not recorded yet loses its file.
Unlinks(d) ==
    /\ deleter[d].unlinks # Absent
    /\ LET c == deleter[d].unlinks
       IN  /\ disk' = disk \ {c}
           /\ raced' = IF (\E u \in Uploads : saving[u].content = c) \/ IsNamed(c, upload)
                         THEN raced \cup {c} ELSE raced
    /\ deleter' = [deleter EXCEPT ![d].unlinks = Absent]
    /\ UNCHANGED <<upload, saving, message, forsaken>>

\* The sweep of runs deletes the rows in the end, and theirs with them.
Finishes(d) ==
    /\ deleter[d] # AtRest /\ deleter[d].left = {} /\ deleter[d].unlinks = Absent
    /\ deleter' = [deleter EXCEPT ![d] = AtRest]
    /\ LET m == deleter[d].run
       IN  IF m \in Messages
             THEN /\ message' = [message EXCEPT ![m] = "none"]
                  /\ upload' = [u \in Uploads |-> IF upload[u].run = m THEN NoUpload ELSE upload[u]]
             ELSE UNCHANGED <<message, upload>>
    /\ UNCHANGED <<disk, saving, raced, forsaken>>

\* Deleting a session takes its rows and leaves its files.
DropSession(us) ==
    /\ us # {} /\ \A u \in us : upload[u] # NoUpload
    /\ upload' = [u \in Uploads |-> IF u \in us THEN NoUpload ELSE upload[u]]
    /\ forsaken' = forsaken \cup {upload[u].content : u \in us}
    /\ UNCHANGED <<disk, saving, message, deleter, raced>>

\* The process dies in the middle of any of them.
Dies ==
    /\ saving' = [u \in Uploads |-> NotSaving]
    /\ deleter' = [d \in Deleters |-> AtRest]
    /\ raced' = raced \cup {saving[u].content : u \in Uploads} \cup {deleter[d].unlinks : d \in Deleters}
    /\ message' = [m \in Messages |-> IF message[m] = "live" THEN "ended" ELSE message[m]]
    /\ UNCHANGED <<upload, disk, forsaken>>

AttachmentsNext ==
    \/ \E u \in Uploads, c \in Contents : Save(u, c)
    \/ \E u \in Uploads : FileWritten(u) \/ Saved(u)
    \/ \E m \in Messages, us, bound \in SUBSET Uploads : Send(m, us, bound)
    \/ \E m \in Messages : MessageEnds(m)
    \/ \E d \in Deleters : Begins(d) \/ GoesOn(d) \/ Unlinks(d) \/ Finishes(d)
    \/ \E us \in SUBSET Uploads : DropSession(us)
    \/ Dies

AttachmentsSpec == AttachmentsInit /\ [][AttachmentsNext]_attachmentVars

-----------------------------------------------------------------------------
(* Properties *)

\* deleteRowAndMaybeFile and retention's "files first": however the three
\* flows and uploads of one content interleave, a file is there as long as a
\* row names it and goes with the last one, unless an upload of it raced its
\* unlinking, the process died under it or its session was deleted.
FilesFollowRows ==
    \A c \in Contents \ (raced \cup forsaken) :
        /\ ~\E u \in Uploads : saving[u].content = c
        /\ ~\E d \in Deleters : deleter[d].unlinks = c
        => (c \in disk <=> IsNamed(c, upload))

-----------------------------------------------------------------------------
(* What the comments promise and the code does not keep *)

\* collectOrphans, "Bound rows are never touched": the listing is read once,
\* and an upload sent while it is worked through is deleted from its run.
BoundIsNeverTouched ==
    [][\A u \in Uploads : upload[u].run \in Messages /\ upload'[u] = NoUpload
         => message[upload[u].run] = "ended" \/ forsaken' # forsaken]_attachmentVars

\* save: a row's file is on disk.
EveryRowHasItsFile == \A u \in Uploads : upload[u] # NoUpload => upload[u].content \in disk
=============================================================================
