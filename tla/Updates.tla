------------------------------- MODULE Updates -------------------------------
(***************************************************************************)
(* The update button: UpdateApplier.request and publishRequest             *)
(* (apps/api/src/services/update-apply.ts) and the host's updater          *)
(* (deploy/bin/metaclaude-updater) over the files of the exchange          *)
(* directory.  Every file operation of the app is awaited, so requests     *)
(* interleave between any two of them.                                     *)
(*                                                                         *)
(* A file is named by the request that created it: a link is one more name *)
(* of it, and a name may be removed while it is still written.             *)
(***************************************************************************)
EXTENDS Naturals, FiniteSets

CONSTANTS Requests,     \* presses of the button
          NoFile

ASSUME UpdatesAssumption == NoFile \notin Requests

VARIABLES
    step,       \* what each request does next, or how it ended
    written,    \* files whose body is there
    lockFile,   \* .request.json.tmp
    dead,       \* files whose writer is gone; their lock is stale in the end
    request,    \* request.json
    host,       \* the updater, and the file it has read
    outcome,    \* status.json
    \* For the properties:
    swept,      \* a lock was swept as stale
    published   \* files that were request.json with their body

updatesVars == <<step, written, lockFile, dead, request, host, outcome, swept, published>>

Ended == {"accepted", "refused", "gone"}
Readable(file) == file \in written

UpdatesInit ==
    /\ step = [r \in Requests |-> "unasked"]
    /\ written = {} /\ dead = {}
    /\ lockFile = NoFile /\ request = NoFile
    /\ host = [at |-> "waits", file |-> NoFile]
    /\ outcome = "idle"
    /\ swept = FALSE
    /\ published = {}

Goes(r, from, to) == step[r] = from /\ step' = [step EXCEPT ![r] = to]

-----------------------------------------------------------------------------
(* request *)

\* status: a pending request, or an update under way, refuses this one.
Asks(r) ==
    /\ Goes(r, "unasked", IF Readable(request) \/ outcome = "running" THEN "refused" ELSE "claim")
    /\ UNCHANGED <<written, lockFile, dead, request, host, outcome, swept, published>>

\* The exclusive creation of the lock, and the second swing after a sweep.
Claims(r) ==
    /\ \/ Goes(r, "claim", IF lockFile = NoFile THEN "write" ELSE "held")
       \/ Goes(r, "swing", IF lockFile = NoFile THEN "write" ELSE "refused")
    /\ lockFile' = IF lockFile = NoFile THEN r ELSE lockFile
    /\ UNCHANGED <<written, dead, request, host, outcome, swept, published>>

\* A lock that is gone by now counts as stale too.
JudgesLock(r) ==
    /\ \/ lockFile \in dead \cup {NoFile} /\ Goes(r, "held", "sweep")
       \/ lockFile # NoFile /\ Goes(r, "held", "refused")
    /\ UNCHANGED <<written, lockFile, dead, request, host, outcome, swept, published>>

Sweeps(r) ==
    /\ Goes(r, "sweep", "swing")
    /\ lockFile' = NoFile
    /\ swept' = TRUE
    /\ UNCHANGED <<written, dead, request, host, outcome, published>>

Writes(r) ==
    /\ Goes(r, "write", "publish")
    /\ written' = written \cup {r}
    /\ published' = IF request = r THEN published \cup {r} ELSE published
    /\ UNCHANGED <<lockFile, dead, request, host, outcome, swept>>

-----------------------------------------------------------------------------
(* publishRequest *)

Linked_Rename(r, taken) ==
    IF lockFile = NoFile THEN [step |-> "lost", request |-> request]
    ELSE [step |-> "won", request |-> lockFile]

\* link: refused on an existing destination, and on a lock that is gone.
Linked(r, taken) ==
    IF lockFile = NoFile THEN [step |-> "lost", request |-> request]
    ELSE IF request = NoFile THEN [step |-> "won", request |-> lockFile]
    ELSE [step |-> taken, request |-> request]

Arrives(r, from, taken) ==
    /\ LET l == Linked(r, taken)
       IN  /\ Goes(r, from, l.step)
           /\ request' = l.request
    /\ published' = IF Readable(request') THEN published \cup {request'} ELSE published
    /\ UNCHANGED <<written, lockFile, dead, host, outcome, swept>>

Publishes(r) == Arrives(r, "publish", "judge") \/ Arrives(r, "again", "lost")

\* A readable request has won; anything else is a leftover.
JudgesRequest(r) ==
    /\ Goes(r, "judge", IF Readable(request) THEN "lost" ELSE "clear")
    /\ UNCHANGED <<written, lockFile, dead, request, host, outcome, swept, published>>

Clears(r) ==
    /\ Goes(r, "clear", "again")
    /\ request' = NoFile
    /\ UNCHANGED <<written, lockFile, dead, host, outcome, swept, published>>

\* The lock is dropped, whosever it is, and the caller is told.
Drops(r) ==
    /\ Goes(r, "won", "accepted") \/ Goes(r, "lost", "refused")
    /\ lockFile' = NoFile
    /\ UNCHANGED <<written, dead, request, host, outcome, swept, published>>

\* The app dies, or is replaced by the update: its locks are left behind.
AppDies ==
    /\ \E r \in Requests : step[r] \notin Ended \cup {"unasked"}
    /\ step' = [r \in Requests |-> IF step[r] \in Ended \cup {"unasked"} THEN step[r] ELSE "gone"]
    /\ dead' = dead \cup {r \in Requests : step[r] \notin Ended \cup {"unasked"}}
    /\ UNCHANGED <<written, lockFile, request, host, outcome, swept, published>>

-----------------------------------------------------------------------------
(* metaclaude-updater, one at a time *)

HostReads ==
    /\ host.at = "waits" /\ request # NoFile
    /\ host' = [at |-> "read", file |-> IF Readable(request) THEN request ELSE NoFile]
    /\ UNCHANGED <<step, written, lockFile, dead, request, outcome, swept, published>>

HostRemoves ==
    /\ host.at = "read"
    /\ host' = [host EXCEPT !.at = "removed"]
    /\ request' = NoFile
    /\ UNCHANGED <<step, written, lockFile, dead, outcome, swept, published>>

HostDeploys ==
    /\ host.at = "removed"
    /\ IF host.file = NoFile
         THEN host' = [host EXCEPT !.at = "waits"] /\ outcome' = "failed"
         ELSE host' = [host EXCEPT !.at = "deploys"] /\ outcome' = "running"
    /\ UNCHANGED <<step, written, lockFile, dead, request, swept, published>>

HostEnds(result) ==
    /\ host.at = "deploys"
    /\ host' = [host EXCEPT !.at = "waits"]
    /\ outcome' = result
    /\ UNCHANGED <<step, written, lockFile, dead, request, swept, published>>

UpdatesNext ==
    \/ \E r \in Requests :
         \/ Asks(r) \/ Claims(r) \/ JudgesLock(r) \/ Sweeps(r) \/ Writes(r)
         \/ Publishes(r) \/ JudgesRequest(r) \/ Clears(r) \/ Drops(r)
    \/ AppDies
    \/ HostReads \/ HostRemoves \/ HostDeploys \/ \E result \in {"succeeded", "failed"} : HostEnds(result)

UpdatesSpec == UpdatesInit /\ [][UpdatesNext]_updatesVars

-----------------------------------------------------------------------------
(* Properties *)

\* publishRequest, "whoever arrives first publishes, everyone else is
\* refused": whatever presses and deaths of the app interleave, a readable
\* request is replaced or removed by nobody but the host, unless a lock was
\* swept as stale.
OnlyTheHostTakesIt ==
    [][~swept' /\ Readable(request) /\ request' # request => host.at = "read"]_updatesVars

-----------------------------------------------------------------------------
(* What the comments promise and the code does not keep *)

\* publishRequest, "the host's path unit can never read a half-written file":
\* a lock swept as stale may be under another writer's hands.
NeverHalfWritten == host.at # "waits" => host.file # NoFile

\* publishRequest, of the rename it replaced, "Both callers were told they had
\* won": whoever is told of success has had its own version published.
AcceptedIsPublished == \A r \in Requests : step[r] = "accepted" => r \in published
=============================================================================
