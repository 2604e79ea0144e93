-------------------------- MODULE ApprovalsProofs --------------------------
(* The permission prompts for any sessions, runs, tools and lists of       *)
(* pre-approved tools, and any finite set of calls.                        *)
EXTENDS Approvals, TLAPS, FiniteSetTheorems

Turns == {"new", "done"} \cup InFlight
Asking == {"pending", "settled"}
AskingOf(r) == {c \in Calls : call[c].run = r /\ state[c] \in Asking}

-----------------------------------------------------------------------------
(* The invariant, in parts *)

\* TypeOK, the counters' bounds apart.
TypeInv ==
    /\ turn \in [Runs -> Turns]
    /\ sess \in [Runs -> Sessions \cup {None}]
    /\ runStatus \in [Runs -> {"queued", "running", "waiting_approval", "finished"}]
    /\ sessionStatus \in [Sessions -> {"idle", "running", "waiting_approval", "error"}]
    /\ call \in [Calls -> [run : Runs \cup {None}, tool : Tools \cup {None}, risk : Risks]]
    /\ state \in [Calls -> {"unused", "pending", "settled", "returned", "lost"}]
    /\ answer \in [Calls -> {"none", "allow", "deny"}]
    /\ decidedBy \in [Calls -> {"nobody", "operator", "steward", "grant", "workspace", "withdrawn"}]
    /\ timers \in SUBSET Calls /\ listeners \in SUBSET Calls
    /\ DOMAIN sessionGrants \subseteq Sessions \X Tools \X Risks
    /\ \A k \in DOMAIN sessionGrants : sessionGrants[k] \in BOOLEAN
    /\ outstanding \in [Runs -> Int]
    /\ awaitingApproval \in [Runs -> Int]
    /\ idleArmed \in SUBSET Runs /\ aborted \in SUBSET Runs
    /\ deleted \in SUBSET Sessions
    /\ up \in BOOLEAN

\* A run that began has a session, which is not deleted while it is in
\* flight, and a process.
RunInv ==
    \A r \in Runs :
        /\ turn[r] # "new" => sess[r] \in Sessions
        /\ turn[r] \in InFlight => up /\ sess[r] \notin deleted

\* A call in use is a run's that began.
CallInv ==
    \A c \in Calls : state[c] # "unused" =>
        call[c].run \in Runs /\ call[c].tool \in Tools /\ turn[call[c].run] # "new"

\* A call without an answer has not been answered.
AnswerInv ==
    \A c \in Calls : state[c] \in {"unused", "pending"} => answer[c] = "none" /\ decidedBy[c] = "nobody"

Shape == TypeInv /\ RunInv /\ CallInv /\ AnswerInv /\ NoOrphanCard

-----------------------------------------------------------------------------
(* What the settling actions have in common *)

\* Some open cards are closed with one verdict.
Settles(C, verdict, who) ==
    /\ C \subseteq {c \in Calls : state[c] = "pending"}
    /\ Answered(C, verdict, who)
    /\ timers' = timers \ C
    /\ listeners' \subseteq listeners
    /\ UNCHANGED call

Closers == {"operator", "steward", "withdrawn"}

SettlingSome == \E C \in SUBSET Calls, verdict \in {"allow", "deny"}, who \in Closers : Settles(C, verdict, who)

LEMMA LeaveSettles ==
    ASSUME NEW r \in Runs, Leave(r)
    PROVE  Settles(PendingOf(r), "deny", "withdrawn")
BY DEF Leave, Settles, ResolveAll, PendingOf, CallsOf

LEMMA InterruptSettles ==
    ASSUME NEW r \in Runs, Interrupt(r)
    PROVE  Settles(PendingOf(r), "deny", "withdrawn")
BY DEF Interrupt, Settles, ResolveAll, PendingOf, CallsOf

LEMMA DecideSettles ==
    ASSUME NEW c \in Calls, NEW approved, NEW remember, Decide(c, approved, remember)
    PROVE  Settles({c}, IF approved THEN "allow" ELSE "deny", "operator")
BY DEF Decide, HasEntry, Settles, ResolveAll

LEMMA StewardSettles ==
    ASSUME NEW actor \in Runs \cup {Elsewhere}, NEW c \in Calls, NEW approved, StewardDecide(actor, c, approved)
    PROVE  Settles({c}, IF approved THEN "allow" ELSE "deny", "steward")
BY DEF StewardDecide, HasEntry, Settles, ResolveAll

LEMMA ExpireSettles ==
    ASSUME NEW c \in Calls, Expire(c)
    PROVE  Settles({c}, "deny", "withdrawn")
BY DEF Expire, Settle, HasEntry, Settles

LEMMA SignalSettles ==
    ASSUME NEW c \in Calls, SignalFires(c)
    PROVE  \/ Settles({c}, "deny", "withdrawn")
           \/ UNCHANGED <<call, state, answer, decidedBy, timers>> /\ listeners' \subseteq listeners
BY DEF SignalFires, Settle, HasEntry, Settles

LEMMA SettlesType ==
    ASSUME TypeInv, NEW C, NEW verdict \in {"allow", "deny"}, NEW who \in Closers, Settles(C, verdict, who)
    PROVE  /\ call' \in [Calls -> [run : Runs \cup {None}, tool : Tools \cup {None}, risk : Risks]]
           /\ state' \in [Calls -> {"unused", "pending", "settled", "returned", "lost"}]
           /\ answer' \in [Calls -> {"none", "allow", "deny"}]
           /\ decidedBy' \in [Calls -> {"nobody", "operator", "steward", "grant", "workspace", "withdrawn"}]
           /\ timers' \in SUBSET Calls /\ listeners' \in SUBSET Calls
BY DEF TypeInv, Settles, Answered, Closers

\* Call by call.
LEMMA SettlesEach ==
    ASSUME NEW C, NEW verdict, NEW who, Settles(C, verdict, who), NEW c \in Calls
    PROVE  /\ call'[c] = call[c]
           /\ c \in C => state[c] = "pending" /\ state'[c] = "settled" /\ answer'[c] = verdict /\ decidedBy'[c] = who
           /\ c \notin C => state'[c] = state[c] /\ answer'[c] = answer[c] /\ decidedBy'[c] = decidedBy[c]
BY DEF Settles, Answered

-----------------------------------------------------------------------------
LEMMA TypeInit == Init => TypeInv
BY DEF Init, TypeInv, Turns, Risks

LEMMA TypeStep == TypeInv /\ RunInv /\ CallInv /\ [Next]_vars => TypeInv'
<1> SUFFICES ASSUME TypeInv, RunInv, CallInv, [Next]_vars PROVE TypeInv'
  OBVIOUS
<1> USE DEF InFlight, Turns
<1>1. ASSUME NEW r \in Runs, NEW s \in Sessions, Begin(r, s) PROVE TypeInv'
  BY <1>1 DEF Begin, TypeInv, calls
<1>2. ASSUME NEW r \in Runs, Message(r) PROVE TypeInv'
  BY <1>2 DEF Message, Touched, TypeInv, rows, calls
<1>3. ASSUME NEW r \in Runs, TurnEnds(r) PROVE TypeInv'
  BY <1>3 DEF TurnEnds, TypeInv, rows, calls
<1>4. ASSUME NEW r \in Runs, Record(r) PROVE TypeInv'
  <2>1. PICK st \in {"idle", "error"} : sessionStatus' = [sessionStatus EXCEPT ![sess[r]] = st]
    BY <1>4 DEF Record
  <2> QED BY <1>4, <2>1 DEF Record, TypeInv, calls, meters
<1>5. ASSUME NEW r \in Runs, RecordThrows(r) PROVE TypeInv'
  BY <1>5 DEF RecordThrows, TypeInv, rows, calls, meters
<1>6. ASSUME NEW r \in Runs, Leave(r) PROVE TypeInv'
  <2>1. Settles(PendingOf(r), "deny", "withdrawn") BY <1>6, LeaveSettles
  <2> QED BY <1>6, <2>1, SettlesType DEF Leave, TypeInv, rows, meters, Closers
<1>7. ASSUME NEW r \in Runs, Fail(r) PROVE TypeInv'
  BY <1>7 DEF Fail, TypeInv, calls, meters
<1>8. ASSUME NEW r \in Runs, IdleExpires(r) PROVE TypeInv'
  BY <1>8 DEF IdleExpires, TypeInv, rows, calls
<1>9. ASSUME NEW r \in Runs, Abort(r) PROVE TypeInv'
  BY <1>9 DEF Abort, TypeInv, rows, calls, meters
<1>10. ASSUME NEW r \in Runs, Interrupt(r) PROVE TypeInv'
  <2>1. Settles(PendingOf(r), "deny", "withdrawn") BY <1>10, InterruptSettles
  <2> QED BY <1>10, <2>1, SettlesType DEF Interrupt, TypeInv, rows, meters, Closers
<1>11. ASSUME NEW c \in Calls, NEW r \in Runs, NEW tool \in Tools, NEW risk \in Risks, Ask(c, r, tool, risk)
       PROVE  TypeInv'
  <2>1. call' \in [Calls -> [run : Runs \cup {None}, tool : Tools \cup {None}, risk : Risks]]
    BY <1>11 DEF Ask, TypeInv
  <2>2. /\ state' \in [Calls -> {"unused", "pending", "settled", "returned", "lost"}]
        /\ answer' \in [Calls -> {"none", "allow", "deny"}]
        /\ decidedBy' \in [Calls -> {"nobody", "operator", "steward", "grant", "workspace", "withdrawn"}]
        /\ timers' \in SUBSET Calls /\ listeners' \in SUBSET Calls
    BY <1>11 DEF Ask, Answered, TypeInv
  <2>3. /\ runStatus' \in [Runs -> {"queued", "running", "waiting_approval", "finished"}]
        /\ sessionStatus' \in [Sessions -> {"idle", "running", "waiting_approval", "error"}]
    <3>1. UNCHANGED rows \/ OnWaitingChange(r, "waiting_approval") BY <1>11 DEF Ask
    <3>2. CASE UNCHANGED rows BY <3>2 DEF TypeInv, rows
    <3>3. CASE OnWaitingChange(r, "waiting_approval") BY <3>3 DEF OnWaitingChange, TypeInv
    <3> QED BY <3>1, <3>2, <3>3
  <2>4. /\ outstanding' \in [Runs -> Int] /\ awaitingApproval' \in [Runs -> Int]
        /\ idleArmed' \in SUBSET Runs
    BY <1>11 DEF Ask, Touched, TypeInv
  <2> QED BY <1>11, <2>1, <2>2, <2>3, <2>4 DEF Ask, TypeInv
<1>12. ASSUME NEW c \in Calls, NEW r \in Runs, NEW tool \in Tools, NEW risk \in Risks, AskPreapproved(c, r, tool, risk)
       PROVE  TypeInv'
  BY <1>12 DEF AskPreapproved, TypeInv, rows, meters
<1>13. ASSUME NEW c \in Calls, NEW approved \in BOOLEAN, NEW remember \in BOOLEAN, Decide(c, approved, remember)
       PROVE  TypeInv'
  <2>1. Settles({c}, IF approved THEN "allow" ELSE "deny", "operator") BY <1>13, DecideSettles
  <2>2. KeyOf(c) \in Sessions \X Tools \X Risks
    <3>1. call[c] \in [run : Runs \cup {None}, tool : Tools \cup {None}, risk : Risks] BY DEF TypeInv
    <3>2. call[c].run \in Runs /\ call[c].tool \in Tools /\ sess[call[c].run] \in Sessions
      BY <1>13 DEF Decide, HasEntry, CallInv, RunInv
    <3> QED BY <3>1, <3>2 DEF KeyOf, GrantKey
  <2>3. /\ DOMAIN sessionGrants' \subseteq Sessions \X Tools \X Risks
        /\ \A k \in DOMAIN sessionGrants' : sessionGrants'[k] \in BOOLEAN
    <3> DEFINE key == KeyOf(c)
               next == [k \in DOMAIN sessionGrants \cup {key} |-> IF k = key THEN approved ELSE sessionGrants[k]]
    <3>1. sessionGrants' = next \/ sessionGrants' = sessionGrants
      BY <1>13 DEF Decide
    <3>2. DOMAIN next = DOMAIN sessionGrants \cup {key} /\ \A k \in DOMAIN next : next[k] \in BOOLEAN
      BY DEF TypeInv
    <3> HIDE DEF next
    <3> QED BY <2>2, <3>1, <3>2 DEF TypeInv
  <2> QED BY <1>13, <2>1, <2>3, SettlesType DEF Decide, TypeInv, rows, meters, Closers
<1>14. ASSUME NEW actor \in Runs \cup {Elsewhere}, NEW c \in Calls, NEW approved \in BOOLEAN, StewardDecide(actor, c, approved)
       PROVE  TypeInv'
  <2>1. Settles({c}, IF approved THEN "allow" ELSE "deny", "steward") BY <1>14, StewardSettles
  <2> QED BY <1>14, <2>1, SettlesType DEF StewardDecide, TypeInv, rows, meters, Closers
<1>15. ASSUME NEW c \in Calls, Expire(c) PROVE TypeInv'
  <2>1. Settles({c}, "deny", "withdrawn") BY <1>15, ExpireSettles
  <2> QED BY <1>15, <2>1, SettlesType DEF Expire, TypeInv, rows, meters, Closers
<1>16. ASSUME NEW c \in Calls, SignalFires(c) PROVE TypeInv'
  <2>1. CASE Settles({c}, "deny", "withdrawn")
    BY <1>16, <2>1, SettlesType DEF SignalFires, TypeInv, rows, meters, Closers
  <2>2. CASE UNCHANGED <<call, state, answer, decidedBy, timers>> /\ listeners' \subseteq listeners
    BY <1>16, <2>2 DEF SignalFires, TypeInv, rows, meters
  <2> QED BY <1>16, <2>1, <2>2, SignalSettles
<1>17. ASSUME NEW c \in Calls, Resume(c) PROVE TypeInv'
  <2>1. call[c].run \in Runs /\ sess[call[c].run] \in Sessions
    BY <1>17 DEF Resume, CallInv, RunInv
  <2>2. /\ runStatus' \in [Runs -> {"queued", "running", "waiting_approval", "finished"}]
        /\ sessionStatus' \in [Sessions -> {"idle", "running", "waiting_approval", "error"}]
    <3>1. UNCHANGED rows \/ OnWaitingChange(call[c].run, "running") BY <1>17 DEF Resume
    <3>2. CASE UNCHANGED rows BY <3>2 DEF TypeInv, rows
    <3>3. CASE OnWaitingChange(call[c].run, "running") BY <3>3 DEF OnWaitingChange, TypeInv
    <3> QED BY <3>1, <3>2, <3>3
  <2>3. /\ outstanding' \in [Runs -> Int] /\ awaitingApproval' \in [Runs -> Int]
        /\ idleArmed' \in SUBSET Runs
    BY <1>17, <2>1 DEF Resume, Touched, TypeInv
  <2> QED BY <1>17, <2>2, <2>3 DEF Resume, TypeInv
<1>18. ASSUME NEW s \in Sessions, DeleteSession(s) PROVE TypeInv'
  BY <1>18 DEF DeleteSession, TypeInv, rows, calls, meters
<1>19. CASE Crash
  <2>1. sessionGrants' = [k \in {} |-> TRUE] BY <1>19 DEF Crash
  <2>2. DOMAIN sessionGrants' = {} BY <2>1
  <2>3. /\ turn' \in [Runs -> Turns] /\ state' \in [Calls -> {"unused", "pending", "settled", "returned", "lost"}]
        /\ outstanding' \in [Runs -> Int] /\ awaitingApproval' \in [Runs -> Int]
    BY <1>19 DEF Crash, TypeInv
  <2> QED BY <1>19, <2>2, <2>3 DEF Crash, TypeInv, rows
<1>20. CASE Boot
  BY <1>20 DEF Boot, TypeInv, calls, meters
<1>21. CASE UNCHANGED vars
  BY <1>21 DEF vars, TypeInv, rows, calls, meters
<1> QED
  BY <1>1, <1>2, <1>3, <1>4, <1>5, <1>6, <1>7, <1>8, <1>9, <1>10, <1>11, <1>12, <1>13, <1>14, <1>15, <1>16,
     <1>17, <1>18, <1>19, <1>20, <1>21
  DEF Next, Turn, Card

-----------------------------------------------------------------------------
(* What a step does to one call *)

Verdict(approved) == IF approved THEN "allow" ELSE "deny"

Kept(c) == call'[c] = call[c] /\ state'[c] = state[c] /\ answer'[c] = answer[c] /\ decidedBy'[c] = decidedBy[c]

Closed(c) ==
    /\ state[c] = "pending" /\ state'[c] = "settled" /\ call'[c] = call[c]
    /\ answer'[c] \in {"allow", "deny"} /\ decidedBy'[c] \in Closers
    /\ answer'[c] = "allow" /\ call[c].risk = "high" => decidedBy'[c] = "operator"

Asked(c) ==
    /\ state[c] = "unused" /\ UNCHANGED <<turn, sess>>
    /\ \E r \in Runs, tool \in Tools, risk \in Risks :
         /\ turn[r] = "live"
         /\ call'[c] = [run |-> r, tool |-> tool, risk |-> risk]
         /\ \/ state'[c] = "pending" /\ c \in timers' /\ answer'[c] = answer[c] /\ decidedBy'[c] = decidedBy[c]
            \/ state'[c] = "settled" /\ answer'[c] = "deny" /\ decidedBy'[c] = "withdrawn"
            \/ /\ state'[c] = "settled" /\ decidedBy'[c] = "grant"
               /\ <<sess[r], tool, risk>> \in DOMAIN sessionGrants
               /\ answer'[c] = Verdict(sessionGrants[<<sess[r], tool, risk>>])
            \/ state'[c] = "returned" /\ answer'[c] = "allow" /\ decidedBy'[c] = "workspace"

Over(c) ==
    /\ state[c] \in Asking /\ state'[c] \in {"returned", "lost"}
    /\ call'[c] = call[c] /\ answer'[c] = answer[c] /\ decidedBy'[c] = decidedBy[c]

Move(c) == Kept(c) \/ Closed(c) \/ Asked(c) \/ Over(c)

LEMMA SettlesMove ==
    ASSUME NEW C, NEW verdict \in {"allow", "deny"}, NEW who \in Closers, Settles(C, verdict, who), NEW c \in Calls,
           verdict = "allow" /\ c \in C /\ call[c].risk = "high" => who = "operator"
    PROVE  Kept(c) \/ Closed(c)
<1>1. CASE c \in C BY <1>1, SettlesEach DEF Closed
<1>2. CASE c \notin C BY <1>2, SettlesEach DEF Kept
<1> QED BY <1>1, <1>2

LEMMA Moves ==
    ASSUME TypeInv, [Next]_vars, NEW c \in Calls
    PROVE  Move(c)
<1> USE DEF Closers
<1>1. ASSUME UNCHANGED <<call, state, answer, decidedBy>> PROVE Move(c)
  BY <1>1 DEF Move, Kept
<1>2. ASSUME NEW r \in Runs, NEW s \in Sessions, Begin(r, s) PROVE Move(c)
  BY <1>1, <1>2 DEF Begin, calls
<1>3. ASSUME NEW r \in Runs,
             Message(r) \/ TurnEnds(r) \/ Record(r) \/ RecordThrows(r) \/ Fail(r) \/ IdleExpires(r) \/ Abort(r)
      PROVE  Move(c)
  BY <1>1, <1>3 DEF Message, TurnEnds, Record, RecordThrows, Fail, IdleExpires, Abort, calls
<1>4. ASSUME NEW r \in Runs, Leave(r) \/ Interrupt(r) PROVE Move(c)
  <2>1. Settles(PendingOf(r), "deny", "withdrawn") BY <1>4, LeaveSettles, InterruptSettles
  <2> QED BY <2>1, SettlesMove DEF Move
<1>5. ASSUME NEW d \in Calls, NEW r \in Runs, NEW tool \in Tools, NEW risk \in Risks, Ask(d, r, tool, risk)
      PROVE  Move(c)
  <2>1. /\ state[d] = "unused" /\ turn[r] = "live" /\ UNCHANGED <<turn, sess>>
        /\ call' = [call EXCEPT ![d] = [run |-> r, tool |-> tool, risk |-> risk]]
    BY <1>5 DEF Ask
  <2>2. \/ /\ <<sess[r], tool, risk>> \in DOMAIN sessionGrants
           /\ Answered({d}, Verdict(sessionGrants[<<sess[r], tool, risk>>]), "grant")
        \/ /\ state' = [state EXCEPT ![d] = "pending"] /\ timers' = timers \cup {d} /\ UNCHANGED <<answer, decidedBy>>
        \/ Answered({d}, "deny", "withdrawn")
    BY <1>5 DEF Ask, GrantKey, Verdict
  <2>3. CASE c # d
    BY <2>1, <2>2, <2>3 DEF Answered, Move, Kept, TypeInv
  <2>4. CASE c = d
    <3>1. call'[c] = [run |-> r, tool |-> tool, risk |-> risk]
      BY <2>1, <2>4 DEF TypeInv
    <3>2. \/ state'[c] = "pending" /\ c \in timers' /\ answer'[c] = answer[c] /\ decidedBy'[c] = decidedBy[c]
          \/ state'[c] = "settled" /\ answer'[c] = "deny" /\ decidedBy'[c] = "withdrawn"
          \/ /\ state'[c] = "settled" /\ decidedBy'[c] = "grant"
             /\ <<sess[r], tool, risk>> \in DOMAIN sessionGrants
             /\ answer'[c] = Verdict(sessionGrants[<<sess[r], tool, risk>>])
      BY <2>2, <2>4 DEF Answered, TypeInv
    <3> QED BY <2>1, <2>4, <3>1, <3>2 DEF Move, Asked
  <2> QED BY <2>3, <2>4
<1>6. ASSUME NEW d \in Calls, NEW r \in Runs, NEW tool \in Tools, NEW risk \in Risks, AskPreapproved(d, r, tool, risk)
      PROVE  Move(c)
  <2>1. CASE c # d
    BY <1>6, <2>1 DEF AskPreapproved, Move, Kept, TypeInv
  <2>2. CASE c = d
    <3>1. /\ call'[c] = [run |-> r, tool |-> tool, risk |-> risk]
          /\ state'[c] = "returned" /\ answer'[c] = "allow" /\ decidedBy'[c] = "workspace"
      BY <1>6, <2>2 DEF AskPreapproved, TypeInv
    <3> QED BY <1>6, <2>2, <3>1 DEF AskPreapproved, Move, Asked
  <2> QED BY <2>1, <2>2
<1>7. ASSUME NEW d \in Calls, NEW approved \in BOOLEAN, NEW remember \in BOOLEAN, Decide(d, approved, remember)
      PROVE  Move(c)
  BY <1>7, DecideSettles, SettlesMove DEF Move
<1>8. ASSUME NEW actor \in Runs \cup {Elsewhere}, NEW d \in Calls, NEW approved \in BOOLEAN, StewardDecide(actor, d, approved)
      PROVE  Move(c)
  <2>1. Settles({d}, IF approved THEN "allow" ELSE "deny", "steward") BY <1>8, StewardSettles
  <2>2. approved => call[d].risk # "high" BY <1>8 DEF StewardDecide
  <2> QED BY <2>1, <2>2, SettlesMove DEF Move
<1>9. ASSUME NEW d \in Calls, Expire(d) PROVE Move(c)
  BY <1>9, ExpireSettles, SettlesMove DEF Move
<1>10. ASSUME NEW d \in Calls, SignalFires(d) PROVE Move(c)
  BY <1>1, <1>10, SignalSettles, SettlesMove DEF Move
<1>11. ASSUME NEW d \in Calls, Resume(d) PROVE Move(c)
  BY <1>11 DEF Resume, Move, Over, Kept, Asking, TypeInv
<1>12. ASSUME NEW s \in Sessions, DeleteSession(s) PROVE Move(c)
  BY <1>1, <1>12 DEF DeleteSession, calls
<1>13. CASE Crash
  BY <1>13 DEF Crash, Move, Over, Kept, Asking, TypeInv
<1>14. CASE Boot \/ UNCHANGED vars
  BY <1>1, <1>14 DEF Boot, calls, vars
<1> QED
  BY <1>2, <1>3, <1>4, <1>5, <1>6, <1>7, <1>8, <1>9, <1>10, <1>11, <1>12, <1>13, <1>14 DEF Next, Turn, Card

-----------------------------------------------------------------------------
(* What a step does to the runs *)

\* Every step but four leaves sessions and the process alone, and takes a run
\* from one point of its flight to the next.
Onward ==
    /\ sess' = sess /\ deleted' = deleted /\ up' = up
    /\ \A r \in Runs : \/ turn'[r] = turn[r]
                       \/ turn[r] \in InFlight /\ turn'[r] \in InFlight \cup {"done"}

LEMMA Steps ==
    ASSUME TypeInv, [Next]_vars
    PROVE  \/ Onward
           \/ \E r \in Runs, s \in Sessions : Begin(r, s)
           \/ \E s \in Sessions : DeleteSession(s)
           \/ Crash \/ Boot
<1>1. ASSUME UNCHANGED <<turn, sess, deleted, up>> PROVE Onward
  BY <1>1 DEF Onward
<1>2. ASSUME NEW r \in Runs, Message(r) \/ IdleExpires(r) \/ Abort(r) \/ Interrupt(r) PROVE Onward
  <2>1. UNCHANGED <<turn, sess, deleted, up>> BY <1>2 DEF Message, IdleExpires, Abort, Interrupt
  <2> QED BY <2>1, <1>1
<1>3. ASSUME NEW r \in Runs, NEW t \in InFlight \cup {"done"},
             UNCHANGED <<sess, deleted, up>>, turn[r] \in InFlight, turn' = [turn EXCEPT ![r] = t]
      PROVE  Onward
  BY <1>3 DEF Onward, TypeInv
<1>4. ASSUME NEW r \in Runs, TurnEnds(r) PROVE Onward
  BY <1>4, <1>3 DEF TurnEnds, InFlight
<1>5. ASSUME NEW r \in Runs, Record(r) PROVE Onward
  BY <1>5, <1>3 DEF Record, InFlight
<1>6. ASSUME NEW r \in Runs, RecordThrows(r) PROVE Onward
  BY <1>6, <1>3 DEF RecordThrows, InFlight
<1>7. ASSUME NEW r \in Runs, Leave(r) PROVE Onward
  <2> DEFINE t == IF turn[r] = "recorded" THEN "done" ELSE "failing"
  <2>1. turn' = [turn EXCEPT ![r] = t] BY <1>7 DEF Leave
  <2>2. UNCHANGED <<sess, deleted, up>> /\ turn[r] \in InFlight BY <1>7 DEF Leave, InFlight
  <2>3. t \in InFlight \cup {"done"} BY DEF InFlight
  <2> HIDE DEF t
  <2> QED BY <2>1, <2>2, <2>3, <1>3
<1>8. ASSUME NEW r \in Runs, Fail(r) PROVE Onward
  BY <1>8, <1>3 DEF Fail, InFlight
<1>9. ASSUME NEW c \in Calls, Card(c) PROVE Onward
  <2>1. UNCHANGED <<turn, sess, deleted, up>>
    BY <1>9 DEF Card, Ask, AskPreapproved, Decide, StewardDecide, Expire, SignalFires, Resume
  <2> QED BY <2>1, <1>1
<1>10. CASE UNCHANGED vars
  BY <1>10, <1>1 DEF vars
<1> QED BY <1>2, <1>4, <1>5, <1>6, <1>7, <1>8, <1>9, <1>10 DEF Next, Turn

LEMMA RunStep == TypeInv /\ RunInv /\ [Next]_vars => RunInv'
<1> SUFFICES ASSUME TypeInv, RunInv, [Next]_vars, NEW r \in Runs
             PROVE  /\ turn'[r] # "new" => sess'[r] \in Sessions
                    /\ turn'[r] \in InFlight => up' /\ sess'[r] \notin deleted'
  BY DEF RunInv
<1>1. CASE Onward
  BY <1>1 DEF Onward, RunInv, InFlight
<1>2. ASSUME NEW q \in Runs, NEW s \in Sessions, Begin(q, s)
      PROVE  /\ turn'[r] # "new" => sess'[r] \in Sessions
             /\ turn'[r] \in InFlight => up' /\ sess'[r] \notin deleted'
  BY <1>2 DEF Begin, RunInv, TypeInv
<1>3. ASSUME NEW s \in Sessions, DeleteSession(s)
      PROVE  /\ turn'[r] # "new" => sess'[r] \in Sessions
             /\ turn'[r] \in InFlight => up' /\ sess'[r] \notin deleted'
  BY <1>3 DEF DeleteSession, RunInv
<1>4. CASE Crash
  BY <1>4 DEF Crash, RunInv, InFlight
<1>5. CASE Boot
  BY <1>5 DEF Boot, RunInv
<1> QED BY <1>1, <1>2, <1>3, <1>4, <1>5, Steps

\* No run is new again, and a run keeps its session.
LEMMA RunsGoOn ==
    ASSUME TypeInv, [Next]_vars, NEW r \in Runs, turn[r] # "new"
    PROVE  turn'[r] # "new" /\ sess'[r] = sess[r]
<1>1. CASE Onward BY <1>1 DEF Onward, InFlight
<1>2. ASSUME NEW q \in Runs, NEW s \in Sessions, Begin(q, s) PROVE turn'[r] # "new" /\ sess'[r] = sess[r]
  BY <1>2 DEF Begin, TypeInv
<1>3. ASSUME NEW s \in Sessions, DeleteSession(s) PROVE turn'[r] # "new" /\ sess'[r] = sess[r]
  BY <1>3 DEF DeleteSession
<1>4. CASE Crash \/ Boot BY <1>4 DEF Crash, Boot
<1> QED BY <1>1, <1>2, <1>3, <1>4, Steps

LEMMA CallStep == TypeInv /\ CallInv /\ [Next]_vars => CallInv'
<1> SUFFICES ASSUME TypeInv, CallInv, [Next]_vars, NEW c \in Calls, state'[c] # "unused"
             PROVE  call'[c].run \in Runs /\ call'[c].tool \in Tools /\ turn'[call'[c].run] # "new"
  BY DEF CallInv
<1>1. CASE Kept(c) \/ Closed(c) \/ Over(c)
  <2>1. call'[c] = call[c] /\ state[c] # "unused" BY <1>1 DEF Kept, Closed, Over, Asking
  <2>2. call[c].run \in Runs /\ call[c].tool \in Tools /\ turn[call[c].run] # "new" BY <2>1 DEF CallInv
  <2> QED BY <2>1, <2>2, RunsGoOn
<1>2. CASE Asked(c)
  <2>1. PICK r \in Runs, tool \in Tools, risk \in Risks :
          turn[r] = "live" /\ call'[c] = [run |-> r, tool |-> tool, risk |-> risk]
    BY <1>2 DEF Asked
  <2> QED BY <2>1, RunsGoOn
<1> QED BY <1>1, <1>2, Moves DEF Move

LEMMA AnswerStep == TypeInv /\ AnswerInv /\ [Next]_vars => AnswerInv'
<1> SUFFICES ASSUME TypeInv, AnswerInv, [Next]_vars, NEW c \in Calls, state'[c] \in {"unused", "pending"}
             PROVE  answer'[c] = "none" /\ decidedBy'[c] = "nobody"
  BY DEF AnswerInv
<1>1. Kept(c) \/ Asked(c)
  BY Moves DEF Move, Closed, Over
<1> QED BY <1>1 DEF Kept, Asked, AnswerInv

\* A card keeps its timer, and its run stays as long as it is open.
LEMMA OpenCards ==
    ASSUME TypeInv, [Next]_vars, NEW c \in Calls, state[c] = "pending", state'[c] = "pending",
           call[c].run \in Runs, c \in timers, turn[call[c].run] \in {"live", "ended", "recorded", "threw"}
    PROVE  c \in timers' /\ turn'[call[c].run] \in {"live", "ended", "recorded", "threw"}
<1> DEFINE Stays == c \in timers' /\ turn'[call[c].run] \in {"live", "ended", "recorded", "threw"}
<1>1. ASSUME NEW C, NEW verdict, NEW who, Settles(C, verdict, who) PROVE c \in timers' /\ c \notin C
  <2>1. c \notin C BY <1>1, SettlesEach
  <2> QED BY <1>1, <2>1 DEF Settles
<1>2. ASSUME NEW r \in Runs, NEW s \in Sessions, Begin(r, s) PROVE Stays
  BY <1>2 DEF Begin, calls, TypeInv
<1>3. ASSUME NEW r \in Runs, Message(r) \/ IdleExpires(r) \/ Abort(r) PROVE Stays
  BY <1>3 DEF Message, IdleExpires, Abort, calls
<1>4. ASSUME NEW r \in Runs, TurnEnds(r) \/ Record(r) \/ RecordThrows(r) PROVE Stays
  BY <1>4 DEF TurnEnds, Record, RecordThrows, calls, TypeInv
<1>5. ASSUME NEW r \in Runs, Leave(r) PROVE Stays
  <2>1. c \in timers' /\ c \notin PendingOf(r) BY <1>1, <1>5, LeaveSettles
  <2>2. call[c].run # r BY <2>1 DEF PendingOf, CallsOf
  <2> QED BY <1>5, <2>1, <2>2 DEF Leave, TypeInv
<1>6. ASSUME NEW r \in Runs, Fail(r) PROVE Stays
  BY <1>6 DEF Fail, calls, TypeInv
<1>7. ASSUME NEW r \in Runs, Interrupt(r) PROVE Stays
  BY <1>1, <1>7, InterruptSettles DEF Interrupt
<1>8. ASSUME NEW d \in Calls, NEW r \in Runs, NEW tool \in Tools, NEW risk \in Risks,
             Ask(d, r, tool, risk) \/ AskPreapproved(d, r, tool, risk)
      PROVE  Stays
  BY <1>8 DEF Ask, AskPreapproved
<1>9. ASSUME NEW d \in Calls, NEW approved \in BOOLEAN, NEW remember \in BOOLEAN, Decide(d, approved, remember)
      PROVE  Stays
  BY <1>1, <1>9, DecideSettles DEF Decide
<1>10. ASSUME NEW actor \in Runs \cup {Elsewhere}, NEW d \in Calls, NEW approved \in BOOLEAN, StewardDecide(actor, d, approved)
       PROVE  Stays
  BY <1>1, <1>10, StewardSettles DEF StewardDecide
<1>11. ASSUME NEW d \in Calls, Expire(d) PROVE Stays
  BY <1>1, <1>11, ExpireSettles DEF Expire
<1>12. ASSUME NEW d \in Calls, SignalFires(d) PROVE Stays
  BY <1>1, <1>12, SignalSettles DEF SignalFires
<1>13. ASSUME NEW d \in Calls, Resume(d) PROVE Stays
  BY <1>13 DEF Resume
<1>14. ASSUME NEW s \in Sessions, DeleteSession(s) PROVE Stays
  BY <1>14 DEF DeleteSession, calls
<1>15. ASSUME Crash PROVE Stays
  BY <1>15 DEF Crash
<1>16. ASSUME Boot PROVE Stays
  BY <1>16 DEF Boot, calls
<1>20. ASSUME UNCHANGED vars PROVE Stays
  BY <1>20 DEF vars, calls
<1> HIDE DEF Stays
<1>17. ASSUME NEW r \in Runs, Turn(r) PROVE Stays
  BY <1>2, <1>3, <1>4, <1>5, <1>6, <1>7, <1>17 DEF Turn
<1>18. ASSUME NEW d \in Calls, Card(d) PROVE Stays
  BY <1>8, <1>9, <1>10, <1>11, <1>12, <1>13, <1>18 DEF Card
<1>19. Stays
  BY <1>14, <1>15, <1>16, <1>17, <1>18, <1>20 DEF Next
<1> QED BY <1>19 DEF Stays

LEMMA OrphanStep == TypeInv /\ CallInv /\ NoOrphanCard /\ [Next]_vars => NoOrphanCard'
<1> SUFFICES ASSUME TypeInv, CallInv, NoOrphanCard, [Next]_vars, NEW c \in Calls, state'[c] = "pending"
             PROVE  turn'[call'[c].run] \in {"live", "ended", "recorded", "threw"} /\ c \in timers'
  BY DEF NoOrphanCard
<1>1. Kept(c) \/ Asked(c)
  BY Moves DEF Move, Closed, Over
<1>2. CASE Kept(c)
  <2>1. call'[c] = call[c] /\ state[c] = "pending" BY <1>2 DEF Kept
  <2> QED BY <2>1, OpenCards DEF NoOrphanCard, CallInv
<1>3. CASE Asked(c)
  BY <1>3 DEF Asked
<1> QED BY <1>1, <1>2, <1>3

LEMMA ShapeHolds == Spec => []Shape
<1>1. Init => Shape
  <2> SUFFICES ASSUME Init PROVE RunInv /\ CallInv /\ AnswerInv /\ NoOrphanCard
    BY TypeInit DEF Shape
  <2> QED BY DEF Init, RunInv, CallInv, AnswerInv, NoOrphanCard, InFlight
<1>2. Shape /\ [Next]_vars => Shape'
  BY TypeStep, RunStep, CallStep, AnswerStep, OrphanStep DEF Shape
<1> QED BY <1>1, <1>2, PTL DEF Spec

\* However a run ends, it takes its cards with it, and every open card has
\* the timer that will close it.
THEOREM NoCardIsOrphaned == Spec => []NoOrphanCard
BY ShapeHolds, PTL DEF Shape

\* Of all who may settle a card the first wins, and the others change nothing.
THEOREM AnswersAreFinal == Spec => AnswerIsFinal
<1>1. Shape /\ [Next]_vars =>
        [\A c \in Calls : answer[c] # "none" => answer'[c] = answer[c] /\ decidedBy'[c] = decidedBy[c]]_vars
  <2> SUFFICES ASSUME Shape, [Next]_vars, NEW c \in Calls, answer[c] # "none"
               PROVE  answer'[c] = answer[c] /\ decidedBy'[c] = decidedBy[c]
    OBVIOUS
  <2>1. state[c] \notin {"unused", "pending"} BY DEF Shape, AnswerInv
  <2>2. Kept(c) \/ Over(c) BY <2>1, Moves DEF Shape, Move, Closed, Asked
  <2> QED BY <2>2 DEF Kept, Over
<1> QED BY <1>1, ShapeHolds, PTL DEF Spec, AnswerIsFinal

-----------------------------------------------------------------------------
(* Remembered answers *)

\* Every remembered answer is one a person gave to such a call, in a session
\* that still exists, and allows nothing of high risk.
GrantInv ==
    \A k \in DOMAIN sessionGrants :
        /\ k[1] \notin deleted
        /\ sessionGrants[k] => k[3] # "high"
        /\ \E d \in Calls : decidedBy[d] = "operator" /\ answer[d] = Verdict(sessionGrants[k]) /\ KeyOf(d) = k

\* What the operator decided stays decided, for the same tool of the same session.
LEMMA DecidedStays ==
    ASSUME Shape, [Next]_vars, NEW d \in Calls, decidedBy[d] = "operator"
    PROVE  /\ decidedBy'[d] = "operator" /\ answer'[d] = answer[d]
           /\ call'[d] = call[d] /\ sess'[call[d].run] = sess[call[d].run] /\ KeyOf(d)' = KeyOf(d)
<1>1. state[d] \notin {"unused", "pending"} BY DEF Shape, AnswerInv
<1>2. Kept(d) \/ Over(d) BY <1>1, Moves DEF Shape, Move, Closed, Asked
<1>3. call[d].run \in Runs /\ turn[call[d].run] # "new" BY <1>1 DEF Shape, CallInv
<1>4. sess'[call[d].run] = sess[call[d].run] BY <1>3, RunsGoOn DEF Shape
<1> QED BY <1>2, <1>4 DEF Kept, Over, KeyOf, GrantKey

\* Where a remembered answer comes from.
Remembered(k) ==
    \E c \in Calls :
        /\ state[c] = "pending" /\ k = KeyOf(c) /\ UNCHANGED <<call, sess, deleted>>
        /\ decidedBy'[c] = "operator" /\ answer'[c] = Verdict(sessionGrants'[k])
        /\ sessionGrants'[k] => call[c].risk # "high"

StillRemembered(k) ==
    k \in DOMAIN sessionGrants /\ sessionGrants'[k] = sessionGrants[k] /\ (k[1] \in deleted' => k[1] \in deleted)

LEMMA GrantMoves ==
    ASSUME TypeInv, [Next]_vars, NEW k \in DOMAIN sessionGrants'
    PROVE  StillRemembered(k) \/ Remembered(k)
<1>1. ASSUME UNCHANGED <<sessionGrants, deleted>> PROVE StillRemembered(k)
  BY <1>1 DEF StillRemembered
<1>2. ASSUME NEW r \in Runs, Turn(r) PROVE StillRemembered(k)
  BY <1>2, <1>1 DEF Turn, Begin, Message, TurnEnds, Record, RecordThrows, Leave, Fail, IdleExpires, Abort, Interrupt
<1>3. ASSUME NEW c \in Calls, NEW r \in Runs, NEW tool \in Tools, NEW risk \in Risks,
             Ask(c, r, tool, risk) \/ AskPreapproved(c, r, tool, risk)
      PROVE  StillRemembered(k)
  BY <1>3, <1>1 DEF Ask, AskPreapproved
<1>4. ASSUME NEW c \in Calls, NEW approved \in BOOLEAN, NEW remember \in BOOLEAN, Decide(c, approved, remember)
      PROVE  StillRemembered(k) \/ Remembered(k)
  <2> DEFINE next == [h \in DOMAIN sessionGrants \cup {KeyOf(c)} |-> IF h = KeyOf(c) THEN approved ELSE sessionGrants[h]]
  <2>1. CASE ~(remember /\ MayRemember(c, approved))
    BY <1>4, <2>1, <1>1 DEF Decide
  <2>2. CASE remember /\ MayRemember(c, approved)
    <3>1. sessionGrants' = next BY <1>4, <2>2 DEF Decide
    <3>2. k \in DOMAIN sessionGrants \cup {KeyOf(c)} BY <3>1
    <3>3. sessionGrants'[k] = IF k = KeyOf(c) THEN approved ELSE sessionGrants[k] BY <3>1, <3>2
    <3>4. UNCHANGED <<call, sess, deleted>> BY <1>4 DEF Decide, ResolveAll
    <3>5. CASE k # KeyOf(c) BY <3>2, <3>3, <3>4, <3>5 DEF StillRemembered
    <3>6. CASE k = KeyOf(c)
      <4>1. Settles({c}, IF approved THEN "allow" ELSE "deny", "operator") BY <1>4, DecideSettles
      <4>2. state[c] = "pending" /\ decidedBy'[c] = "operator" /\ answer'[c] = Verdict(approved)
        BY <4>1, SettlesEach DEF Verdict
      <4>3. sessionGrants'[k] = approved BY <3>3, <3>6
      <4> QED BY <2>2, <3>4, <3>6, <4>2, <4>3 DEF Remembered, MayRemember
    <3> QED BY <3>5, <3>6
  <2> QED BY <2>1, <2>2
<1>5. ASSUME NEW c \in Calls, NEW actor \in Runs \cup {Elsewhere}, NEW approved \in BOOLEAN, StewardDecide(actor, c, approved)
      PROVE  StillRemembered(k)
  BY <1>5, <1>1 DEF StewardDecide
<1>6. ASSUME NEW c \in Calls, Expire(c) \/ SignalFires(c) \/ Resume(c) PROVE StillRemembered(k)
  BY <1>6, <1>1 DEF Expire, SignalFires, Resume
<1>7. ASSUME NEW s \in Sessions, DeleteSession(s) PROVE StillRemembered(k)
  <2> DEFINE keys == {h \in DOMAIN sessionGrants : h[1] # s}
  <2>1. sessionGrants' = [h \in keys |-> sessionGrants[h]] /\ deleted' = deleted \cup {s}
    BY <1>7 DEF DeleteSession
  <2>2. k \in keys /\ sessionGrants'[k] = sessionGrants[k] BY <2>1
  <2> QED BY <2>1, <2>2 DEF StillRemembered
<1>8. CASE Crash
  <2>1. sessionGrants' = [h \in {} |-> TRUE] BY <1>8 DEF Crash
  <2> QED BY <2>1
<1>9. CASE Boot
  BY <1>9, <1>1 DEF Boot
<1>10. CASE UNCHANGED vars
  BY <1>10, <1>1 DEF vars
<1>11. ASSUME NEW c \in Calls, Card(c) PROVE StillRemembered(k) \/ Remembered(k)
  BY <1>3, <1>4, <1>5, <1>6, <1>11 DEF Card
<1> QED BY <1>2, <1>7, <1>8, <1>9, <1>10, <1>11 DEF Next

LEMMA GrantStep == Shape /\ GrantInv /\ [Next]_vars => GrantInv'
<1> SUFFICES ASSUME Shape, GrantInv, [Next]_vars, NEW k \in DOMAIN sessionGrants'
             PROVE  /\ k[1] \notin deleted'
                    /\ sessionGrants'[k] => k[3] # "high"
                    /\ \E d \in Calls : decidedBy'[d] = "operator" /\ answer'[d] = Verdict(sessionGrants'[k]) /\ KeyOf(d)' = k
  BY DEF GrantInv, Verdict
<1>1. CASE StillRemembered(k)
  <2>1. PICK d \in Calls : decidedBy[d] = "operator" /\ answer[d] = Verdict(sessionGrants[k]) /\ KeyOf(d) = k
    BY <1>1 DEF StillRemembered, GrantInv
  <2>2. decidedBy'[d] = "operator" /\ answer'[d] = Verdict(sessionGrants'[k]) /\ KeyOf(d)' = k
    BY <1>1, <2>1, DecidedStays DEF StillRemembered
  <2>3. k[1] \notin deleted' /\ (sessionGrants'[k] => k[3] # "high")
    BY <1>1 DEF StillRemembered, GrantInv
  <2> QED BY <2>2, <2>3
<1>2. CASE Remembered(k)
  <2>1. PICK c \in Calls :
          /\ state[c] = "pending" /\ k = KeyOf(c) /\ UNCHANGED <<call, sess, deleted>>
          /\ decidedBy'[c] = "operator" /\ answer'[c] = Verdict(sessionGrants'[k])
          /\ sessionGrants'[k] => call[c].risk # "high"
    BY <1>2 DEF Remembered
  <2>2. KeyOf(c)' = k BY <2>1 DEF KeyOf, GrantKey
  <2>3. k = <<sess[call[c].run], call[c].tool, call[c].risk>> BY <2>1 DEF KeyOf, GrantKey
  <2>4. k[1] = sess[call[c].run] /\ k[3] = call[c].risk BY <2>3
  <2>5. call[c].run \in Runs /\ turn[call[c].run] \in InFlight
    BY <2>1 DEF Shape, CallInv, NoOrphanCard, InFlight
  <2>6. k[1] \notin deleted BY <2>4, <2>5 DEF Shape, RunInv
  <2> QED BY <2>1, <2>2, <2>4, <2>6
<1> QED BY <1>1, <1>2, GrantMoves DEF Shape

LEMMA HighRiskStep == Shape /\ GrantInv /\ HighRiskIsTheOperators /\ [Next]_vars => HighRiskIsTheOperators'
<1> SUFFICES ASSUME Shape, GrantInv, HighRiskIsTheOperators, [Next]_vars, NEW c \in Calls,
                    answer'[c] = "allow", call'[c].risk = "high"
             PROVE  decidedBy'[c] \in {"operator", "workspace"}
  BY DEF HighRiskIsTheOperators
<1>1. CASE Kept(c) \/ Over(c) BY <1>1 DEF Kept, Over, HighRiskIsTheOperators
<1>2. CASE Closed(c) BY <1>2 DEF Closed
<1>3. CASE Asked(c)
  <2>1. PICK r \in Runs, tool \in Tools, risk \in Risks :
          /\ call'[c] = [run |-> r, tool |-> tool, risk |-> risk]
          /\ \/ state'[c] = "pending" /\ c \in timers' /\ answer'[c] = answer[c] /\ decidedBy'[c] = decidedBy[c]
             \/ state'[c] = "settled" /\ answer'[c] = "deny" /\ decidedBy'[c] = "withdrawn"
             \/ /\ state'[c] = "settled" /\ decidedBy'[c] = "grant"
                /\ <<sess[r], tool, risk>> \in DOMAIN sessionGrants
                /\ answer'[c] = Verdict(sessionGrants[<<sess[r], tool, risk>>])
             \/ state'[c] = "returned" /\ answer'[c] = "allow" /\ decidedBy'[c] = "workspace"
    BY <1>3 DEF Asked
  <2>2. answer[c] = "none" BY <1>3 DEF Asked, Shape, AnswerInv
  <2>3. risk = "high" BY <2>1
  <2>4. ASSUME <<sess[r], tool, risk>> \in DOMAIN sessionGrants
        PROVE  Verdict(sessionGrants[<<sess[r], tool, risk>>]) = "deny"
    <3> DEFINE k == <<sess[r], tool, risk>>
    <3>1. k[3] = "high" BY <2>3
    <3>2. ~sessionGrants[k] BY <2>4, <3>1 DEF GrantInv
    <3> QED BY <3>2 DEF Verdict
  <2> QED BY <2>1, <2>2, <2>4
<1> QED BY <1>1, <1>2, <1>3, Moves DEF Shape, Move

LEMMA ShownStep == Shape /\ GrantInv /\ GrantsWereShown /\ [Next]_vars => GrantsWereShown'
<1> SUFFICES ASSUME Shape, GrantInv, GrantsWereShown, [Next]_vars PROVE GrantsWereShown'
  OBVIOUS
<1>1. \A k \in DOMAIN sessionGrants' : k[1] \notin deleted'
  BY GrantStep DEF GrantInv
<1>2. ASSUME NEW c \in Calls, decidedBy'[c] = "grant"
      PROVE  \E d \in Calls :
                /\ decidedBy'[d] = "operator" /\ answer'[d] = answer'[c]
                /\ sess'[call'[d].run] = sess'[call'[c].run]
                /\ call'[d].tool = call'[c].tool /\ call'[d].risk = call'[c].risk
  <2>1. CASE Kept(c) \/ Over(c)
    <3>1. decidedBy[c] = "grant" /\ answer'[c] = answer[c] /\ call'[c] = call[c]
      BY <1>2, <2>1 DEF Kept, Over
    <3>2. PICK d \in Calls :
            /\ decidedBy[d] = "operator" /\ answer[d] = answer[c]
            /\ sess[call[d].run] = sess[call[c].run]
            /\ call[d].tool = call[c].tool /\ call[d].risk = call[c].risk
      BY <3>1 DEF GrantsWereShown
    <3>3. state[c] \notin {"unused", "pending"} BY <3>1 DEF Shape, AnswerInv
    <3>4. call[c].run \in Runs /\ turn[call[c].run] # "new" BY <3>3 DEF Shape, CallInv
    <3>5. sess'[call[c].run] = sess[call[c].run] BY <3>4, RunsGoOn DEF Shape
    <3> QED BY <3>1, <3>2, <3>5, DecidedStays
  <2>2. CASE Closed(c) BY <1>2, <2>2 DEF Closed, Closers
  <2>3. CASE Asked(c)
    <3>1. PICK r \in Runs, tool \in Tools, risk \in Risks :
            /\ turn[r] = "live"
            /\ call'[c] = [run |-> r, tool |-> tool, risk |-> risk]
            /\ <<sess[r], tool, risk>> \in DOMAIN sessionGrants
            /\ answer'[c] = Verdict(sessionGrants[<<sess[r], tool, risk>>])
      BY <1>2, <2>3 DEF Asked, Shape, AnswerInv
    <3> DEFINE k == <<sess[r], tool, risk>>
    <3>2. PICK d \in Calls : decidedBy[d] = "operator" /\ answer[d] = Verdict(sessionGrants[k]) /\ KeyOf(d) = k
      BY <3>1 DEF GrantInv
    <3>3. sess[call[d].run] = sess[r] /\ call[d].tool = tool /\ call[d].risk = risk
      BY <3>2 DEF KeyOf, GrantKey
    <3>4. sess'[r] = sess[r] BY <3>1, RunsGoOn DEF Shape
    <3>5. /\ decidedBy'[d] = "operator" /\ answer'[d] = answer[d]
          /\ call'[d] = call[d] /\ sess'[call[d].run] = sess[call[d].run]
      BY <3>2, DecidedStays
    <3>6. call'[c].run = r /\ call'[c].tool = tool /\ call'[c].risk = risk BY <3>1
    <3> QED BY <3>1, <3>2, <3>3, <3>4, <3>5, <3>6
  <2> QED BY <2>1, <2>2, <2>3, Moves DEF Shape, Move
<1> QED BY <1>1, <1>2 DEF GrantsWereShown

LEMMA GrantsHold == Spec => [](Shape /\ GrantInv /\ HighRiskIsTheOperators /\ GrantsWereShown)
<1>1. Init => GrantInv /\ HighRiskIsTheOperators /\ GrantsWereShown
  <2> SUFFICES ASSUME Init PROVE GrantInv /\ HighRiskIsTheOperators /\ GrantsWereShown
    OBVIOUS
  <2>1. DOMAIN sessionGrants = {} BY DEF Init
  <2>2. \A c \in Calls : answer[c] = "none" /\ decidedBy[c] = "nobody" BY DEF Init
  <2> QED BY <2>1, <2>2 DEF GrantInv, HighRiskIsTheOperators, GrantsWereShown
<1> QED BY <1>1, ShapeHolds, GrantStep, HighRiskStep, ShownStep, PTL DEF Spec

\* A call of high risk is only ever allowed by a person or by the workspace's
\* own list: not by a steward, and not by an answer remembered from a milder
\* call.
THEOREM HighRiskIsNeverDelegated == Spec => []HighRiskIsTheOperators
BY GrantsHold, PTL

\* Every answer given without asking is one a person gave to the same tool at
\* the same risk in the same session, and is forgotten with the session.
THEOREM RememberedAnswersWereGiven == Spec => []GrantsWereShown
BY GrantsHold, PTL

-----------------------------------------------------------------------------
(* The badge *)

Waiters == {"live", "ended", "threw", "failing"}

\* A run marked as waiting has begun, and is not yet past its record.
WaitInv ==
    \A r \in Runs : runStatus[r] = "waiting_approval" => turn[r] # "new" /\ (up => turn[r] \in Waiters)

LEMMA WaitStep == Shape /\ WaitInv /\ [Next]_vars => WaitInv'
<1> SUFFICES ASSUME Shape, WaitInv, [Next]_vars, NEW q \in Runs, runStatus'[q] = "waiting_approval"
             PROVE  turn'[q] # "new" /\ (up' => turn'[q] \in Waiters)
  BY DEF WaitInv
<1> USE DEF Waiters
<1>1. TypeInv BY DEF Shape
<1>2. ASSUME UNCHANGED <<turn, up>>, runStatus[q] = "waiting_approval"
      PROVE  turn'[q] # "new" /\ (up' => turn'[q] \in Waiters)
  BY <1>2 DEF WaitInv
<1>3. ASSUME NEW r \in Runs, NEW s \in Sessions, Begin(r, s)
      PROVE  turn'[q] # "new" /\ (up' => turn'[q] \in Waiters)
  BY <1>1, <1>3 DEF Begin, TypeInv, WaitInv
<1>4. ASSUME NEW r \in Runs, Message(r) \/ IdleExpires(r) \/ Abort(r) \/ Interrupt(r)
      PROVE  turn'[q] # "new" /\ (up' => turn'[q] \in Waiters)
  BY <1>2, <1>4 DEF Message, IdleExpires, Abort, Interrupt, rows
<1>5. ASSUME NEW r \in Runs, TurnEnds(r) \/ RecordThrows(r) \/ Leave(r)
      PROVE  turn'[q] # "new" /\ (up' => turn'[q] \in Waiters)
  BY <1>1, <1>5 DEF TurnEnds, RecordThrows, Leave, rows, TypeInv, WaitInv
<1>6. ASSUME NEW r \in Runs, Record(r) \/ Fail(r)
      PROVE  turn'[q] # "new" /\ (up' => turn'[q] \in Waiters)
  BY <1>1, <1>6 DEF Record, Fail, TypeInv, WaitInv
<1>7. ASSUME NEW c \in Calls, NEW r \in Runs, NEW tool \in Tools, NEW risk \in Risks, Ask(c, r, tool, risk)
      PROVE  turn'[q] # "new" /\ (up' => turn'[q] \in Waiters)
  <2>1. turn[r] = "live" /\ UNCHANGED <<turn, up>> BY <1>7 DEF Ask
  <2>2. q = r \/ runStatus'[q] = runStatus[q] BY <1>1, <1>7 DEF Ask, OnWaitingChange, rows, TypeInv
  <2> QED BY <2>1, <2>2, <1>2
<1>8. ASSUME NEW c \in Calls, NEW r \in Runs, NEW tool \in Tools, NEW risk \in Risks, AskPreapproved(c, r, tool, risk)
      PROVE  turn'[q] # "new" /\ (up' => turn'[q] \in Waiters)
  BY <1>2, <1>8 DEF AskPreapproved, rows
<1>9. ASSUME NEW c \in Calls, NEW approved \in BOOLEAN, NEW remember \in BOOLEAN, Decide(c, approved, remember)
      PROVE  turn'[q] # "new" /\ (up' => turn'[q] \in Waiters)
  BY <1>2, <1>9 DEF Decide, rows
<1>10. ASSUME NEW c \in Calls, NEW actor \in Runs \cup {Elsewhere}, NEW approved \in BOOLEAN, StewardDecide(actor, c, approved)
       PROVE  turn'[q] # "new" /\ (up' => turn'[q] \in Waiters)
  BY <1>2, <1>10 DEF StewardDecide, rows
<1>11. ASSUME NEW c \in Calls, Expire(c) \/ SignalFires(c)
       PROVE  turn'[q] # "new" /\ (up' => turn'[q] \in Waiters)
  BY <1>2, <1>11 DEF Expire, SignalFires, rows
<1>12. ASSUME NEW c \in Calls, Resume(c)
       PROVE  turn'[q] # "new" /\ (up' => turn'[q] \in Waiters)
  <2>1. runStatus[q] = "waiting_approval" BY <1>1, <1>12 DEF Resume, OnWaitingChange, rows, TypeInv
  <2> QED BY <1>2, <1>12, <2>1 DEF Resume
<1>13. ASSUME NEW s \in Sessions, DeleteSession(s)
       PROVE  turn'[q] # "new" /\ (up' => turn'[q] \in Waiters)
  BY <1>2, <1>13 DEF DeleteSession, rows
<1>14. CASE Crash
  BY <1>1, <1>14 DEF Crash, rows, WaitInv, TypeInv
<1>15. CASE Boot
  <2>1. runStatus[q] = "waiting_approval" /\ turn[q] # "done"
    BY <1>1, <1>15 DEF Boot, TypeInv
  <2>2. turn[q] \notin InFlight BY <1>15 DEF Boot, Shape, RunInv
  <2> QED BY <1>1, <2>1, <2>2 DEF WaitInv, TypeInv, Turns
<1>16. CASE UNCHANGED vars
  BY <1>2, <1>16 DEF vars, rows
<1>17. ASSUME NEW r \in Runs, Turn(r) PROVE turn'[q] # "new" /\ (up' => turn'[q] \in Waiters)
  BY <1>3, <1>4, <1>5, <1>6, <1>17 DEF Turn
<1>18. ASSUME NEW c \in Calls, Card(c) PROVE turn'[q] # "new" /\ (up' => turn'[q] \in Waiters)
  BY <1>7, <1>8, <1>9, <1>10, <1>11, <1>12, <1>18 DEF Card
<1> QED BY <1>13, <1>14, <1>15, <1>16, <1>17, <1>18 DEF Next

\* However a run ends, and whatever the process dies of, no run stays marked
\* as waiting for an answer once nothing is left that could lower the mark.
THEOREM NoRunIsLeftWaiting == Spec => []WaitingIsLeft
<1>1. Init => WaitInv BY DEF Init, WaitInv
<1>2. Shape /\ WaitInv => WaitingIsLeft BY DEF WaitInv, WaitingIsLeft, Waiters
<1> QED BY <1>1, <1>2, WaitStep, ShapeHolds, PTL DEF Spec

-----------------------------------------------------------------------------
(* The counters *)

\* Both of execute()'s counters count the calls that are with the broker.
CounterInv ==
    \A r \in Runs : outstanding[r] = Cardinality(AskingOf(r)) /\ awaitingApproval[r] = Cardinality(AskingOf(r))

LEMMA AskingIsFinite ==
    ASSUME NEW r
    PROVE  IsFiniteSet(AskingOf(r)) /\ Cardinality(AskingOf(r)) \in 0..Cardinality(Calls)
<1>1. AskingOf(r) \subseteq Calls BY DEF AskingOf
<1>2. IsFiniteSet(AskingOf(r)) /\ Cardinality(AskingOf(r)) <= Cardinality(Calls)
  BY <1>1, CallsAssumption, FS_Subset
<1>3. Cardinality(AskingOf(r)) \in Nat /\ Cardinality(Calls) \in Nat BY <1>2, CallsAssumption, FS_CardinalityType
<1> QED BY <1>2, <1>3

\* A step that opens and closes no card leaves the calls being asked alone.
LEMMA AskingSame ==
    ASSUME \A c \in Calls : /\ state'[c] \in Asking <=> state[c] \in Asking
                            /\ state[c] \in Asking => call'[c] = call[c],
           CounterInv, UNCHANGED <<outstanding, awaitingApproval>>
    PROVE  CounterInv'
<1>1. \A r \in Runs : AskingOf(r)' = AskingOf(r) BY DEF AskingOf
<1> QED BY <1>1 DEF CounterInv

LEMMA SettlesCounters ==
    ASSUME NEW C, NEW verdict, NEW who, Settles(C, verdict, who), CounterInv, UNCHANGED <<outstanding, awaitingApproval>>
    PROVE  CounterInv'
<1>1. \A c \in Calls : /\ state'[c] \in Asking <=> state[c] \in Asking
                       /\ state[c] \in Asking => call'[c] = call[c]
  BY SettlesEach DEF Asking
<1> QED BY <1>1, AskingSame

LEMMA AskCounters ==
    ASSUME Shape, CounterInv, NEW d \in Calls, NEW r \in Runs, NEW tool \in Tools, NEW risk \in Risks, Ask(d, r, tool, risk)
    PROVE  CounterInv'
<1>1. /\ state[d] = "unused"
      /\ call' = [call EXCEPT ![d] = [run |-> r, tool |-> tool, risk |-> risk]]
      /\ outstanding' = [outstanding EXCEPT ![r] = @ + 1]
      /\ awaitingApproval' = [awaitingApproval EXCEPT ![r] = @ + 1]
  BY DEF Ask
<1>2. state'[d] \in Asking /\ \A c \in Calls \ {d} : state'[c] = state[c]
  BY DEF Ask, Answered, Shape, TypeInv, Asking
<1>3. call'[d].run = r /\ \A c \in Calls \ {d} : call'[c] = call[c]
  BY <1>1 DEF Shape, TypeInv
<1>4. d \notin AskingOf(r) BY <1>1 DEF AskingOf, Asking
<1>5. AskingOf(r)' = AskingOf(r) \cup {d}
  BY <1>2, <1>3 DEF AskingOf
<1>6. \A q \in Runs \ {r} : AskingOf(q)' = AskingOf(q)
  BY <1>1, <1>2, <1>3 DEF AskingOf, Asking
<1>7. Cardinality(AskingOf(r)') = Cardinality(AskingOf(r)) + 1
  BY <1>4, <1>5, AskingIsFinite, FS_AddElement
<1> QED BY <1>1, <1>6, <1>7 DEF CounterInv, Shape, TypeInv

LEMMA ResumeCounters ==
    ASSUME Shape, CounterInv, NEW d \in Calls, Resume(d)
    PROVE  CounterInv' /\ outstanding[call[d].run] > 0
<1>1. PICK r \in Runs : r = call[d].run
  BY DEF Resume, Shape, CallInv
<1>2. /\ state[d] = "settled" /\ state' = [state EXCEPT ![d] = "returned"] /\ call' = call
      /\ outstanding' = [outstanding EXCEPT ![r] = @ - 1]
      /\ awaitingApproval' = [awaitingApproval EXCEPT ![r] = @ - 1]
  BY <1>1 DEF Resume
<1>3. state'[d] \notin Asking /\ \A c \in Calls \ {d} : state'[c] = state[c]
  BY <1>2 DEF Shape, TypeInv, Asking
<1>4. d \in AskingOf(r) BY <1>1, <1>2 DEF AskingOf, Asking
<1>5. AskingOf(r)' = AskingOf(r) \ {d} BY <1>2, <1>3 DEF AskingOf
<1>6. \A q \in Runs \ {r} : AskingOf(q)' = AskingOf(q) BY <1>1, <1>2, <1>3 DEF AskingOf
<1>7. Cardinality(AskingOf(r)') = Cardinality(AskingOf(r)) - 1
  BY <1>4, <1>5, AskingIsFinite, FS_RemoveElement
<1>8. Cardinality(AskingOf(r)) \in Nat /\ Cardinality(AskingOf(r)) # 0
  BY <1>4, AskingIsFinite, FS_EmptySet
<1>9. outstanding[r] > 0 BY <1>8 DEF CounterInv
<1>10. outstanding \in [Runs -> Int] /\ awaitingApproval \in [Runs -> Int] BY DEF Shape, TypeInv
<1>11. /\ outstanding'[r] = Cardinality(AskingOf(r)') /\ awaitingApproval'[r] = Cardinality(AskingOf(r)')
       /\ \A q \in Runs \ {r} : outstanding'[q] = outstanding[q] /\ awaitingApproval'[q] = awaitingApproval[q]
  BY <1>2, <1>7, <1>10 DEF CounterInv
<1>12. CounterInv' BY <1>6, <1>11 DEF CounterInv
<1> QED BY <1>1, <1>9, <1>12

LEMMA CounterStep == Shape /\ CounterInv /\ [Next]_vars => CounterInv'
<1> SUFFICES ASSUME Shape, CounterInv, [Next]_vars PROVE CounterInv'
  OBVIOUS
<1>1. ASSUME UNCHANGED <<call, state, outstanding, awaitingApproval>> PROVE CounterInv'
  BY <1>1, AskingSame
<1>2. ASSUME NEW r \in Runs, NEW s \in Sessions, Begin(r, s) PROVE CounterInv'
  BY <1>1, <1>2 DEF Begin, calls
<1>3. ASSUME NEW r \in Runs,
             Message(r) \/ TurnEnds(r) \/ Record(r) \/ RecordThrows(r) \/ Fail(r) \/ IdleExpires(r) \/ Abort(r)
      PROVE  CounterInv'
  BY <1>1, <1>3 DEF Message, TurnEnds, Record, RecordThrows, Fail, IdleExpires, Abort, calls, meters
<1>4. ASSUME NEW r \in Runs, Leave(r) \/ Interrupt(r) PROVE CounterInv'
  <2>1. Settles(PendingOf(r), "deny", "withdrawn") BY <1>4, LeaveSettles, InterruptSettles
  <2>2. UNCHANGED <<outstanding, awaitingApproval>> BY <1>4 DEF Leave, Interrupt, meters
  <2> QED BY <2>1, <2>2, SettlesCounters
<1>5. ASSUME NEW d \in Calls, NEW r \in Runs, NEW tool \in Tools, NEW risk \in Risks, AskPreapproved(d, r, tool, risk)
      PROVE  CounterInv'
  <2>1. \A c \in Calls : /\ state'[c] \in Asking <=> state[c] \in Asking
                         /\ state[c] \in Asking => call'[c] = call[c]
    BY <1>5 DEF AskPreapproved, Asking, Shape, TypeInv
  <2> QED BY <1>5, <2>1, AskingSame DEF AskPreapproved, meters
<1>6. ASSUME NEW d \in Calls, NEW approved \in BOOLEAN, NEW remember \in BOOLEAN, Decide(d, approved, remember)
      PROVE  CounterInv'
  BY <1>6, DecideSettles, SettlesCounters DEF Decide, meters
<1>7. ASSUME NEW actor \in Runs \cup {Elsewhere}, NEW d \in Calls, NEW approved \in BOOLEAN, StewardDecide(actor, d, approved)
      PROVE  CounterInv'
  BY <1>7, StewardSettles, SettlesCounters DEF StewardDecide, meters
<1>8. ASSUME NEW d \in Calls, Expire(d) PROVE CounterInv'
  BY <1>8, ExpireSettles, SettlesCounters DEF Expire, meters
<1>9. ASSUME NEW d \in Calls, SignalFires(d) PROVE CounterInv'
  BY <1>1, <1>9, SignalSettles, SettlesCounters DEF SignalFires, meters
<1>10. ASSUME NEW d \in Calls, Resume(d) PROVE CounterInv'
  BY <1>10, ResumeCounters
<1>11. ASSUME NEW s \in Sessions, DeleteSession(s) PROVE CounterInv'
  BY <1>1, <1>11 DEF DeleteSession, calls, meters
<1>12. CASE Crash
  <2>1. \A r \in Runs : AskingOf(r)' = {} BY <1>12 DEF Crash, AskingOf, Asking, Shape, TypeInv
  <2>2. Cardinality({}) = 0 BY FS_EmptySet
  <2>3. \A r \in Runs : outstanding'[r] = 0 /\ awaitingApproval'[r] = 0 BY <1>12 DEF Crash
  <2> QED BY <2>1, <2>2, <2>3 DEF CounterInv
<1>13. CASE Boot BY <1>1, <1>13 DEF Boot, calls, meters
<1>14. CASE UNCHANGED vars BY <1>1, <1>14 DEF vars, calls, meters
<1>15. ASSUME NEW r \in Runs, Turn(r) PROVE CounterInv'
  BY <1>2, <1>3, <1>4, <1>15 DEF Turn
<1>16. ASSUME NEW c \in Calls, Card(c) PROVE CounterInv'
  BY <1>5, <1>6, <1>7, <1>8, <1>9, <1>10, <1>16, AskCounters DEF Card
<1> QED BY <1>11, <1>12, <1>13, <1>14, <1>15, <1>16 DEF Next

LEMMA CountersHold == Spec => [](Shape /\ CounterInv)
<1>1. Init => CounterInv
  <2> SUFFICES ASSUME Init PROVE CounterInv
    OBVIOUS
  <2>1. \A r \in Runs : AskingOf(r) = {} BY DEF Init, AskingOf, Asking
  <2>2. Cardinality({}) = 0 BY FS_EmptySet
  <2> QED BY <2>1, <2>2 DEF CounterInv, Init
<1> QED BY <1>1, ShapeHolds, CounterStep, PTL DEF Spec

\* The type invariant, the bounds of the two counters included: neither ever
\* falls below zero, however a call is settled.
THEOREM ApprovalsTypeCorrect == Spec => []TypeOK
<1>1. Shape /\ CounterInv => TypeOK
  <2> SUFFICES ASSUME Shape, CounterInv PROVE TypeOK
    OBVIOUS
  <2>1. outstanding \in [Runs -> 0..Cardinality(Calls)] /\ awaitingApproval \in [Runs -> 0..Cardinality(Calls)]
    BY AskingIsFinite DEF CounterInv, Shape, TypeInv
  <2> QED BY <2>1 DEF TypeOK, Shape, TypeInv, Turns
<1> QED BY <1>1, CountersHold, PTL

-----------------------------------------------------------------------------
(* One run per session, and what its badge says *)

\* Two runs in flight never share a session, and a call that is with the
\* broker leaves room in its session for no run but its own.
SoloInv ==
    /\ \A r, q \in Runs : turn[r] \in InFlight /\ turn[q] \in InFlight /\ sess[r] = sess[q] => r = q
    /\ \A c \in Calls, r \in Runs :
         state[c] \in Asking /\ turn[r] \in InFlight /\ sess[r] = sess[call[c].run] => r = call[c].run

LEMMA SoloStep == Shape /\ SoloInv /\ [Next]_vars => SoloInv'
<1> SUFFICES ASSUME Shape, SoloInv, [Next]_vars PROVE SoloInv'
  OBVIOUS
<1>1. TypeInv BY DEF Shape
<1>2. ASSUME Onward PROVE SoloInv'
  <2>1. \A r \in Runs : turn'[r] \in InFlight => turn[r] \in InFlight BY <1>2 DEF Onward
  <2>2. sess' = sess BY <1>2 DEF Onward
  <2>3. \A r, q \in Runs : turn'[r] \in InFlight /\ turn'[q] \in InFlight /\ sess'[r] = sess'[q] => r = q
    BY <2>1, <2>2 DEF SoloInv
  <2>4. ASSUME NEW c \in Calls, NEW r \in Runs,
               state'[c] \in Asking, turn'[r] \in InFlight, sess'[r] = sess'[call'[c].run]
        PROVE  r = call'[c].run
    <3>1. turn[r] \in InFlight /\ sess[r] = sess[call'[c].run] BY <2>1, <2>2, <2>4
    <3>2. CASE Kept(c) \/ Closed(c)
      BY <2>4, <3>1, <3>2 DEF Kept, Closed, Asking, SoloInv
    <3>3. CASE Asked(c)
      <4>1. PICK a \in Runs, tool \in Tools, risk \in Risks :
              turn[a] = "live" /\ call'[c] = [run |-> a, tool |-> tool, risk |-> risk]
        BY <3>3 DEF Asked
      <4> QED BY <3>1, <4>1 DEF SoloInv, InFlight
    <3>4. CASE Over(c) BY <2>4, <3>4 DEF Over, Asking
    <3> QED BY <1>1, <3>2, <3>3, <3>4, Moves DEF Move
  <2> QED BY <2>3, <2>4 DEF SoloInv
<1>3. ASSUME NEW b \in Runs, NEW s \in Sessions, Begin(b, s) PROVE SoloInv'
  <2>1. /\ turn[b] = "new" /\ turn' = [turn EXCEPT ![b] = "live"] /\ sess' = [sess EXCEPT ![b] = s]
        /\ state' = state /\ call' = call
        /\ \A c \in Calls : state[c] # "settled"
        /\ \A q \in Runs : sess[q] = s => turn[q] \notin InFlight
    BY <1>3 DEF Begin, Quiet, calls
  <2>2. sess'[b] = s /\ \A r \in Runs \ {b} : turn'[r] = turn[r] /\ sess'[r] = sess[r]
    BY <1>1, <2>1 DEF TypeInv
  <2>3. \A r, q \in Runs : turn'[r] \in InFlight /\ turn'[q] \in InFlight /\ sess'[r] = sess'[q] => r = q
    BY <2>1, <2>2 DEF SoloInv
  <2>4. ASSUME NEW c \in Calls, NEW r \in Runs,
               state'[c] \in Asking, turn'[r] \in InFlight, sess'[r] = sess'[call'[c].run]
        PROVE  r = call'[c].run
    <3>1. state[c] = "pending" /\ call'[c] = call[c] BY <2>1, <2>4 DEF Asking
    <3>2. call[c].run \in Runs /\ call[c].run # b /\ turn[call[c].run] \in InFlight
      BY <2>1, <3>1 DEF Shape, CallInv, NoOrphanCard, InFlight
    <3>3. sess'[call[c].run] = sess[call[c].run] BY <2>2, <3>2
    <3>4. r # b BY <2>1, <2>2, <2>4, <3>1, <3>2, <3>3
    <3> QED BY <2>2, <2>4, <3>1, <3>3, <3>4 DEF SoloInv, Asking
  <2> QED BY <2>3, <2>4 DEF SoloInv
<1>4. ASSUME NEW s \in Sessions, DeleteSession(s) PROVE SoloInv'
  BY <1>4 DEF DeleteSession, calls, SoloInv, Asking
<1>5. CASE Crash
  <2>1. \A r \in Runs : turn'[r] \notin InFlight BY <1>5 DEF Crash, InFlight
  <2> QED BY <2>1 DEF SoloInv
<1>6. CASE Boot BY <1>6 DEF Boot, calls, SoloInv, Asking
<1> QED BY <1>1, <1>2, <1>3, <1>4, <1>5, <1>6, Steps

\* What the two rows of a working run say.
BadgeOf(r) == IF outstanding[r] > 0 THEN "waiting_approval" ELSE "running"

BadgeInv ==
    \A r \in Runs : turn[r] = "live" => runStatus[r] = BadgeOf(r) /\ sessionStatus[sess[r]] = runStatus[r]

LEMMA BadgeStep == Shape /\ CounterInv /\ SoloInv /\ BadgeInv /\ [Next]_vars => BadgeInv'
<1> SUFFICES ASSUME Shape, CounterInv, SoloInv, BadgeInv, [Next]_vars, NEW q \in Runs, turn'[q] = "live"
             PROVE  runStatus'[q] = BadgeOf(q)' /\ sessionStatus'[sess'[q]] = runStatus'[q]
  BY DEF BadgeInv
<1> DEFINE Told == runStatus'[q] = BadgeOf(q)' /\ sessionStatus'[sess'[q]] = runStatus'[q]
<1>1. TypeInv BY DEF Shape
<1>2. ASSUME turn[q] = "live", UNCHANGED <<sess, rows, outstanding>> PROVE Told
  BY <1>2 DEF rows, BadgeInv, BadgeOf
<1>3. ASSUME NEW r \in Runs, NEW s \in Sessions, Begin(r, s) PROVE Told
  <2>1. CASE q = r
    <3>1. \A c \in Calls : call[c].run = r => state[c] = "unused"
      BY <1>3 DEF Begin, Shape, CallInv
    <3>2. AskingOf(r) = {} BY <3>1 DEF AskingOf, Asking
    <3>3. outstanding'[r] = 0 BY <1>3, <3>2, FS_EmptySet DEF Begin, CounterInv
    <3> QED BY <1>1, <1>3, <2>1, <3>3 DEF Begin, TypeInv, BadgeOf
  <2>2. CASE q # r
    <3>1. turn[q] = "live" /\ sess'[q] = sess[q] /\ sess[q] # s
      BY <1>1, <1>3, <2>2 DEF Begin, TypeInv, InFlight
    <3> QED BY <1>1, <1>3, <2>2, <3>1 DEF Begin, TypeInv, BadgeInv, BadgeOf
  <2> QED BY <2>1, <2>2
<1>4. ASSUME NEW r \in Runs, Message(r) \/ IdleExpires(r) \/ Abort(r) \/ Interrupt(r) PROVE Told
  BY <1>2, <1>4 DEF Message, IdleExpires, Abort, Interrupt, meters
<1>5. ASSUME NEW r \in Runs, TurnEnds(r) \/ RecordThrows(r) \/ Leave(r) PROVE Told
  <2>1. turn[q] = "live" BY <1>1, <1>5 DEF TurnEnds, RecordThrows, Leave, TypeInv
  <2> QED BY <1>2, <1>5, <2>1 DEF TurnEnds, RecordThrows, Leave, meters
<1>6. ASSUME NEW r \in Runs, Record(r) \/ Fail(r) PROVE Told
  <2>1. q # r /\ turn[q] = "live" BY <1>1, <1>6 DEF Record, Fail, TypeInv
  <2>2. turn[r] \in InFlight /\ sess' = sess BY <1>6 DEF Record, Fail, InFlight
  <2>3. sess[q] # sess[r] BY <2>1, <2>2 DEF SoloInv, InFlight
  <2>4. runStatus'[q] = runStatus[q] /\ UNCHANGED outstanding BY <1>1, <1>6, <2>1 DEF Record, Fail, TypeInv, meters
  <2>5. sess[q] \in Sessions /\ sess[r] \in Sessions BY <2>1, <2>2 DEF Shape, RunInv, InFlight
  <2>6. sessionStatus'[sess[q]] = sessionStatus[sess[q]] BY <1>1, <1>6, <2>3, <2>5 DEF Record, Fail, TypeInv
  <2> QED BY <2>1, <2>2, <2>4, <2>6 DEF BadgeInv, BadgeOf
<1>7. ASSUME NEW r \in Runs, OnWaitingChange(r, BadgeOf(r)'), UNCHANGED <<turn, sess>>, turn[r] \in InFlight \/ q # r,
             \A p \in Runs \ {r} : outstanding'[p] = outstanding[p],
             sess[r] \in Sessions, q # r => sess[q] # sess[r]
      PROVE  Told
  <2>1. sess[q] \in Sessions BY <1>7 DEF Shape, RunInv, InFlight
  <2>2. CASE q = r
    <3>1. runStatus'[r] = BadgeOf(r)' /\ sessionStatus'[sess[r]] = BadgeOf(r)'
      BY <1>1, <1>7 DEF OnWaitingChange, TypeInv
    <3> QED BY <1>7, <2>2, <3>1
  <2>3. CASE q # r
    <3>1. runStatus'[q] = runStatus[q] /\ sessionStatus'[sess[q]] = sessionStatus[sess[q]]
      BY <1>1, <1>7, <2>1, <2>3 DEF OnWaitingChange, TypeInv
    <3> QED BY <1>7, <2>3, <3>1 DEF BadgeInv, BadgeOf
  <2> QED BY <2>2, <2>3
<1>8. ASSUME NEW d \in Calls, NEW r \in Runs, NEW tool \in Tools, NEW risk \in Risks, Ask(d, r, tool, risk) PROVE Told
  <2>1. turn[r] = "live" /\ UNCHANGED <<turn, sess>> /\ outstanding' = [outstanding EXCEPT ![r] = @ + 1]
    BY <1>8 DEF Ask
  <2>2. outstanding[r] \in Nat BY AskingIsFinite DEF CounterInv
  <2>3. outstanding'[r] = outstanding[r] + 1 /\ \A p \in Runs \ {r} : outstanding'[p] = outstanding[p]
    BY <1>1, <2>1 DEF TypeInv
  <2>4. BadgeOf(r)' = "waiting_approval" BY <2>2, <2>3 DEF BadgeOf
  <2>5. sess[r] \in Sessions /\ (q # r => sess[q] # sess[r])
    BY <2>1 DEF Shape, RunInv, SoloInv, InFlight
  <2>6. CASE OnWaitingChange(r, "waiting_approval")
    BY <1>7, <2>1, <2>3, <2>4, <2>5, <2>6 DEF InFlight
  <2>7. CASE outstanding[r] # 0 /\ UNCHANGED rows
    <3>1. BadgeOf(r) = "waiting_approval" BY <2>2, <2>7 DEF BadgeOf
    <3> QED BY <2>1, <2>3, <2>4, <2>7, <3>1 DEF rows, BadgeInv, BadgeOf
  <2> QED BY <1>8, <2>6, <2>7 DEF Ask
<1>9. ASSUME NEW d \in Calls, NEW r \in Runs, NEW tool \in Tools, NEW risk \in Risks, AskPreapproved(d, r, tool, risk)
      PROVE  Told
  BY <1>2, <1>9 DEF AskPreapproved, meters
<1>10. ASSUME NEW d \in Calls, NEW approved \in BOOLEAN, NEW remember \in BOOLEAN, Decide(d, approved, remember)
       PROVE  Told
  BY <1>2, <1>10 DEF Decide, meters
<1>11. ASSUME NEW d \in Calls, NEW actor \in Runs \cup {Elsewhere}, NEW approved \in BOOLEAN, StewardDecide(actor, d, approved)
       PROVE  Told
  BY <1>2, <1>11 DEF StewardDecide, meters
<1>12. ASSUME NEW d \in Calls, Expire(d) \/ SignalFires(d) PROVE Told
  BY <1>2, <1>12 DEF Expire, SignalFires, meters
<1>13. ASSUME NEW d \in Calls, Resume(d) PROVE Told
  <2>0. PICK r \in Runs : r = call[d].run
    BY <1>13 DEF Resume, Shape, CallInv
  <2>1. /\ state[d] = "settled" /\ UNCHANGED <<turn, sess>> /\ outstanding' = [outstanding EXCEPT ![r] = @ - 1]
        /\ IF outstanding[r] = 1 THEN OnWaitingChange(r, "running") ELSE UNCHANGED rows
    BY <1>13, <2>0 DEF Resume
  <2>2. sess[r] \in Sessions BY <2>0, <2>1 DEF Shape, CallInv, RunInv
  <2>3. q # r => sess[q] # sess[r] BY <2>0, <2>1 DEF SoloInv, InFlight, Asking
  <2>4. outstanding[r] \in Nat /\ outstanding[r] > 0 BY <1>13, <2>0, ResumeCounters, AskingIsFinite DEF CounterInv
  <2>5. outstanding'[r] = outstanding[r] - 1 /\ \A p \in Runs \ {r} : outstanding'[p] = outstanding[p]
    BY <1>1, <2>1 DEF TypeInv
  <2>6. CASE outstanding[r] = 1
    <3>1. BadgeOf(r)' = "running" BY <2>5, <2>6 DEF BadgeOf
    <3> QED BY <1>7, <2>1, <2>2, <2>3, <2>5, <2>6, <3>1 DEF InFlight
  <2>7. CASE outstanding[r] # 1
    <3>1. BadgeOf(r)' = BadgeOf(r) BY <2>4, <2>5, <2>7 DEF BadgeOf
    <3>2. outstanding'[q] = outstanding[q] \/ q = r BY <2>5
    <3>3. BadgeOf(q)' = BadgeOf(q) BY <3>1, <3>2 DEF BadgeOf
    <3> QED BY <2>1, <2>7, <3>3 DEF rows, BadgeInv
  <2> QED BY <2>6, <2>7
<1>14. ASSUME NEW s \in Sessions, DeleteSession(s) PROVE Told
  BY <1>2, <1>14 DEF DeleteSession, meters
<1>15. ASSUME Crash PROVE Told BY <1>15 DEF Crash
<1>16. ASSUME Boot PROVE Told BY <1>16 DEF Boot, Shape, RunInv, InFlight
<1>17. ASSUME UNCHANGED vars PROVE Told BY <1>2, <1>17 DEF vars, meters
<1> HIDE DEF Told
<1>18. ASSUME NEW r \in Runs, Turn(r) PROVE Told BY <1>3, <1>4, <1>5, <1>6, <1>18 DEF Turn
<1>19. ASSUME NEW d \in Calls, Card(d) PROVE Told BY <1>8, <1>9, <1>10, <1>11, <1>12, <1>13, <1>19 DEF Card
<1>20. Told BY <1>14, <1>15, <1>16, <1>17, <1>18, <1>19 DEF Next
<1> QED BY <1>20 DEF Told

LEMMA BadgesHold == Spec => [](Shape /\ CounterInv /\ SoloInv /\ BadgeInv)
<1>1. Init => SoloInv /\ BadgeInv
  BY DEF Init, SoloInv, BadgeInv, InFlight, Asking
<1> QED BY <1>1, CountersHold, SoloStep, BadgeStep, PTL DEF Spec

\* While a run works, its row and its session's say "waiting" exactly as long
\* as a call of it is with the broker, in whatever order the answers come.
THEOREM BadgesAreTrue == Spec => []BadgeTellsTheTruth
<1>1. CounterInv /\ BadgeInv => BadgeTellsTheTruth
  <2>1. \A r : AskingOf(r) = {c \in CallsOf(r) : state[c] \in {"pending", "settled"}}
    BY DEF AskingOf, CallsOf, Asking
  <2> QED BY <2>1 DEF BadgeTellsTheTruth, CounterInv, BadgeInv, BadgeOf
<1> QED BY <1>1, BadgesHold, PTL

-----------------------------------------------------------------------------
(* The idle timer *)

\* A working run with a call at the broker has no idle timer.
IdleInv == \A r \in Runs : turn[r] = "live" /\ awaitingApproval[r] # 0 => r \notin idleArmed

LEMMA IdleStep == Shape /\ CounterInv /\ IdleInv /\ [Next]_vars => IdleInv'
<1> SUFFICES ASSUME Shape, CounterInv, IdleInv, [Next]_vars, NEW q \in Runs, turn'[q] = "live", awaitingApproval'[q] # 0
             PROVE  q \notin idleArmed'
  BY DEF IdleInv
<1>1. TypeInv BY DEF Shape
<1>2. ASSUME turn[q] = "live", awaitingApproval'[q] = awaitingApproval[q], q \in idleArmed' => q \in idleArmed
      PROVE  q \notin idleArmed'
  BY <1>2 DEF IdleInv
<1>3. ASSUME NEW r \in Runs, NEW s \in Sessions, Begin(r, s) PROVE q \notin idleArmed'
  <2>1. CASE q = r
    <3>1. \A c \in Calls : call[c].run = r => state[c] = "unused"
      BY <1>3 DEF Begin, Shape, CallInv
    <3>2. AskingOf(r) = {} BY <3>1 DEF AskingOf, Asking
    <3>3. awaitingApproval'[r] = 0 BY <1>3, <3>2, FS_EmptySet DEF Begin, CounterInv
    <3> QED BY <2>1, <3>3
  <2>2. CASE q # r
    BY <1>1, <1>2, <1>3, <2>2 DEF Begin, TypeInv
  <2> QED BY <2>1, <2>2
<1>4. ASSUME NEW r \in Runs, Message(r) PROVE q \notin idleArmed'
  BY <1>2, <1>4 DEF Message, Touched
<1>5. ASSUME NEW r \in Runs, TurnEnds(r) \/ IdleExpires(r) PROVE q \notin idleArmed'
  BY <1>1, <1>2, <1>5 DEF TurnEnds, IdleExpires, TypeInv
<1>6. ASSUME NEW r \in Runs, Record(r) \/ RecordThrows(r) \/ Leave(r) \/ Fail(r) PROVE q \notin idleArmed'
  BY <1>1, <1>2, <1>6 DEF Record, RecordThrows, Leave, Fail, TypeInv, meters
<1>7. ASSUME NEW r \in Runs, Abort(r) \/ Interrupt(r) PROVE q \notin idleArmed'
  BY <1>2, <1>7 DEF Abort, Interrupt, meters
<1>8. ASSUME NEW d \in Calls, NEW r \in Runs, NEW tool \in Tools, NEW risk \in Risks, Ask(d, r, tool, risk)
      PROVE  q \notin idleArmed'
  <2>1. /\ UNCHANGED turn /\ awaitingApproval' = [awaitingApproval EXCEPT ![r] = @ + 1]
        /\ idleArmed' = Touched(r, awaitingApproval[r] + 1)
    BY <1>8 DEF Ask
  <2>2. CASE q = r
    BY <1>1, <2>1, <2>2 DEF Touched, TypeInv
  <2>3. CASE q # r
    BY <1>1, <1>2, <2>1, <2>3 DEF Touched, TypeInv
  <2> QED BY <2>2, <2>3
<1>9. ASSUME NEW d \in Calls, NEW r \in Runs, NEW tool \in Tools, NEW risk \in Risks, AskPreapproved(d, r, tool, risk)
      PROVE  q \notin idleArmed'
  BY <1>2, <1>9 DEF AskPreapproved, meters
<1>10. ASSUME NEW d \in Calls, NEW approved \in BOOLEAN, NEW remember \in BOOLEAN, Decide(d, approved, remember)
       PROVE  q \notin idleArmed'
  BY <1>2, <1>10 DEF Decide, meters
<1>11. ASSUME NEW d \in Calls, NEW actor \in Runs \cup {Elsewhere}, NEW approved \in BOOLEAN, StewardDecide(actor, d, approved)
       PROVE  q \notin idleArmed'
  BY <1>2, <1>11 DEF StewardDecide, meters
<1>12. ASSUME NEW d \in Calls, Expire(d) \/ SignalFires(d) PROVE q \notin idleArmed'
  BY <1>2, <1>12 DEF Expire, SignalFires, meters
<1>13. ASSUME NEW d \in Calls, Resume(d) PROVE q \notin idleArmed'
  <2> DEFINE r == call[d].run
  <2>1. /\ UNCHANGED turn /\ awaitingApproval' = [awaitingApproval EXCEPT ![r] = @ - 1]
        /\ idleArmed' = Touched(r, awaitingApproval[r] - 1)
    BY <1>13 DEF Resume
  <2> HIDE DEF r
  <2>2. CASE q = r
    BY <1>1, <2>1, <2>2 DEF Touched, TypeInv
  <2>3. CASE q # r
    BY <1>1, <1>2, <2>1, <2>3 DEF Touched, TypeInv
  <2> QED BY <2>2, <2>3
<1>14. ASSUME NEW s \in Sessions, DeleteSession(s) PROVE q \notin idleArmed'
  BY <1>2, <1>14 DEF DeleteSession, meters
<1>15. CASE Crash BY <1>15 DEF Crash
<1>16. CASE Boot BY <1>2, <1>16 DEF Boot, meters
<1>17. CASE UNCHANGED vars BY <1>2, <1>17 DEF vars, meters
<1>18. ASSUME NEW r \in Runs, Turn(r) PROVE q \notin idleArmed'
  BY <1>3, <1>4, <1>5, <1>6, <1>7, <1>18 DEF Turn
<1>19. ASSUME NEW d \in Calls, Card(d) PROVE q \notin idleArmed'
  BY <1>8, <1>9, <1>10, <1>11, <1>12, <1>13, <1>19 DEF Card
<1> QED BY <1>14, <1>15, <1>16, <1>17, <1>18, <1>19 DEF Next

\* A run is never stopped for its silence while the silence is the operator's.
THEOREM NoIdleStopUnderACard == Spec => []NoIdleUnderACard
<1>1. Init => IdleInv BY DEF Init, IdleInv
<1>2. Shape /\ CounterInv /\ IdleInv => NoIdleUnderACard
  <2> SUFFICES ASSUME CounterInv, IdleInv, NEW r \in Runs, turn[r] = "live", PendingOf(r) # {}
               PROVE  r \notin idleArmed
    BY DEF NoIdleUnderACard
  <2>1. AskingOf(r) # {} BY DEF AskingOf, Asking, PendingOf, CallsOf
  <2>2. Cardinality(AskingOf(r)) # 0 BY <2>1, AskingIsFinite, FS_EmptySet
  <2> QED BY <2>2 DEF CounterInv, IdleInv
<1> QED BY <1>1, <1>2, IdleStep, CountersHold, PTL DEF Spec

=============================================================================
