----------------------------- MODULE PageProofs -----------------------------
(* What the pages of the web client show, for any cards, runs, turns and   *)
(* topics: the board's type and that no card is left in progress behind a  *)
(* run that finished; that a connection's frames come in order, and that a *)
(* view resumed after a lost link is current once nothing is under way.    *)
EXTENDS Board, Feed, DataLemmas

LEMMA StartingType ==
    ASSUME card' \in [Cards -> Card], NEW c \in Cards, NEW by \in {"send", "work"}
    PROVE  Starting(c, by) \in Flow \cup {None}
<1>1. CASE ~OnBoard(card'[c]) \/ IsLive(card'[c].run, runState')
  BY <1>1 DEF Starting
<1>2. CASE OnBoard(card'[c]) /\ ~IsLive(card'[c].run, runState')
  <2>1. card'[c] \in Card OBVIOUS
  <2>2. card'[c].status \in Columns /\ card'[c].blocked \in BOOLEAN
    BY <1>2, <2>1 DEF Card, OnBoard
  <2>3. [card |-> c, at |-> "submit", by |-> by, status |-> card'[c].status, blocked |-> card'[c].blocked] \in Flow
    BY <2>2 DEF Flow
  <2> QED BY <1>2, <2>3 DEF Starting
<1> QED BY <1>1, <1>2

LEMMA AwaitedType ==
    ASSUME card' \in [Cards -> Card], NEW manual \in BOOLEAN
    PROVE  Awaited(manual) \subseteq Flow \cup {None}
<1>1. \A c \in Cards : Starting(c, "work") \in Flow \cup {None}
  BY StartingType
<1>2. \A c \in Cards : [card |-> c, at |-> "probe", by |-> "work", status |-> "todo", blocked |-> FALSE] \in Flow
  BY DEF Flow, Columns
<1>3. DelegatedReview \subseteq Cards /\ NextCard \subseteq Cards
  BY DEF DelegatedReview, NextCard
<1> QED BY <1>1, <1>2, <1>3 DEF Awaited

LEMMA WorkNextType ==
    ASSUME TypeOK, card' \in [Cards -> Card], NEW p \in Callers, NEW manual \in BOOLEAN, WorkNext(p, manual)
    PROVE  caller' \in [Callers -> Flow \cup {None}]
<1>1. PICK w \in Awaited(manual) : caller' = [caller EXCEPT ![p] = w]
  BY DEF WorkNext
<1>2. w \in Flow \cup {None}
  BY <1>1, AwaitedType
<1> QED BY <1>1, <1>2 DEF TypeOK

\* A write by hand of a well-formed row.
LEMMA TouchType ==
    ASSUME TypeOK, NEW c \in Cards, NEW stored \in Card, Touch(c, stored)
    PROVE  /\ card' \in [Cards -> Card]
           /\ runState' \in [Runs -> {"live", "ended", "lost"}]
           /\ autoWork' \in BOOLEAN
           /\ touched' \subseteq Cards
           /\ touches' \in 0..MaxTouches
<1>1. touches' \in 0..MaxTouches
  BY BoundAssumption DEF TypeOK, Touch
<1> QED BY <1>1 DEF TypeOK, Touch

LEMMA WorkedType ==
    ASSUME NEW stored \in Card, NEW w \in Flow, NEW r \in Runs
    PROVE  Worked(stored, w, r) \in Card
BY DEF Worked, Card, Columns, Flow

LEMMA OutcomeType ==
    ASSUME NEW stored \in Card, NEW status
    PROVE  Outcome(stored, status) \in Card
BY DEF Outcome, Card, Columns

LEMMA TypeInit == Init => TypeOK
BY BoundAssumption DEF Init, TypeOK, NoCard, Card, Columns

LEMMA TypeStep == TypeOK /\ [Next]_vars => TypeOK'
<1> SUFFICES ASSUME TypeOK, [Next]_vars PROVE TypeOK'
  OBVIOUS
<1>1. ASSUME NEW p \in Callers, NEW b \in BOOLEAN, Work(p, b) PROVE TypeOK'
  <2>1. card' \in [Cards -> Card] BY <1>1 DEF Work, TypeOK
  <2>2. caller' \in [Callers -> Flow \cup {None}] BY <1>1, <2>1, WorkNextType DEF Work
  <2> QED BY <1>1, <2>1, <2>2 DEF Work, TypeOK
<1>2. ASSUME NEW p \in Callers, NEW b \in BOOLEAN, Probed(p, b) PROVE TypeOK'
  <2>1. card' \in [Cards -> Card] BY <1>2 DEF Probed, TypeOK
  <2>2. caller[p] \in Flow /\ caller[p].card \in Cards BY <1>2 DEF Probed, TypeOK, Flow
  <2>3. Starting(caller[p].card, "work") \in Flow \cup {None} BY <2>1, <2>2, StartingType
  <2>4. caller' \in [Callers -> Flow \cup {None}] BY <1>2, <2>3 DEF Probed, TypeOK
  <2> QED BY <1>2, <2>1, <2>4 DEF Probed, TypeOK
<1>3. ASSUME NEW p \in Callers, NEW c \in Cards, Send(p, c) PROVE TypeOK'
  <2>1. card' \in [Cards -> Card] BY <1>3 DEF Send, TypeOK
  <2>2. Starting(c, "send") \in Flow \cup {None} BY <2>1, StartingType
  <2>3. caller' \in [Callers -> Flow \cup {None}] BY <1>3, <2>2 DEF Send, TypeOK
  <2>4. touches' \in 0..MaxTouches BY <1>3, BoundAssumption DEF Send, TypeOK
  <2> QED BY <1>3, <2>1, <2>3, <2>4 DEF Send, TypeOK
<1>4. ASSUME NEW p \in Callers, Submitted(p) PROVE TypeOK'
  <2> DEFINE w == caller[p]
             r == CHOOSE x \in Runs : ~InUse(x)
  <2>1. w \in Flow /\ w.card \in Cards BY <1>4 DEF Submitted, TypeOK, Flow
  <2>2. r \in Runs BY <1>4 DEF Submitted
  <2>3. Worked(card[w.card], w, r) \in Card BY <2>1, <2>2, WorkedType DEF TypeOK
  <2>4. card' = [card EXCEPT ![w.card] = Worked(@, w, r)] /\ runState' = [runState EXCEPT ![r] = "live"]
        /\ touched' = touched \ {w.card} /\ caller' = [caller EXCEPT ![p] = None]
        /\ UNCHANGED <<autoWork, touches>>
    BY <1>4 DEF Submitted
  <2> HIDE DEF w, r
  <2>5. card' \in [Cards -> Card] BY <2>1, <2>3, <2>4 DEF TypeOK
  <2> QED BY <2>2, <2>4, <2>5 DEF TypeOK
<1>5. ASSUME NEW p \in Callers, Refused(p) PROVE TypeOK'
  BY <1>5 DEF Refused, TypeOK
<1>6. ASSUME NEW p \in Callers, NEW r \in Runs, NEW status \in {"succeeded", "failed"}, RunFinishes(p, r, status)
      PROVE TypeOK'
  <2>1. card' \in [Cards -> Card] BY <1>6, OutcomeType DEF RunFinishes, TypeOK
  <2>2. caller' \in [Callers -> Flow \cup {None}] BY <1>6, <2>1, WorkNextType DEF RunFinishes
  <2> QED BY <1>6, <2>1, <2>2 DEF RunFinishes, TypeOK
<1>7. ASSUME NEW r \in Runs, RunIsLost(r) PROVE TypeOK'
  BY <1>7 DEF RunIsLost, TypeOK
<1>8. CASE Crash
  BY <1>8 DEF Crash, TypeOK
<1>9. ASSUME NEW c \in Cards, NEW column \in Columns, MoveCard(c, column) PROVE TypeOK'
  <2> DEFINE stored == [card[c] EXCEPT !.status = column, !.blocked = FALSE,
                       !.assignee = IF column = "review" /\ card[c].status # "review" THEN "user" ELSE @]
  <2>1. stored \in Card BY DEF TypeOK, Card, Columns
  <2>2. Touch(c, stored) /\ UNCHANGED caller BY <1>9 DEF MoveCard
  <2> HIDE DEF stored
  <2> QED BY <2>1, <2>2, TouchType DEF TypeOK
<1>10. ASSUME NEW c \in Cards, NEW column \in Columns, NEW who \in {None, "user", "agent"},
              CreateCard(c, column, who)
       PROVE  TypeOK'
  <2> DEFINE stored == [NoCard EXCEPT !.status = column, !.assignee = who]
  <2>1. stored \in Card BY DEF NoCard, Card, Columns
  <2>2. Touch(c, stored) /\ UNCHANGED caller BY <1>10 DEF CreateCard
  <2> HIDE DEF stored
  <2> QED BY <2>1, <2>2, TouchType DEF TypeOK
<1>11. ASSUME NEW c \in Cards, NEW b \in BOOLEAN, BlockCard(c, b) PROVE TypeOK'
  <2>1. [card[c] EXCEPT !.blocked = b] \in Card BY DEF TypeOK, Card, Columns
  <2>2. Touch(c, [card[c] EXCEPT !.blocked = b]) /\ UNCHANGED caller BY <1>11 DEF BlockCard
  <2> QED BY <2>1, <2>2, TouchType DEF TypeOK
<1>12. ASSUME NEW c \in Cards, NEW b \in BOOLEAN, Shelve(c, b) PROVE TypeOK'
  <2>1. [card[c] EXCEPT !.archived = b] \in Card BY DEF TypeOK, Card, Columns
  <2>2. Touch(c, [card[c] EXCEPT !.archived = b]) /\ UNCHANGED caller BY <1>12 DEF Shelve
  <2> QED BY <2>1, <2>2, TouchType DEF TypeOK
<1>13. ASSUME NEW p \in Callers, NEW c \in Cards, NEW who \in {"user", "agent"}, Assign(p, c, who) PROVE TypeOK'
  <2>1. [card[c] EXCEPT !.assignee = who] \in Card BY DEF TypeOK, Card, Columns
  <2>2. Touch(c, [card[c] EXCEPT !.assignee = who]) BY <1>13 DEF Assign
  <2>3. card' \in [Cards -> Card] BY <2>1, <2>2, TouchType
  <2>4. WorkNext(p, FALSE) \/ UNCHANGED caller BY <1>13 DEF Assign
  <2>5. caller' \in [Callers -> Flow \cup {None}] BY <2>3, <2>4, WorkNextType DEF TypeOK
  <2> QED BY <2>1, <2>2, <2>5, TouchType DEF TypeOK
<1>14. ASSUME NEW c \in Cards, DeleteCard(c) PROVE TypeOK'
  <2>1. NoCard \in Card BY DEF NoCard, Card, Columns
  <2> QED BY <1>14, <2>1, TouchType DEF DeleteCard, TypeOK
<1>15. CASE SetAutoWork
  BY <1>15, BoundAssumption DEF SetAutoWork, TypeOK
<1>16. CASE UNCHANGED vars
  BY <1>16 DEF vars, TypeOK
<1> QED
  BY <1>1, <1>2, <1>3, <1>4, <1>5, <1>6, <1>7, <1>8, <1>9, <1>10, <1>11, <1>12, <1>13, <1>14, <1>15, <1>16
  DEF Next

\* The state of the board is well typed for any cards, runs and flows.
THEOREM BoardTypeCorrect == Spec => []TypeOK
BY TypeInit, TypeStep, PTL DEF Spec

-----------------------------------------------------------------------------
\* A card nobody wrote by hand is still accounted for after a step that
\* leaves its row alone and ends its run unheard, or not at all.
LEMMA StillAccounted ==
    ASSUME WorkIsAccountedFor, NEW c \in Cards, c \notin touched,
           card'[c] = card[c],
           card[c].run # None =>
               \/ runState'[card[c].run] = runState[card[c].run]
               \/ runState'[card[c].run] = "lost"
    PROVE  OnBoard(card'[c]) /\ card'[c].status = "in_progress" /\ ~card'[c].blocked
              => card'[c].run # None /\ runState'[card'[c].run] \in {"live", "lost"}
BY DEF WorkIsAccountedFor

\* What startTaskRun leaves behind is the new run's.
LEMMA WorkedIsAccounted ==
    ASSUME NEW stored \in Card, NEW w \in Flow, NEW r \in Runs, OnBoard(Worked(stored, w, r))
    PROVE  Worked(stored, w, r).run = r
BY DEF Worked, OnBoard, Card

LEMMA WorkStep == TypeOK /\ WorkIsAccountedFor /\ [Next]_vars => WorkIsAccountedFor'
<1> SUFFICES ASSUME TypeOK, WorkIsAccountedFor, [Next]_vars, NEW c \in Cards, c \notin touched'
             PROVE  OnBoard(card'[c]) /\ card'[c].status = "in_progress" /\ ~card'[c].blocked
                       => card'[c].run # None /\ runState'[card'[c].run] \in {"live", "lost"}
  BY DEF WorkIsAccountedFor
<1> DEFINE Quiet == c \notin touched /\ card'[c] = card[c] /\ runState' = runState
<1>1. Quiet => (OnBoard(card'[c]) /\ card'[c].status = "in_progress" /\ ~card'[c].blocked
                  => card'[c].run # None /\ runState'[card'[c].run] \in {"live", "lost"})
  BY StillAccounted
<1>2. ASSUME NEW p \in Callers, NEW b \in BOOLEAN, Work(p, b) \/ Probed(p, b) PROVE Quiet
  BY <1>2 DEF Work, Probed
<1>3. ASSUME NEW p \in Callers, NEW d \in Cards, Send(p, d) PROVE Quiet
  BY <1>3 DEF Send
<1>4. ASSUME NEW p \in Callers, Refused(p) PROVE Quiet
  BY <1>4 DEF Refused
<1>5. ASSUME NEW d \in Cards, NEW stored, Touch(d, stored) PROVE Quiet
  BY <1>5 DEF Touch, TypeOK
<1>6. ASSUME NEW p \in Callers, Submitted(p)
      PROVE  OnBoard(card'[c]) /\ card'[c].status = "in_progress" /\ ~card'[c].blocked
                => card'[c].run # None /\ runState'[card'[c].run] \in {"live", "lost"}
  <2> DEFINE w == caller[p]
             r == CHOOSE x \in Runs : ~InUse(x)
  <2>1. w \in Flow /\ w.card \in Cards BY <1>6 DEF Submitted, TypeOK, Flow
  <2>2. r \in Runs /\ ~InUse(r) BY <1>6 DEF Submitted
  <2>3. /\ card' = [card EXCEPT ![w.card] = Worked(@, w, r)]
        /\ runState' = [runState EXCEPT ![r] = "live"]
        /\ touched' = touched \ {w.card}
    BY <1>6 DEF Submitted
  <2> HIDE DEF w, r
  <2>4. runState'[r] = "live" /\ r # None BY <2>2, <2>3, NoneOutside DEF TypeOK
  <2>5. CASE c = w.card
    <3>1. card'[c] = Worked(card[c], w, r) BY <2>3, <2>5 DEF TypeOK
    <3>2. OnBoard(card'[c]) => card'[c].run = r BY <2>1, <2>2, <3>1, WorkedIsAccounted DEF TypeOK
    <3> QED BY <2>4, <3>2
  <2>6. CASE c # w.card
    <3>1. card'[c] = card[c] /\ c \notin touched BY <2>3, <2>6 DEF TypeOK
    <3>2. card[c].run # r BY <2>2 DEF InUse
    <3>3. card[c] \in Card BY DEF TypeOK
    <3>4. card[c].run # None => runState'[card[c].run] = runState[card[c].run]
      BY <2>3, <3>2, <3>3 DEF TypeOK, Card
    <3> QED BY <3>1, <3>4, StillAccounted
  <2> QED BY <2>5, <2>6
<1>7. ASSUME NEW p \in Callers, NEW r \in Runs, NEW status \in {"succeeded", "failed"}, RunFinishes(p, r, status)
      PROVE  OnBoard(card'[c]) /\ card'[c].status = "in_progress" /\ ~card'[c].blocked
                => card'[c].run # None /\ runState'[card'[c].run] \in {"live", "lost"}
  <2>1. card[c] \in Card BY DEF TypeOK
  <2>2. c \notin touched /\ runState' = [runState EXCEPT ![r] = "ended"] BY <1>7 DEF RunFinishes
  <2>3. CASE card[c].run = r /\ OnBoard(card[c]) /\ card[c].status = "in_progress"
    <3>1. card'[c] = Outcome(card[c], status) BY <1>7, <2>3 DEF RunFinishes
    <3>2. Outcome(card[c], status).status # "in_progress" \/ Outcome(card[c], status).blocked
      BY <2>1 DEF Outcome, Card
    <3> QED BY <3>1, <3>2
  <2>4. CASE ~(card[c].run = r /\ OnBoard(card[c]) /\ card[c].status = "in_progress")
    <3>1. card'[c] = card[c] BY <1>7, <2>4 DEF RunFinishes
    <3>2. CASE card[c].run # r
      <4>1. card[c].run # None => runState'[card[c].run] = runState[card[c].run]
        BY <2>1, <2>2, <3>2 DEF TypeOK, Card
      <4> QED BY <2>2, <3>1, <4>1, StillAccounted
    <3>3. CASE card[c].run = r
      BY <2>4, <3>1, <3>3
    <3> QED BY <3>2, <3>3
  <2> QED BY <2>3, <2>4
<1>8. ASSUME NEW r \in Runs, RunIsLost(r)
      PROVE  OnBoard(card'[c]) /\ card'[c].status = "in_progress" /\ ~card'[c].blocked
                => card'[c].run # None /\ runState'[card'[c].run] \in {"live", "lost"}
  <2>1. card[c] \in Card BY DEF TypeOK
  <2>2. card[c].run # None => \/ runState'[card[c].run] = runState[card[c].run]
                              \/ runState'[card[c].run] = "lost"
    BY <1>8, <2>1 DEF RunIsLost, TypeOK, Card
  <2> QED BY <1>8, <2>2, StillAccounted DEF RunIsLost
<1>9. ASSUME Crash
      PROVE  OnBoard(card'[c]) /\ card'[c].status = "in_progress" /\ ~card'[c].blocked
                => card'[c].run # None /\ runState'[card'[c].run] \in {"live", "lost"}
  <2>1. card[c] \in Card BY DEF TypeOK
  <2>2. card[c].run # None => \/ runState'[card[c].run] = runState[card[c].run]
                              \/ runState'[card[c].run] = "lost"
    BY <1>9, <2>1 DEF Crash, TypeOK, Card
  <2> QED BY <1>9, <2>2, StillAccounted DEF Crash
<1>10. CASE SetAutoWork \/ UNCHANGED vars
  <2> Quiet BY <1>10 DEF SetAutoWork, vars
  <2> QED BY <1>1
<1> HIDE DEF Quiet
<1>11. ASSUME NEW d \in Cards, NEW column \in Columns, MoveCard(d, column) PROVE Quiet
  BY <1>5, <1>11 DEF MoveCard
<1>12. ASSUME NEW d \in Cards, NEW column \in Columns, NEW who \in {None, "user", "agent"}, CreateCard(d, column, who)
       PROVE  Quiet
  BY <1>5, <1>12 DEF CreateCard
<1>13. ASSUME NEW d \in Cards, NEW b \in BOOLEAN, BlockCard(d, b) \/ Shelve(d, b) PROVE Quiet
  BY <1>5, <1>13 DEF BlockCard, Shelve
<1>14. ASSUME NEW p \in Callers, NEW d \in Cards, NEW who \in {"user", "agent"}, Assign(p, d, who) PROVE Quiet
  BY <1>5, <1>14 DEF Assign
<1>15. ASSUME NEW d \in Cards, DeleteCard(d) PROVE Quiet
  BY <1>5, <1>15 DEF DeleteCard
<1> QED
  BY <1>1, <1>2, <1>3, <1>4, <1>6, <1>7, <1>8, <1>9, <1>10, <1>11, <1>12, <1>13, <1>14, <1>15 DEF Next

\* applyRunOutcome closes the loop for any number of cards, runs and flows: a
\* card nobody wrote by hand is never left in progress behind a run that
\* finished.
THEOREM EveryCardIsAccountedFor == Spec => []WorkIsAccountedFor
<1>1. Init => WorkIsAccountedFor
  BY DEF Init, WorkIsAccountedFor, OnBoard, NoCard
<1>2. TypeOK /\ WorkIsAccountedFor /\ [Next]_vars => WorkIsAccountedFor'
  BY WorkStep
<1> QED BY <1>1, <1>2, BoardTypeCorrect, PTL DEF Spec

-----------------------------------------------------------------------------
(* Feed: frames in order *)

Frames == [type : {"frame"}, topic : Topics, seq : Nat, run : Turns, status : {"active", "ended"}]
Downlink == Frames \cup [type : {"ready"}, seq : Nat]
Subscriptions == [type : {"subscribe"}, topics : SUBSET Topics, since : Nat \cup {NoCursor}]
Uplink == Subscriptions \cup [type : {"hello"}]

FeedTypeOK ==
    /\ row \in [Turns -> Status] /\ view \in [Turns -> Status]
    /\ fetch \in [at : {"idle", "asked", "answered"}, rows : [Turns -> Status]]
    /\ serial \in Nat
    /\ ring \in [Topics -> Seq(Frames)]
    /\ watched \in SUBSET Topics
    /\ inbound \in Seq(Uplink) /\ outbound \in Seq(Downlink)
    /\ cursor \in Nat \cup {NoCursor}
    /\ last \in [Topics -> Nat]
    /\ live \in BOOLEAN /\ linked \in BOOLEAN

Of(m, t) == m.type = "frame" /\ m.topic = t

\* The frames of a topic in a queue: above low, up to high, each above the
\* one before it.
Rising(q, t, low, high) ==
    /\ \A i \in 1..Len(q) : Of(q[i], t) => low < q[i].seq /\ q[i].seq <= high
    /\ \A i, j \in 1..Len(q) : i < j /\ Of(q[i], t) /\ Of(q[j], t) => q[i].seq < q[j].seq

\* A queue without frames of the topic is in order, whatever its bounds.
LEMMA NoneRise ==
    ASSUME NEW q, NEW t, \A i \in 1..Len(q) : ~Of(q[i], t), NEW low, NEW high
    PROVE  Rising(q, t, low, high)
BY DEF Rising

\* Two queues in order, the second starting where the first ends, join in order.
LEMMA RisingJoins ==
    ASSUME NEW p \in Seq(Downlink), NEW q \in Seq(Downlink), NEW t,
           NEW low \in Nat, NEW mid \in Nat, NEW high \in Nat, low <= mid, mid <= high,
           Rising(p, t, low, mid), Rising(q, t, mid, high)
    PROVE  Rising(p \o q, t, low, high)
<1> DEFINE r == p \o q
<1>1. /\ Len(r) = Len(p) + Len(q) /\ Len(p) \in Nat /\ Len(q) \in Nat
      /\ \A k \in 1..Len(r) : \/ k \in 1..Len(p) /\ r[k] = p[k]
                              \/ k - Len(p) \in 1..Len(q) /\ k > Len(p) /\ r[k] = q[k - Len(p)]
  BY Joined
<1> HIDE DEF r
<1>2. \A m \in Downlink : \A u : Of(m, u) => m.seq \in Nat BY DEF Of, Downlink, Frames
<1>3. (\A i \in 1..Len(p) : p[i] \in Downlink) /\ (\A i \in 1..Len(q) : q[i] \in Downlink) BY <1>1
<1>4. ASSUME NEW i \in 1..Len(r), Of(r[i], t) PROVE low < r[i].seq /\ r[i].seq <= high
  <2>1. CASE i \in 1..Len(p) /\ r[i] = p[i] BY <1>2, <1>3, <1>4, <2>1 DEF Rising
  <2>2. CASE i - Len(p) \in 1..Len(q) /\ r[i] = q[i - Len(p)] BY <1>2, <1>3, <1>4, <2>2 DEF Rising
  <2> QED BY <1>1, <2>1, <2>2
<1>5. ASSUME NEW i \in 1..Len(r), NEW j \in 1..Len(r), i < j, Of(r[i], t), Of(r[j], t) PROVE r[i].seq < r[j].seq
  <2>1. CASE i \in 1..Len(p) /\ j \in 1..Len(p) /\ r[i] = p[i] /\ r[j] = p[j]
    BY <1>5, <2>1 DEF Rising
  <2>2. CASE /\ i \in 1..Len(p) /\ r[i] = p[i]
             /\ j - Len(p) \in 1..Len(q) /\ r[j] = q[j - Len(p)]
    <3>1. p[i].seq <= mid /\ p[i].seq \in Nat BY <1>2, <1>3, <1>5, <2>2 DEF Rising
    <3>2. mid < r[j].seq BY <1>5, <2>2 DEF Rising
    <3>3. r[j].seq \in Nat BY <1>2, <1>3, <1>5, <2>2
    <3>4. p[i].seq < r[j].seq BY <3>1, <3>2, <3>3
    <3> QED BY <2>2, <3>4
  <2>3. CASE /\ i - Len(p) \in 1..Len(q) /\ r[i] = q[i - Len(p)]
             /\ j - Len(p) \in 1..Len(q) /\ r[j] = q[j - Len(p)]
    <3>1. i - Len(p) < j - Len(p) BY <1>1, <1>5
    <3> QED BY <1>5, <2>3, <3>1 DEF Rising
  <2>4. CASE i > Len(p) /\ j \in 1..Len(p) BY <1>1, <1>5, <2>4
  <2> QED BY <1>1, <2>1, <2>2, <2>3, <2>4
<1>6. Rising(r, t, low, high) BY <1>4, <1>5 DEF Rising
<1> QED BY <1>6 DEF r

\* Order survives wider bounds.
LEMMA RisingWidens ==
    ASSUME NEW q \in Seq(Downlink), NEW t, NEW low \in Nat, NEW high \in Nat, NEW l \in Nat, NEW h \in Nat,
           Rising(q, t, low, high), l <= low, high <= h
    PROVE  Rising(q, t, l, h)
<1>1. \A m \in Downlink : \A u : Of(m, u) => m.seq \in Nat BY DEF Of, Downlink, Frames
<1>2. \A i \in 1..Len(q) : q[i] \in Downlink OBVIOUS
<1>3. ASSUME NEW i \in 1..Len(q), Of(q[i], t) PROVE l < q[i].seq /\ q[i].seq <= h
  <2>1. q[i].seq \in Nat BY <1>1, <1>2, <1>3
  <2>2. low < q[i].seq /\ q[i].seq <= high BY <1>3 DEF Rising
  <2> QED BY <2>1, <2>2
<1> QED BY <1>3 DEF Rising

\* Taking the head keeps the rest in order, above the frame taken.
LEMMA RisingShrinks ==
    ASSUME NEW q \in Seq(Downlink), q # <<>>, NEW t, NEW low, NEW high, Rising(q, t, low, high)
    PROVE  /\ Rising(Tail(q), t, low, high)
           /\ Of(Head(q), t) => Rising(Tail(q), t, Head(q).seq, high) /\ low < Head(q).seq /\ Head(q).seq <= high
<1>1. /\ Head(q) = q[1] /\ 1 \in 1..Len(q) /\ Len(q) \in Nat /\ Len(Tail(q)) = Len(q) - 1
      /\ \A i \in 1..Len(Tail(q)) : i + 1 \in 1..Len(q) /\ Tail(q)[i] = q[i + 1]
  BY Tailed
<1>2. \A i, j \in 1..Len(Tail(q)) : i < j => i + 1 < j + 1 BY <1>1
<1>3. \A i \in 1..Len(Tail(q)) : 1 < i + 1 BY <1>1
<1> QED BY <1>1, <1>2, <1>3 DEF Rising

\* What is after a number is the end of the buffer: all of it, and no more.
LEMMA MissedIsTheRest ==
    ASSUME FeedTypeOK, NEW t \in Topics, NEW since \in Nat,
           \A i \in 1..Len(ring[t]) : Of(ring[t][i], t), Rising(ring[t], t, 0, serial)
    PROVE  LET g == Missed(t, since)
           IN  /\ g \in Seq(Frames)
               /\ \A i \in 1..Len(g) : Of(g[i], t) /\ g[i] \in Range(ring[t])
               /\ Rising(g, t, since, serial)
               /\ \A k \in 1..Len(ring[t]) : ring[t][k].seq > since => \E i \in 1..Len(g) : g[i] = ring[t][k]
<1> DEFINE q == ring[t]
           n == Len(q)
           seen == {i \in 1..n : q[i].seq <= since}
           unseen == {i \in Nat \ {0} : i \notin seen}
<1>1. q \in Seq(Frames) /\ n \in Nat /\ \A i \in 1..n : q[i] \in Frames /\ q[i].seq \in Nat /\ Of(q[i], t)
  <2>1. q \in Seq(Frames) BY DEF FeedTypeOK
  <2>2. n \in Nat /\ \A i \in 1..n : q[i] \in Frames BY <2>1
  <2>3. \A f \in Frames : f.seq \in Nat BY DEF Frames
  <2>4. \A i \in 1..n : Of(q[i], t) OBVIOUS
  <2> QED BY <2>1, <2>2, <2>3, <2>4
<1>2. \A i, j \in 1..n : i < j => q[i].seq < q[j].seq BY DEF Rising
<1>20. \A i \in 1..n : 0 < q[i].seq /\ q[i].seq <= serial BY DEF Rising
<1>3. Missed(t, since) = SubSeq(q, Cardinality(seen) + 1, n)
  <2>1. since # NoCursor BY CursorAssumption
  <2> QED BY <2>1 DEF Missed
<1> HIDE DEF q
<1>4. n + 1 \in unseen BY <1>1
<1>5. PICK m \in unseen : \A k \in unseen : m <= k
  <2>1. unseen \in SUBSET Nat OBVIOUS
  <2> HIDE DEF unseen
  <2> QED BY <1>4, <2>1, LeastNatural
<1>6. m \in Nat \ {0} /\ m - 1 \in 0..n BY <1>1, <1>4, <1>5
<1>7. seen = 1..(m - 1)
  <2>1. ASSUME NEW i \in 1..(m - 1) PROVE i \in seen
    <3>1. i \in Nat \ {0} /\ i < m BY <1>6
    <3> QED BY <1>5, <3>1
  <2>2. ASSUME NEW i \in seen PROVE i \in 1..(m - 1)
    <3> SUFFICES ASSUME i >= m PROVE FALSE BY <1>1, <1>6
    <3>1. i \in 1..n /\ q[i].seq <= since BY <2>2
    <3>2. m \in 1..n /\ m # i BY <1>1, <1>5, <1>6, <2>2, <3>1
    <3>3. q[m].seq < q[i].seq BY <1>1, <1>2, <1>6, <3>1, <3>2
    <3>4. m \in seen BY <1>1, <3>1, <3>2, <3>3
    <3> QED BY <1>5, <3>4
  <2> QED BY <2>1, <2>2
<1>8. Cardinality(seen) = m - 1
  <2>1. m - 1 \in Int /\ 1 \in Int BY <1>6
  <2>2. Cardinality(1..(m - 1)) = IF 1 > m - 1 THEN 0 ELSE (m - 1) - 1 + 1 BY <2>1, FS_Interval
  <2> HIDE DEF seen
  <2> QED BY <1>6, <1>7, <2>2
<1> DEFINE g == SubSeq(q, m, n)
<1>9. Missed(t, since) = g
  <2>1. Cardinality(seen) + 1 = m BY <1>6, <1>8
  <2> HIDE DEF seen, n
  <2> QED BY <1>3, <2>1
<1>10. /\ g \in Seq(Frames) /\ Len(g) = n - m + 1
       /\ \A i \in 1..Len(g) : g[i] = q[m - 1 + i] /\ m - 1 + i \in 1..n /\ m - 1 + i > m - 1
       /\ \A k \in m..n : k - m + 1 \in 1..Len(g) /\ g[k - m + 1] = q[k]
  BY <1>1, <1>6
<1>11. \A k \in m..n : k \notin 1..(m - 1) BY <1>1, <1>6
<1>12. ASSUME NEW k \in m..n PROVE k \in 1..n /\ q[k].seq > since
  <2>1. k \in 1..n BY <1>1, <1>6
  <2>2. k \notin seen BY <1>7, <1>11
  <2>3. ~(q[k].seq <= since) BY <2>1, <2>2
  <2> QED BY <1>1, <2>1, <2>3
<1> HIDE DEF g, n
<1>13. \A i \in 1..Len(g) : Of(g[i], t) /\ g[i].seq > since /\ g[i].seq <= serial
  <2> TAKE i \in 1..Len(g)
  <2>0. g[i] = q[m - 1 + i] /\ m - 1 + i \in 1..n /\ m - 1 + i > m - 1 BY <1>10
  <2>1. g[i] = q[m - 1 + i] /\ m - 1 + i \in 1..n /\ m - 1 + i \in m..n BY <1>1, <1>6, <2>0
  <2> QED BY <1>1, <1>12, <1>20, <2>1
<1>14. \A i, j \in 1..Len(g) : i < j => g[i].seq < g[j].seq
  <2> TAKE i, j \in 1..Len(g)
  <2> HAVE i < j
  <2>1. m - 1 + i < m - 1 + j BY <1>6
  <2> QED BY <1>2, <1>10, <2>1
<1>15. \A i \in 1..Len(g) : g[i] \in Range(ring[t])
  <2>1. \A i \in 1..n : q[i] \in Range(q) BY <1>1, InRange DEF n
  <2> QED BY <1>10, <2>1 DEF q
<1>16. \A k \in 1..n : q[k].seq > since => \E i \in 1..Len(g) : g[i] = q[k]
  <2> TAKE k \in 1..n
  <2> HAVE q[k].seq > since
  <2>1. k \notin seen BY <1>1
  <2>2. k \in m..n BY <1>1, <1>6, <1>7, <2>1
  <2> QED BY <1>10, <2>2
<1> QED BY <1>9, <1>10, <1>13, <1>14, <1>15, <1>16 DEF q, n, Rising

BufferOf(t) == (\A i \in 1..Len(ring[t]) : Of(ring[t][i], t)) /\ Rising(ring[t], t, 0, serial)

\* What the page has applied of a topic is behind its cursor.
Applied(t) ==
    /\ last[t] <= serial
    /\ IF cursor = NoCursor THEN last[t] = 0 ELSE last[t] <= cursor

\* A topic without a listener has nothing on its way, and is asked for from
\* the last frame applied or a later one.
Unheard(t) ==
    t \notin watched =>
        /\ \A i \in 1..Len(outbound) : ~Of(outbound[i], t)
        /\ \A i \in 1..Len(inbound) :
             inbound[i].type = "subscribe" /\ t \in inbound[i].topics /\ inbound[i].since # NoCursor
               => last[t] <= inbound[i].since

FramesInv ==
    /\ FeedTypeOK
    /\ \A t \in Topics : BufferOf(t) /\ Rising(outbound, t, last[t], serial) /\ Applied(t) /\ Unheard(t)

\* A frame goes to the socket once or not at all.
LEMMA ForwardedIs ==
    ASSUME NEW f \in Frames
    PROVE  /\ Forwarded(f) \in Seq(Downlink)
           /\ \/ f.topic \in watched /\ Forwarded(f) = <<f>>
              \/ f.topic \notin watched /\ Forwarded(f) = <<>>
           /\ <<f>> # <<>>
<1>1. f \in Downlink BY DEF Downlink
<1>2. <<f>> \in Seq(Downlink) /\ <<>> \in Seq(Downlink) /\ <<f>> # <<>> BY <1>1
<1> QED BY <1>2 DEF Forwarded

\* A frame joins the buffer of its topic and the queue to whoever listens.
LEMMA PublishKeeps ==
    ASSUME FramesInv, NEW r \in Turns, NEW status \in Status, RunMoves(r, status)
    PROVE  FramesInv'
<1> DEFINE first == StatusFrame("session", serial + 1, r, status)
           second == StatusFrame("workspace", serial + 2, r, status)
           frame(t) == IF t = "session" THEN first ELSE second
           x == Forwarded(first)
           y == Forwarded(second)
<1>1. FeedTypeOK /\ serial \in Nat /\ outbound \in Seq(Downlink) /\ last \in [Topics -> Nat]
      /\ ring \in [Topics -> Seq(Frames)] /\ watched \in SUBSET Topics
  BY DEF FramesInv, FeedTypeOK
<1>2. /\ ring' = [t \in Topics |-> Append(ring[t], frame(t))]
      /\ outbound' = (outbound \o x) \o y
      /\ serial' = serial + 2 /\ row' = [row EXCEPT ![r] = status]
      /\ UNCHANGED <<watched, inbound, linked, client, fetch, last>>
  BY DEF RunMoves, remembered
<1>3. status \in {"active", "ended"} BY DEF RunMoves
<1>4. first \in Frames /\ second \in Frames /\ Of(first, "session") /\ Of(second, "workspace")
      /\ first.seq = serial + 1 /\ second.seq = serial + 2
  BY <1>1, <1>3 DEF Frames, StatusFrame, Topics, Of
<1>5. \A t \in Topics : frame(t) \in Frames /\ Of(frame(t), t) /\ frame(t).seq \in {serial + 1, serial + 2}
  BY <1>4 DEF Topics
<1>6. /\ x \in Seq(Downlink) /\ y \in Seq(Downlink)
      /\ x = <<first>> \/ (x = <<>> /\ "session" \notin watched)
      /\ y = <<second>> \/ (y = <<>> /\ "workspace" \notin watched)
      /\ x = <<first>> => "session" \in watched
      /\ y = <<second>> => "workspace" \in watched
  <2>1. first.topic = "session" /\ second.topic = "workspace" BY <1>4 DEF Of
  <2> HIDE DEF first, second
  <2> QED BY <1>4, <2>1, ForwardedIs
<1> HIDE DEF first, second, frame, x, y
<1>7. outbound \o x \in Seq(Downlink) /\ outbound' \in Seq(Downlink) BY <1>1, <1>2, <1>6
<1>8. FeedTypeOK'
  <2>1. ring' \in [Topics -> Seq(Frames)] BY <1>1, <1>2, <1>5
  <2>2. row' \in [Turns -> Status] BY <1>2 DEF FramesInv, FeedTypeOK
  <2> QED BY <1>1, <1>2, <1>7, <2>1, <2>2 DEF FeedTypeOK, client
<1>9. ASSUME NEW t \in Topics PROVE BufferOf(t)'
  <2> DEFINE q == ring[t]
             f == frame(t)
             p == Append(q, f)
  <2>1. ring'[t] = p BY <1>2
  <2>2. q \in Seq(Frames) /\ f \in Frames /\ Of(f, t) /\ f.seq > serial /\ f.seq <= serial + 2
    <3>1. q \in Seq(Frames) BY <1>1
    <3>2. f \in Frames /\ Of(f, t) /\ f.seq \in {serial + 1, serial + 2} BY <1>5
    <3> HIDE DEF q, f
    <3> QED BY <1>1, <3>1, <3>2
  <2>3. (\A i \in 1..Len(q) : Of(q[i], t)) /\ Rising(q, t, 0, serial) BY DEF FramesInv, BufferOf
  <2> HIDE DEF q, f
  <2>4. /\ Len(p) = Len(q) + 1 /\ Len(q) \in Nat /\ p[Len(p)] = f
        /\ \A i \in 1..Len(q) : p[i] = q[i]
        /\ \A i \in 1..Len(p) : i \in 1..Len(q) \/ i = Len(p)
    BY <2>2
  <2>5. \A i \in 1..Len(q) : q[i].seq \in Nat /\ 0 < q[i].seq /\ q[i].seq <= serial
    <3>1. \A e \in Frames : e.seq \in Nat BY DEF Frames
    <3> QED BY <2>2, <2>3, <3>1 DEF Rising
  <2> HIDE DEF p
  <2>6. \A i \in 1..Len(p) : Of(p[i], t) BY <2>2, <2>3, <2>4
  <2>7. f.seq \in Nat BY <2>2 DEF Frames
  <2>8. \A i \in 1..Len(p) : 0 < p[i].seq /\ p[i].seq <= serial + 2
    <3> TAKE i \in 1..Len(p)
    <3>1. CASE i \in 1..Len(q) BY <1>1, <2>4, <2>5, <3>1
    <3>2. CASE i = Len(p) BY <1>1, <2>2, <2>4, <2>7, <3>2
    <3> QED BY <2>4, <3>1, <3>2
  <2>9. \A i, j \in 1..Len(p) : i < j => p[i].seq < p[j].seq
    <3> TAKE i, j \in 1..Len(p)
    <3> HAVE i < j
    <3>1. i \in 1..Len(q) BY <2>4
    <3>2. CASE j \in 1..Len(q) BY <2>3, <2>4, <3>1, <3>2 DEF Rising
    <3>3. CASE j = Len(p)
      <4>1. p[i].seq \in Nat /\ p[i].seq <= serial /\ p[j] = f BY <2>4, <2>5, <3>1, <3>3
      <4> QED BY <1>1, <2>2, <2>7, <4>1
    <3> QED BY <2>4, <3>2, <3>3
  <2> QED BY <1>2, <2>1, <2>6, <2>8, <2>9 DEF BufferOf, Rising
<1>10. ASSUME NEW t \in Topics PROVE Rising(outbound, t, last[t], serial)' /\ Unheard(t)'
  <2>1. Rising(outbound, t, last[t], serial) /\ last[t] \in Nat /\ last[t] <= serial BY <1>1 DEF FramesInv, Applied
  <2>2. CASE t = "session"
    <3>1. \A i \in 1..Len(y) : ~Of(y[i], t) BY <1>4, <1>6, <2>2 DEF Of
    <3>2. Rising(x, t, serial, serial + 2)
      <4>1. CASE x = <<>> BY <4>1 DEF Rising
      <4>2. CASE x = <<first>> BY <1>1, <1>4, <4>2 DEF Rising
      <4> QED BY <1>6, <4>1, <4>2
    <3>3. Rising(outbound \o x, t, last[t], serial + 2) BY <1>1, <1>6, <2>1, <3>2, RisingJoins
    <3>4. Rising(y, t, serial + 2, serial + 2) BY <3>1, NoneRise
    <3>50. serial + 2 \in Nat /\ last[t] <= serial + 2 BY <1>1, <2>1
    <3>51. Rising((outbound \o x) \o y, t, last[t], serial + 2)
      <4> DEFINE p == outbound \o x
      <4>1. p \in Seq(Downlink) /\ Rising(p, t, last[t], serial + 2) BY <1>7, <3>3
      <4> HIDE DEF p
      <4>2. Rising(p \o y, t, last[t], serial + 2) BY <1>6, <2>1, <3>4, <3>50, <4>1, RisingJoins
      <4> QED BY <4>2 DEF p
    <3>5. Rising(outbound', t, last[t], serial + 2) BY <1>2, <3>51
    <3>6. Unheard(t)'
      <4> SUFFICES ASSUME t \notin watched PROVE Unheard(t)'
        BY <1>2 DEF Unheard
      <4>1. x = <<>> /\ \A i \in 1..Len(outbound) : ~Of(outbound[i], t) BY <1>6, <2>2 DEF FramesInv, Unheard
      <4>2. \A i \in 1..Len(outbound') : ~Of(outbound'[i], t)
        <5>1. outbound \o x = outbound BY <1>1, <4>1
        <5> QED BY <1>1, <1>2, <1>6, <3>1, <4>1, <5>1, Joined
      <4> QED BY <1>2, <4>2 DEF FramesInv, Unheard
    <3> QED BY <1>2, <3>5, <3>6
  <2>3. CASE t = "workspace"
    <3>1. \A i \in 1..Len(x) : ~Of(x[i], t) BY <1>4, <1>6, <2>3 DEF Of
    <3>2. Rising(y, t, serial, serial + 2)
      <4>1. CASE y = <<>> BY <4>1 DEF Rising
      <4>2. CASE y = <<second>> BY <1>1, <1>4, <4>2 DEF Rising
      <4> QED BY <1>6, <4>1, <4>2
    <3>3. Rising(x, t, serial, serial) BY <3>1, NoneRise
    <3>4. Rising(outbound \o x, t, last[t], serial) BY <1>1, <1>6, <2>1, <3>3, RisingJoins
    <3>50. serial + 2 \in Nat /\ serial <= serial + 2 BY <1>1
    <3>51. Rising((outbound \o x) \o y, t, last[t], serial + 2)
      <4> DEFINE p == outbound \o x
      <4>1. p \in Seq(Downlink) /\ Rising(p, t, last[t], serial) BY <1>7, <3>4
      <4> HIDE DEF p
      <4>2. Rising(p \o y, t, last[t], serial + 2) BY <1>1, <1>6, <2>1, <3>2, <3>50, <4>1, RisingJoins
      <4> QED BY <4>2 DEF p
    <3>5. Rising(outbound', t, last[t], serial + 2) BY <1>2, <3>51
    <3>6. Unheard(t)'
      <4> SUFFICES ASSUME t \notin watched PROVE Unheard(t)'
        BY <1>2 DEF Unheard
      <4>1. y = <<>> /\ \A i \in 1..Len(outbound) : ~Of(outbound[i], t) BY <1>6, <2>3 DEF FramesInv, Unheard
      <4>2. \A i \in 1..Len(outbound') : ~Of(outbound'[i], t)
        <5>1. outbound' = outbound \o x BY <1>2, <1>7, <4>1
        <5> QED BY <1>1, <1>6, <3>1, <4>1, <5>1, Joined
      <4> QED BY <1>2, <4>2 DEF FramesInv, Unheard
    <3> QED BY <1>2, <3>5, <3>6
  <2> QED BY <2>2, <2>3 DEF Topics
<1>11. ASSUME NEW t \in Topics PROVE Applied(t)'
  BY <1>1, <1>2 DEF FramesInv, Applied, client
<1> QED BY <1>8, <1>9, <1>10, <1>11 DEF FramesInv

\* The gap of a topic the socket did not have goes before its live frames.
LEMMA SubscribeKeeps ==
    ASSUME FramesInv, ReadSubscribe
    PROVE  FramesInv'
<1> DEFINE m == Head(inbound)
           gap(t) == IF t \in Accepted(m.topics) THEN Missed(t, m.since) ELSE <<>>
           x == gap("session")
           y == gap("workspace")
<1>1. FeedTypeOK /\ serial \in Nat /\ outbound \in Seq(Downlink) /\ last \in [Topics -> Nat]
      /\ ring \in [Topics -> Seq(Frames)] /\ watched \in SUBSET Topics /\ inbound \in Seq(Uplink)
  BY DEF FramesInv, FeedTypeOK
<1>2. /\ inbound # <<>> /\ m.type = "subscribe" /\ inbound' = Tail(inbound)
      /\ outbound' = (outbound \o x) \o y /\ watched' = watched \cup m.topics
      /\ UNCHANGED <<bus, greeted, linked, client, fetch, last>>
  BY DEF ReadSubscribe, remembered
<1>3. m \in Subscriptions /\ m.topics \in SUBSET Topics /\ m.since \in Nat \cup {NoCursor}
  <2>1. m \in Uplink BY <1>1, <1>2, Tailed
  <2> HIDE DEF m
  <2> QED BY <1>2, <2>1 DEF Uplink, Subscriptions
<1>4. /\ Tail(inbound) \in Seq(Uplink) /\ m = inbound[1] /\ 1 \in 1..Len(inbound)
      /\ \A i \in 1..Len(Tail(inbound)) : i + 1 \in 1..Len(inbound) /\ Tail(inbound)[i] = inbound[i + 1]
  BY <1>1, <1>2, Tailed
<1> HIDE DEF m
<1>5. ASSUME NEW t \in Topics
      PROVE  /\ gap(t) \in Seq(Downlink) /\ \A i \in 1..Len(gap(t)) : Of(gap(t)[i], t)
             /\ gap(t) = <<>> \/ (t \notin watched /\ t \in m.topics /\ Rising(gap(t), t, last[t], serial))
  <2>1. CASE t \notin Accepted(m.topics) \/ m.since = NoCursor
    <3>1. gap(t) = <<>> BY <2>1 DEF Missed
    <3>2. <<>> \in Seq(Downlink) /\ Len(<<>>) = 0 OBVIOUS
    <3> HIDE DEF gap
    <3> QED BY <3>1, <3>2
  <2>2. CASE t \in Accepted(m.topics) /\ m.since # NoCursor
    <3>1. m.since \in Nat /\ t \notin watched /\ t \in m.topics BY <1>3, <2>2 DEF Accepted
    <3>2. last[t] <= m.since /\ last[t] \in Nat BY <1>1, <1>2, <1>4, <2>2, <3>1 DEF FramesInv, Unheard
    <3>3. BufferOf(t) BY DEF FramesInv
    <3> DEFINE g == Missed(t, m.since)
    <3>4. g \in Seq(Frames) /\ (\A i \in 1..Len(g) : Of(g[i], t)) /\ Rising(g, t, m.since, serial)
      BY <1>1, <3>1, <3>3, MissedIsTheRest DEF BufferOf
    <3>5. gap(t) = g BY <2>2
    <3> HIDE DEF g
    <3>6. g \in Seq(Downlink) BY <3>4 DEF Downlink
    <3>7. Rising(g, t, last[t], serial) BY <1>1, <3>1, <3>2, <3>4, <3>6, RisingWidens
    <3> QED BY <3>1, <3>4, <3>5, <3>6, <3>7
  <2> QED BY <2>1, <2>2
<1>6. "session" \in Topics /\ "workspace" \in Topics BY DEF Topics
<1>7. /\ x \in Seq(Downlink) /\ \A i \in 1..Len(x) : Of(x[i], "session")
      /\ x = <<>> \/ ("session" \notin watched /\ "session" \in m.topics /\ Rising(x, "session", last["session"], serial))
  BY <1>5, <1>6
<1>8. /\ y \in Seq(Downlink) /\ \A i \in 1..Len(y) : Of(y[i], "workspace")
      /\ y = <<>> \/ ("workspace" \notin watched /\ "workspace" \in m.topics
                        /\ Rising(y, "workspace", last["workspace"], serial))
  BY <1>5, <1>6
<1> HIDE DEF x, y
<1>9. outbound \o x \in Seq(Downlink) /\ outbound' \in Seq(Downlink) BY <1>1, <1>2, <1>7, <1>8
<1>10. FeedTypeOK'
  BY <1>1, <1>2, <1>3, <1>4, <1>9 DEF FeedTypeOK, bus, client
<1>11. ASSUME NEW t \in Topics, NEW z \in Seq(Downlink), NEW q \in Seq(Downlink),
              Rising(q, t, last[t], serial), t \notin watched => \A i \in 1..Len(q) : ~Of(q[i], t),
              z = <<>> \/ (t \notin watched /\ Rising(z, t, last[t], serial))
       PROVE  Rising(q \o z, t, last[t], serial)
  <2>1. last[t] \in Nat /\ last[t] <= serial BY <1>1 DEF FramesInv, Applied
  <2>2. CASE z = <<>> BY <1>11, <2>2
  <2>3. CASE t \notin watched /\ Rising(z, t, last[t], serial)
    <3>1. Rising(q, t, last[t], last[t]) BY <1>11, <2>3, NoneRise
    <3> QED BY <1>1, <2>1, <2>3, <3>1, RisingJoins
  <2> QED BY <1>11, <2>2, <2>3
<1>12. ASSUME NEW t \in Topics, NEW z \in Seq(Downlink), NEW q \in Seq(Downlink),
              Rising(q, t, last[t], serial), \A i \in 1..Len(z) : ~Of(z[i], t)
       PROVE  Rising(q \o z, t, last[t], serial)
  <2>1. last[t] \in Nat /\ last[t] <= serial BY <1>1 DEF FramesInv, Applied
  <2>2. Rising(z, t, serial, serial) BY <1>12, NoneRise
  <2> QED BY <1>1, <1>12, <2>1, <2>2, RisingJoins
<1>13. ASSUME NEW t \in Topics PROVE Rising(outbound', t, last[t], serial)
  <2>1. Rising(outbound, t, last[t], serial) /\ (t \notin watched => \A i \in 1..Len(outbound) : ~Of(outbound[i], t))
    BY DEF FramesInv, Unheard
  <2>2. CASE t = "session"
    <3>1. Rising(outbound \o x, t, last[t], serial) BY <1>1, <1>7, <1>11, <2>1, <2>2
    <3>2. \A i \in 1..Len(y) : ~Of(y[i], t) BY <1>8, <2>2 DEF Of
    <3> QED BY <1>2, <1>8, <1>9, <1>12, <3>1, <3>2
  <2>3. CASE t = "workspace"
    <3>1. \A i \in 1..Len(x) : ~Of(x[i], t) BY <1>7, <2>3 DEF Of
    <3>2. Rising(outbound \o x, t, last[t], serial) BY <1>1, <1>7, <1>12, <2>1, <3>1
    <3>3. t \notin watched => \A i \in 1..Len(outbound \o x) : ~Of((outbound \o x)[i], t)
      BY <1>1, <1>7, <2>1, <3>1, Joined
    <3> QED BY <1>2, <1>8, <1>9, <1>11, <2>3, <3>2, <3>3
  <2> QED BY <2>2, <2>3 DEF Topics
<1>14. ASSUME NEW t \in Topics PROVE Unheard(t)'
  <2> SUFFICES ASSUME t \notin watched, t \notin m.topics PROVE Unheard(t)' BY <1>2 DEF Unheard
  <2>1. /\ \A i \in 1..Len(outbound) : ~Of(outbound[i], t)
        /\ \A i \in 1..Len(inbound) :
             inbound[i].type = "subscribe" /\ t \in inbound[i].topics /\ inbound[i].since # NoCursor
               => last[t] <= inbound[i].since
    BY DEF FramesInv, Unheard
  <2>2. (\A i \in 1..Len(x) : ~Of(x[i], t)) /\ \A i \in 1..Len(y) : ~Of(y[i], t)
    <3>1. t # "session" => \A i \in 1..Len(x) : ~Of(x[i], t) BY <1>7 DEF Of
    <3>2. t # "workspace" => \A i \in 1..Len(y) : ~Of(y[i], t) BY <1>8 DEF Of
    <3>3. t = "session" => x = <<>> BY <1>7
    <3>4. t = "workspace" => y = <<>> BY <1>8
    <3> QED BY <3>1, <3>2, <3>3, <3>4
  <2>3. \A i \in 1..Len(outbound') : ~Of(outbound'[i], t)
    <3>1. \A i \in 1..Len(outbound \o x) : ~Of((outbound \o x)[i], t) BY <1>1, <1>7, <2>1, <2>2, Joined
    <3> QED BY <1>2, <1>8, <1>9, <2>2, <3>1, Joined
  <2>4. \A i \in 1..Len(inbound') :
             inbound'[i].type = "subscribe" /\ t \in inbound'[i].topics /\ inbound'[i].since # NoCursor
               => last[t] <= inbound'[i].since
    BY <1>2, <1>4, <2>1
  <2> QED BY <1>2, <2>3, <2>4 DEF Unheard
<1> QED BY <1>2, <1>10, <1>13, <1>14 DEF FramesInv, BufferOf, Applied, bus, client

\* The queues only empty, or a request joins that asks from the cursor or
\* from now on.
LEMMA AskingKeeps ==
    ASSUME FramesInv, inbound' \in Seq(Uplink), outbound' \in Seq(Downlink), cursor' \in Nat \cup {NoCursor},
           UNCHANGED <<bus, watched, last>>,
           cursor' = cursor \/ (cursor = NoCursor /\ cursor' \in Nat),
           \A i \in 1..Len(inbound') :
               \/ \E k \in 1..Len(inbound) : inbound'[i] = inbound[k]
               \/ inbound'[i].type # "subscribe" \/ inbound'[i].since \in {NoCursor, cursor'},
           \/ outbound' = Tail(outbound) /\ outbound # <<>>
           \/ outbound' = outbound
           \/ outbound' = Append(outbound, [type |-> "ready", seq |-> serial]),
           view' \in [Turns -> Status], fetch' \in [at : {"idle", "asked", "answered"}, rows : [Turns -> Status]],
           live' \in BOOLEAN, linked' \in BOOLEAN
    PROVE  FramesInv'
<1>1. FeedTypeOK /\ outbound \in Seq(Downlink) /\ inbound \in Seq(Uplink) /\ serial \in Nat BY DEF FramesInv, FeedTypeOK
<1>2. FeedTypeOK' BY <1>1 DEF FeedTypeOK, bus
<1>3. ASSUME NEW t \in Topics
      PROVE  /\ Rising(outbound', t, last[t], serial)
             /\ \A i \in 1..Len(outbound') : Of(outbound'[i], t) => \E k \in 1..Len(outbound) : Of(outbound[k], t)
  <2>1. Rising(outbound, t, last[t], serial) /\ last[t] \in Nat /\ last[t] <= serial
    BY <1>1 DEF FramesInv, FeedTypeOK, Applied
  <2>2. CASE outbound' = Tail(outbound) /\ outbound # <<>>
    BY <1>1, <2>1, <2>2, RisingShrinks, Tailed
  <2>3. CASE outbound' = outbound BY <2>1, <2>3
  <2>4. CASE outbound' = Append(outbound, [type |-> "ready", seq |-> serial])
    <3> DEFINE e == [type |-> "ready", seq |-> serial]
    <3>1. e \in Downlink /\ ~Of(e, t) BY <1>1 DEF Downlink, Of
    <3> HIDE DEF e
    <3>2. /\ Len(outbound') = Len(outbound) + 1 /\ Len(outbound) \in Nat
          /\ \A i \in 1..Len(outbound) : outbound'[i] = outbound[i]
          /\ \A i \in 1..Len(outbound') : i \in 1..Len(outbound) \/ outbound'[i] = e
      <4>1. outbound' = Append(outbound, e) BY <2>4 DEF e
      <4> QED BY <1>1, <3>1, <4>1
    <3>3. \A i \in 1..Len(outbound') : Of(outbound'[i], t) => i \in 1..Len(outbound) /\ Of(outbound[i], t)
      BY <3>1, <3>2
    <3> QED BY <2>1, <3>2, <3>3 DEF Rising
  <2> QED BY <2>2, <2>3, <2>4
<1>4. ASSUME NEW t \in Topics PROVE Applied(t)'
  <2>1. Applied(t) /\ last[t] \in Nat BY <1>1 DEF FramesInv, FeedTypeOK
  <2> QED BY <1>1, <2>1, CursorAssumption DEF Applied, bus
<1>5. ASSUME NEW t \in Topics PROVE Unheard(t)'
  <2> SUFFICES ASSUME t \notin watched PROVE Unheard(t)' BY DEF Unheard
  <2>1. Unheard(t) BY DEF FramesInv
  <2>2. \A i \in 1..Len(outbound') : ~Of(outbound'[i], t) BY <1>3, <2>1 DEF Unheard
  <2>3. ASSUME NEW i \in 1..Len(inbound'), inbound'[i].type = "subscribe", t \in inbound'[i].topics,
               inbound'[i].since # NoCursor
        PROVE  last[t] <= inbound'[i].since
    <3>1. CASE \E k \in 1..Len(inbound) : inbound'[i] = inbound[k] BY <2>1, <2>3, <3>1 DEF Unheard
    <3>2. CASE inbound'[i].since = cursor' BY <1>4, <2>3, <3>2 DEF Applied
    <3> QED BY <2>3, <3>1, <3>2
  <2> QED BY <2>2, <2>3 DEF Unheard
<1> QED BY <1>2, <1>3, <1>4, <1>5 DEF FramesInv, BufferOf, bus

\* A frame read is above the last of its topic, and nothing behind it is left.
LEMMA ReadFrameKeeps ==
    ASSUME FramesInv, ReadFrame
    PROVE  /\ FramesInv'
           /\ \A t \in Topics : last'[t] # last[t] => last'[t] > last[t]
<1> DEFINE f == Head(outbound)
<1>1. FeedTypeOK /\ serial \in Nat /\ outbound \in Seq(Downlink) /\ last \in [Topics -> Nat]
      /\ cursor \in Nat \cup {NoCursor} /\ view \in [Turns -> Status]
  BY DEF FramesInv, FeedTypeOK
<1>2. /\ outbound # <<>> /\ f.type = "frame" /\ outbound' = Tail(outbound)
      /\ cursor' = (IF cursor = NoCursor \/ f.seq > cursor THEN f.seq ELSE cursor)
      /\ view' = (IF page = "loaded" THEN [view EXCEPT ![f.run] = Merged(@, f.status)] ELSE view)
      /\ last' = [last EXCEPT ![f.topic] = f.seq]
      /\ UNCHANGED <<bus, watched, inbound, linked, live, fetch>>
  BY DEF ReadFrame
<1>3. f \in Frames
  <2>1. f \in Downlink BY <1>1, <1>2, Tailed
  <2> QED BY <1>2, <2>1 DEF Downlink
<1>4. f.topic \in Topics /\ f.seq \in Nat /\ f.run \in Turns /\ f.status \in Status BY <1>3 DEF Frames, Status
<1>5. Tail(outbound) \in Seq(Downlink) /\ f = outbound[1] /\ 1 \in 1..Len(outbound)
      /\ \A i \in 1..Len(Tail(outbound)) : i + 1 \in 1..Len(outbound) /\ Tail(outbound)[i] = outbound[i + 1]
  BY <1>1, <1>2, Tailed
<1>50. \A t \in Topics : Rising(outbound, t, last[t], serial) BY DEF FramesInv
<1>6. ASSUME NEW t \in Topics
      PROVE  /\ Rising(Tail(outbound), t, last[t], serial)
             /\ f.topic = t => Rising(Tail(outbound), t, f.seq, serial) /\ last[t] < f.seq /\ f.seq <= serial
  BY <1>1, <1>2, <1>50, RisingShrinks DEF Of
<1> HIDE DEF f
<1>7. FeedTypeOK'
  <2>1. view' \in [Turns -> Status]
    <3>1. \A s \in Status : Merged(s, f.status) \in Status BY <1>4 DEF Merged, Status
    <3> QED BY <1>1, <1>2, <1>4, <3>1
  <2> QED BY <1>1, <1>2, <1>4, <1>5, <2>1 DEF FeedTypeOK, bus
<1>8. ASSUME NEW t \in Topics
      PROVE  /\ Rising(outbound, t, last[t], serial)' /\ Applied(t)' /\ Unheard(t)' /\ BufferOf(t)'
             /\ last'[t] # last[t] => last'[t] > last[t]
  <2>1. last'[t] = (IF f.topic = t THEN f.seq ELSE last[t]) BY <1>1, <1>2
  <2>2. Applied(t) /\ Unheard(t) /\ BufferOf(t) BY DEF FramesInv
  <2>3. Applied(t)' BY <1>1, <1>2, <1>4, <1>6, <2>1, <2>2, CursorAssumption DEF Applied, bus
  <2>4. Unheard(t)'
    <3> SUFFICES ASSUME t \notin watched PROVE Unheard(t)' BY <1>2 DEF Unheard
    <3>1. f.topic # t BY <1>2, <1>5, <2>2 DEF Unheard, Of
    <3> QED BY <1>2, <1>5, <2>1, <2>2, <3>1 DEF Unheard
  <2> QED BY <1>2, <1>6, <2>1, <2>2, <2>3, <2>4 DEF BufferOf, bus
<1> QED BY <1>7, <1>8 DEF FramesInv

\* A connection lost or begun carries nothing.
LEMMA CutKeeps ==
    ASSUME FramesInv, outbound' = <<>>, watched' = {}, inbound' = <<>> \/ inbound' = <<[type |-> "hello"]>>,
           UNCHANGED <<cursor, view, fetch>>, row' \in [Turns -> Status],
           \/ UNCHANGED <<serial, ring, last>>
           \/ serial' = 0 /\ ring' = [t \in Topics |-> <<>>] /\ last' = [t \in Topics |-> 0],
           live' \in BOOLEAN, linked' \in BOOLEAN
    PROVE  FramesInv'
<1>1. FeedTypeOK /\ serial \in Nat /\ cursor \in Nat \cup {NoCursor} BY DEF FramesInv, FeedTypeOK
<1>2. inbound' \in Seq(Uplink) /\ \A i \in 1..Len(inbound') : inbound'[i].type # "subscribe"
  <2> DEFINE h == [type |-> "hello"]
  <2>1. h \in Uplink /\ h.type # "subscribe" BY DEF Uplink
  <2>2. CASE inbound' = <<>>
    <3>1. <<>> \in Seq(Uplink) /\ Len(<<>>) = 0 OBVIOUS
    <3> QED BY <2>2, <3>1
  <2>3. CASE inbound' = <<h>>
    <3> HIDE DEF h
    <3>1. <<h>> \in Seq(Uplink) /\ \A i \in 1..Len(<<h>>) : <<h>>[i] = h BY <2>1
    <3> QED BY <2>1, <2>3, <3>1
  <2> QED BY <2>2, <2>3
<1>3. outbound' \in Seq(Downlink) /\ Len(outbound') = 0 OBVIOUS
<1>4. ASSUME NEW t \in Topics PROVE BufferOf(t)' /\ Applied(t)'
  <2>1. BufferOf(t) /\ Applied(t) BY DEF FramesInv
  <2>2. CASE UNCHANGED <<serial, ring, last>> BY <2>1, <2>2 DEF BufferOf, Applied
  <2>3. CASE serial' = 0 /\ ring' = [u \in Topics |-> <<>>] /\ last' = [u \in Topics |-> 0]
    <3>1. ring'[t] = <<>> /\ last'[t] = 0 BY <2>3
    <3> QED BY <1>1, <2>3, <3>1, CursorAssumption DEF BufferOf, Applied, Rising
  <2> QED BY <2>2, <2>3
<1>5. FeedTypeOK'
  <2>1. serial' \in Nat /\ ring' \in [Topics -> Seq(Frames)] /\ last' \in [Topics -> Nat]
    <3>1. CASE UNCHANGED <<serial, ring, last>> BY <1>1, <3>1 DEF FeedTypeOK
    <3>2. CASE serial' = 0 /\ ring' = [t \in Topics |-> <<>>] /\ last' = [t \in Topics |-> 0]
      <4>1. <<>> \in Seq(Frames) OBVIOUS
      <4>2. [t \in Topics |-> <<>>] \in [Topics -> Seq(Frames)] BY <4>1
      <4> QED BY <3>2, <4>2
    <3> QED BY <3>1, <3>2
  <2> QED BY <1>1, <1>2, <1>3, <2>1 DEF FeedTypeOK
<1>6. \A t \in Topics : Rising(outbound, t, last[t], serial)' /\ Unheard(t)'
  BY <1>2, <1>3 DEF Rising, Unheard
<1> QED BY <1>4, <1>5, <1>6 DEF FramesInv

\* Every step keeps the frames in order.
LEMMA FramesStep == FramesInv /\ [FeedNext]_feedVars => FramesInv'
<1> SUFFICES ASSUME FramesInv, [FeedNext]_feedVars PROVE FramesInv'
  OBVIOUS
<1>0. FeedTypeOK BY DEF FramesInv
<1> USE DEF bus, socket, client, remembered
<1>1. ASSUME NEW r \in Turns, NEW status \in Status, RunMoves(r, status) PROVE FramesInv' BY <1>1, PublishKeeps
<1>2. CASE FramesAge
  <2>1. ring' = [t \in Topics |-> <<>>] /\ UNCHANGED <<row, serial, socket, client, fetch, remembered>>
    BY <1>2 DEF FramesAge
  <2>2. FeedTypeOK'
    <3>1. <<>> \in Seq(Frames) OBVIOUS
    <3> QED BY <1>0, <2>1, <3>1 DEF FeedTypeOK
  <2>3. \A t \in Topics : ring'[t] = <<>> BY <2>1
  <2>4. \A t \in Topics : BufferOf(t)' BY <2>3 DEF BufferOf, Rising
  <2> QED BY <2>1, <2>2, <2>4 DEF FramesInv, Applied, Unheard
<1>3. CASE ReadHello
  <2>1. inbound # <<>> /\ inbound' = Tail(inbound) /\ outbound' = Append(outbound, [type |-> "ready", seq |-> serial])
        /\ UNCHANGED <<bus, watched, linked, client, fetch, remembered>>
    BY <1>3 DEF ReadHello
  <2>2. [type |-> "ready", seq |-> serial] \in Downlink BY <1>0 DEF FeedTypeOK, Downlink
  <2>3. inbound' \in Seq(Uplink) /\ outbound' \in Seq(Downlink) BY <1>0, <2>1, <2>2 DEF FeedTypeOK
  <2>4. \A i \in 1..Len(inbound') : \E k \in 1..Len(inbound) : inbound'[i] = inbound[k]
    BY <1>0, <2>1, Tailed DEF FeedTypeOK
  <2> QED BY <1>0, <2>1, <2>3, <2>4, AskingKeeps DEF FeedTypeOK
<1>4. CASE ReadSubscribe BY <1>4, SubscribeKeeps
<1>5. CASE AnswerFetch
  <2>1. fetch' = [at |-> "answered", rows |-> row] /\ UNCHANGED <<bus, socket, client, remembered>>
    BY <1>5 DEF AnswerFetch
  <2> QED BY <1>0, <2>1, AskingKeeps DEF FeedTypeOK
<1>6. CASE Connect BY <1>0, <1>6, CutKeeps DEF Connect, FeedTypeOK
<1>7. CASE Mount
  <2> DEFINE a == [type |-> "subscribe", topics |-> {"session"}, since |-> NoCursor]
             b == [type |-> "subscribe", topics |-> {"workspace"}, since |-> NoCursor]
  <2>1. /\ inbound' = (IF linked THEN inbound \o <<a, b>> ELSE inbound)
        /\ fetch' = Asked
        /\ UNCHANGED <<bus, watched, outbound, linked, live, cursor, view, last>>
    BY <1>7 DEF Mount
  <2>2. fetch' \in [at : {"idle", "asked", "answered"}, rows : [Turns -> Status]]
    BY <2>1 DEF Asked, Idle, Status
  <2>3. a \in Uplink /\ b \in Uplink /\ a.since = NoCursor /\ b.since = NoCursor
    BY DEF Uplink, Subscriptions, Topics
  <2> HIDE DEF a, b
  <2>4. <<a, b>> \in Seq(Uplink) /\ \A i \in 1..Len(<<a, b>>) : <<a, b>>[i].since = NoCursor
    BY <2>3
  <2>5. inbound \in Seq(Uplink) BY <1>0 DEF FeedTypeOK
  <2>6. /\ inbound' \in Seq(Uplink)
        /\ \A i \in 1..Len(inbound') : (\E k \in 1..Len(inbound) : inbound'[i] = inbound[k])
                                       \/ inbound'[i].since \in {NoCursor, cursor'}
    <3>1. CASE linked
      <4> DEFINE z == <<a, b>>
      <4>1. z \in Seq(Uplink) /\ \A i \in 1..Len(z) : z[i].since = NoCursor BY <2>4
      <4>2. inbound' = inbound \o z BY <2>1, <3>1
      <4> HIDE DEF z
      <4> QED BY <2>5, <4>1, <4>2, Joined
    <3>2. CASE ~linked BY <2>1, <2>5, <3>2
    <3> QED BY <3>1, <3>2
  <2> QED BY <1>0, <2>1, <2>2, <2>6, AskingKeeps DEF FeedTypeOK
<1>8. CASE ReadReady
  <2> DEFINE s == [type |-> "subscribe", topics |-> Topics, since |-> cursor']
  <2>1. /\ outbound # <<>> /\ Head(outbound).type = "ready" /\ outbound' = Tail(outbound)
        /\ live' = TRUE
        /\ cursor' = (IF cursor = NoCursor THEN Head(outbound).seq ELSE cursor)
        /\ inbound' = Append(inbound, s) \/ inbound' = inbound
        /\ fetch' = Asked \/ fetch' = fetch
        /\ UNCHANGED <<bus, watched, linked, view, last>>
    BY <1>8 DEF ReadReady
  <2>2. Head(outbound) \in Downlink /\ Tail(outbound) \in Seq(Downlink) BY <1>0, <2>1, Tailed DEF FeedTypeOK
  <2>3. cursor' \in Nat /\ (cursor' = cursor \/ cursor = NoCursor)
    BY <1>0, <2>1, <2>2 DEF FeedTypeOK, Downlink, Frames
  <2>4. s \in Uplink /\ s.since = cursor' BY <2>3 DEF Uplink, Subscriptions
  <2> HIDE DEF s
  <2>5. inbound \in Seq(Uplink) BY <1>0 DEF FeedTypeOK
  <2>6. /\ inbound' \in Seq(Uplink)
        /\ \A i \in 1..Len(inbound') : (\E k \in 1..Len(inbound) : inbound'[i] = inbound[k])
                                       \/ inbound'[i].since \in {NoCursor, cursor'}
    <3>1. CASE inbound' = inbound BY <2>5, <3>1
    <3>2. CASE inbound' = Append(inbound, s)
      <4>1. /\ inbound' \in Seq(Uplink)
            /\ \A i \in 1..Len(inbound') : inbound'[i] = s \/ (i \in 1..Len(inbound) /\ inbound'[i] = inbound[i])
        BY <2>4, <2>5, <3>2
      <4> QED BY <2>4, <4>1
    <3> QED BY <2>1, <3>1, <3>2
  <2>7. fetch' \in [at : {"idle", "asked", "answered"}, rows : [Turns -> Status]]
    BY <1>0, <2>1 DEF FeedTypeOK, Asked, Idle, Status
  <2> QED BY <1>0, <2>1, <2>2, <2>3, <2>6, <2>7, AskingKeeps DEF FeedTypeOK
<1>9. CASE ReadFrame BY <1>9, ReadFrameKeeps
<1>10. CASE Load
  <2>1. fetch' = Idle /\ view' = fetch.rows /\ UNCHANGED <<bus, socket, live, cursor, remembered>>
    BY <1>10 DEF Load
  <2>2. view' \in [Turns -> Status] /\ fetch' \in [at : {"idle", "asked", "answered"}, rows : [Turns -> Status]]
    BY <1>0, <2>1 DEF FeedTypeOK, Idle, Status
  <2> QED BY <1>0, <2>1, <2>2, AskingKeeps DEF FeedTypeOK
<1>11. CASE Drop BY <1>0, <1>11, CutKeeps DEF Drop, Cut, FeedTypeOK
<1>12. CASE Restart
  <2>1. row' \in [Turns -> Status] BY <1>0, <1>12 DEF Restart, FeedTypeOK, Status
  <2> QED BY <1>0, <1>12, <2>1, CutKeeps DEF Restart, Cut, FeedTypeOK
<1>13. CASE UNCHANGED feedVars
  BY <1>0, <1>13 DEF feedVars, FramesInv, FeedTypeOK, BufferOf, Applied, Unheard
<1> QED BY <1>1, <1>2, <1>3, <1>4, <1>5, <1>6, <1>7, <1>8, <1>9, <1>10, <1>11, <1>12, <1>13 DEF FeedNext

\* Nothing has been published when the service starts.
LEMMA FramesStart == FeedInit => FramesInv
<1> SUFFICES ASSUME FeedInit PROVE FramesInv
  OBVIOUS
<1>1. <<>> \in Seq(Frames) /\ <<>> \in Seq(Uplink) /\ <<>> \in Seq(Downlink) /\ Len(<<>>) = 0 OBVIOUS
<1>2. FeedTypeOK BY <1>1 DEF FeedInit, FeedTypeOK, Idle, Status
<1>3. \A t \in Topics : ring[t] = <<>> /\ last[t] = 0 BY DEF FeedInit
<1> QED BY <1>1, <1>2, <1>3 DEF FeedInit, FramesInv, BufferOf, Rising, Applied, Unheard

\* A connection hears each topic's frames in the order they were published and none
\* of them twice, through drops, replays from the buffer and buffers that age out.
THEOREM FramesStayInOrder == FeedSpec => FramesInOrder
<1> DEFINE A == \A t \in Topics : last'[t] # last[t] /\ serial' >= serial /\ last'[t] # 0 => last'[t] > last[t]
<1>1. FramesInv /\ [FeedNext]_feedVars => [A]_feedVars
  <2> SUFFICES ASSUME FramesInv, [FeedNext]_feedVars, ~UNCHANGED last PROVE A
    OBVIOUS
  <2>1. CASE ReadFrame BY <2>1, ReadFrameKeeps
  <2>2. CASE Restart BY <2>2 DEF Restart
  <2>3. ReadFrame \/ Restart
    BY DEF FeedNext, feedVars, remembered, RunMoves, FramesAge, ReadHello, ReadSubscribe, AnswerFetch, Connect, Mount,
           ReadReady, Load, Drop
  <2> QED BY <2>1, <2>2, <2>3
<1> QED BY <1>1, FramesStart, FramesStep, PTL DEF FeedSpec, FramesInOrder

-----------------------------------------------------------------------------
(* Feed: the view of a page that came back *)

Offline == ~linked => inbound = <<>> /\ outbound = <<>> /\ watched = {} /\ ~live /\ ~resumed

\* One hello, one "ready" and the first interests, in this order; a page that
\* was connected before asks for nothing until then.
Greeting ==
    /\ page \in {"away", "mounted", "loaded"} /\ connected \in BOOLEAN
    /\ \A i \in 1..Len(inbound) : inbound[i].type = "hello" =>
         i = 1 /\ ~live /\ \A k \in 1..Len(outbound) : outbound[k].type # "ready"
    /\ \A k \in 1..Len(outbound) : outbound[k].type = "ready" => ~live /\ outbound[k].seq <= serial
    /\ \A k, n \in 1..Len(outbound) : outbound[k].type = "ready" /\ outbound[n].type = "ready" => k = n
    /\ ~live /\ connected => watched = {} /\ \A i \in 1..Len(inbound) : inbound[i].type = "hello"
    /\ live \/ connected => cursor # NoCursor

\* A connection that resumes hears the session, or has asked for both topics
\* from a frame the server has published.
Resumes ==
    resumed =>
        /\ live /\ Mounted
        /\ \A i \in 1..Len(inbound) : inbound[i].type = "subscribe" =>
             inbound[i].topics = Topics /\ inbound[i].since \in Nat /\ inbound[i].since <= serial
        /\ "session" \in watched \/ inbound # <<>>

\* Nothing runs ahead of the rows.
Reached(r, status) == status = "none" \/ status = row[r] \/ row[r] = "ended"

Known ==
    /\ \A t \in Topics : \A i \in 1..Len(ring[t]) : Reached(ring[t][i].run, ring[t][i].status)
    /\ \A i \in 1..Len(outbound) : outbound[i].type = "frame" => Reached(outbound[i].run, outbound[i].status)
    /\ \A r \in Turns : Reached(r, view[r]) /\ Reached(r, fetch.rows[r])

Tells(m, r) == m.type = "frame" /\ m.run = r /\ m.status = row[r]

\* The status of a run is on its way, or will be once the server reads what
\* the page asked.
Arrives(r) ==
    \/ \E i \in 1..Len(outbound) : Tells(outbound[i], r)
    \/ /\ "session" \notin watched /\ inbound # <<>>
       /\ \E j \in 1..Len(ring["session"]) :
            /\ Tells(ring["session"][j], r)
            /\ \A i \in 1..Len(inbound) : inbound[i].since < ring["session"][j].seq

Current(known) == \A r \in Turns : known[r] = row[r] \/ Arrives(r)

CaughtUp ==
    resumed /\ ~overtaken =>
        \/ fetch.at = "asked"
        \/ fetch.at = "answered" /\ Current(fetch.rows)
        \/ fetch.at = "idle" /\ page = "loaded" /\ Current(view)

PageInv == FramesInv /\ Offline /\ Greeting /\ Resumes /\ Known /\ CaughtUp

\* What the page's own steps leave alone.
LEMMA ArrivalsStay ==
    ASSUME UNCHANGED <<row, ring, watched, inbound, outbound>>, NEW r
    PROVE  Arrives(r)' = Arrives(r)
BY DEF Arrives, Tells

\* What stands in the queues and in the buffers.
LEMMA QueuedAre ==
    ASSUME FeedTypeOK
    PROVE  /\ \A i \in 1..Len(outbound) : outbound[i] \in Downlink /\ (outbound[i].type = "frame" => outbound[i] \in Frames)
           /\ \A i \in 1..Len(inbound) : inbound[i] \in Uplink
           /\ \A t \in Topics : \A i \in 1..Len(ring[t]) : ring[t][i] \in Frames
           /\ \A f \in Frames : f.run \in Turns /\ f.seq \in Nat /\ f.type = "frame" /\ f.status \in {"active", "ended"}
<1>1. \A i \in 1..Len(outbound) : outbound[i] \in Downlink BY DEF FeedTypeOK
<1>2. \A i \in 1..Len(inbound) : inbound[i] \in Uplink BY DEF FeedTypeOK
<1>3. ASSUME NEW t \in Topics PROVE \A i \in 1..Len(ring[t]) : ring[t][i] \in Frames
  <2>1. ring[t] \in Seq(Frames) BY DEF FeedTypeOK
  <2> QED BY <2>1
<1>4. \A m \in Downlink : m.type = "frame" => m \in Frames BY DEF Downlink
<1> QED BY <1>1, <1>2, <1>3, <1>4 DEF Frames

\* A connection lost or begun has no past.
LEMMA CutIsSafe ==
    ASSUME PageInv, FramesInv', outbound' = <<>>, watched' = {}, ~resumed', ~live',
           inbound' = <<>> \/ (inbound' = <<[type |-> "hello"]>> /\ linked'),
           UNCHANGED <<cursor, view, fetch, page, connected>>,
           \A r \in Turns : row'[r] = row[r] \/ row'[r] = "ended",
           UNCHANGED ring \/ ring' = [t \in Topics |-> <<>>]
    PROVE  PageInv'
<1> DEFINE h == [type |-> "hello"]
<1>1. \A i \in 1..Len(inbound') : inbound'[i].type = "hello" /\ i = 1
  <2>1. CASE inbound' = <<>> BY <2>1, EmptyQueue
  <2>2. CASE inbound' = <<h>>
    <3>1. h.type = "hello" OBVIOUS
    <3> HIDE DEF h
    <3>2. \A i \in 1..Len(<<h>>) : <<h>>[i] = h /\ i = 1 OBVIOUS
    <3> QED BY <2>2, <3>1, <3>2
  <2> QED BY <2>1, <2>2
<1>2. \A i \in 1..Len(outbound') : FALSE BY EmptyQueue
<1>3. Offline' BY DEF Offline
<1>4. Greeting' BY <1>1, <1>2 DEF PageInv, Greeting
<1>5. Resumes' /\ CaughtUp' BY DEF Resumes, CaughtUp
<1>6. Known'
  <2>1. FeedTypeOK BY DEF PageInv, FramesInv
  <2>2. ASSUME NEW r \in Turns, NEW st, Reached(r, st) PROVE Reached(r, st)'
    BY <2>2 DEF Reached
  <2>3. \A r \in Turns : Reached(r, view[r])' /\ Reached(r, fetch.rows[r])' BY <2>2 DEF PageInv, Known
  <2>4. ASSUME NEW t \in Topics, NEW i \in 1..Len(ring'[t]) PROVE Reached(ring[t][i].run, ring[t][i].status)'
    <3>1. CASE UNCHANGED ring
      <4>1. i \in 1..Len(ring[t]) /\ ring[t][i].run \in Turns BY <2>1, <2>4, <3>1, QueuedAre
      <4> QED BY <2>2, <3>1, <4>1 DEF PageInv, Known
    <3>2. CASE ring' = [u \in Topics |-> <<>>]
      <4>1. ring'[t] = <<>> BY <3>2
      <4> QED BY <2>4, <4>1, EmptyQueue
    <3> QED BY <3>1, <3>2
  <2> QED BY <1>2, <2>3, <2>4 DEF Known
<1> QED BY <1>3, <1>4, <1>5, <1>6 DEF PageInv

\* The answer to the page's query, and its arrival.
LEMMA AnswersAreSafe ==
    ASSUME PageInv, FramesInv', AnswerFetch \/ Load
    PROVE  PageInv'
<1> USE DEF bus, socket, client, remembered
<1>1. UNCHANGED <<row, serial, ring, greeted, watched, inbound, outbound, linked, live, cursor, connected, resumed, overtaken>>
      /\ (page' = page \/ page' = "loaded")
  BY DEF AnswerFetch, Load
<1>2. Offline' BY <1>1 DEF PageInv, Offline
<1>3. Greeting' BY <1>1 DEF PageInv, Greeting
<1>4. Resumes' BY <1>1 DEF PageInv, Resumes, Mounted
<1>5. CASE AnswerFetch
  <2>1. fetch'.at = "answered" /\ fetch'.rows = row /\ view' = view BY <1>5 DEF AnswerFetch
  <2>2. CaughtUp' BY <1>1, <2>1 DEF CaughtUp, Current
  <2>3. Known' BY <1>1, <2>1 DEF PageInv, Known, Reached
  <2> QED BY <1>2, <1>3, <1>4, <2>2, <2>3 DEF PageInv
<1>6. CASE Load
  <2>1. fetch.at = "answered" /\ fetch' = Idle /\ view' = fetch.rows /\ page' = "loaded" BY <1>6 DEF Load
  <2>2. fetch'.at = "idle" /\ \A r \in Turns : fetch'.rows[r] = "none" BY <2>1 DEF Idle
  <2>3. \A r : Arrives(r)' = Arrives(r) BY <1>1, ArrivalsStay
  <2>4. CaughtUp' BY <1>1, <2>1, <2>2, <2>3 DEF PageInv, CaughtUp, Current
  <2>5. Known' BY <1>1, <2>1, <2>2 DEF PageInv, Known, Reached
  <2> QED BY <1>2, <1>3, <1>4, <2>4, <2>5 DEF PageInv
<1> QED BY <1>5, <1>6

\* The page opens: it asks for its topics and fetches the rows.
LEMMA MountIsSafe ==
    ASSUME PageInv, FramesInv', Mount
    PROVE  PageInv'
<1> DEFINE a == [type |-> "subscribe", topics |-> {"session"}, since |-> NoCursor]
           b == [type |-> "subscribe", topics |-> {"workspace"}, since |-> NoCursor]
<1>1. /\ inbound' = (IF linked THEN inbound \o <<a, b>> ELSE inbound)
      /\ page = "away" /\ page' = "mounted" /\ connected' = live /\ fetch' = Asked
      /\ UNCHANGED <<row, serial, ring, watched, outbound, linked, live, cursor, view, resumed>>
  BY DEF Mount, bus, remembered
<1>2. ~resumed /\ inbound \in Seq(Uplink) /\ live \in BOOLEAN
  BY <1>1 DEF PageInv, Resumes, Mounted, FramesInv, FeedTypeOK
<1>3. \A i \in 1..Len(inbound') : inbound'[i].type = "hello" => i \in 1..Len(inbound) /\ inbound[i].type = "hello"
  <2>1. CASE linked
    <3> DEFINE z == <<a, b>>
    <3>1. a \in Uplink /\ b \in Uplink /\ a.type # "hello" /\ b.type # "hello"
      BY DEF Uplink, Subscriptions, Topics
    <3>2. z \in Seq(Uplink) /\ \A i \in 1..Len(z) : z[i].type # "hello"
      <4> HIDE DEF a, b
      <4> QED BY <3>1
    <3>3. inbound' = inbound \o z BY <1>1, <2>1
    <3> HIDE DEF z
    <3> QED BY <1>2, <3>2, <3>3, Joined
  <2> QED BY <1>1, <2>1
<1>4. Offline' BY <1>1 DEF PageInv, Offline
<1>5. Greeting' BY <1>1, <1>2, <1>3 DEF PageInv, Greeting
<1>6. Resumes' /\ CaughtUp' BY <1>1, <1>2 DEF Resumes, CaughtUp
<1>7. Known'
  <2>1. \A r \in Turns : fetch'.rows[r] = "none" BY <1>1 DEF Asked, Idle
  <2> QED BY <1>1, <2>1 DEF PageInv, Known, Reached
<1> QED BY <1>4, <1>5, <1>6, <1>7 DEF PageInv

\* The service answers a greeting with the number it has reached.
LEMMA HelloIsSafe ==
    ASSUME PageInv, FramesInv', ReadHello
    PROVE  PageInv'
<1> DEFINE e == [type |-> "ready", seq |-> serial]
<1>1. /\ inbound # <<>> /\ Head(inbound).type = "hello" /\ inbound' = Tail(inbound)
      /\ outbound' = Append(outbound, e)
      /\ UNCHANGED <<row, serial, ring, watched, linked, live, cursor, page, connected, view, fetch, resumed>>
  BY DEF ReadHello, bus, client, remembered
<1>2. inbound \in Seq(Uplink) /\ outbound \in Seq(Downlink) /\ serial \in Nat
  BY DEF PageInv, FramesInv, FeedTypeOK
<1>3. /\ Head(inbound) = inbound[1] /\ 1 \in 1..Len(inbound) /\ Len(inbound) \in Nat
      /\ Len(Tail(inbound)) = Len(inbound) - 1
      /\ \A i \in 1..Len(Tail(inbound)) : i + 1 \in 1..Len(inbound) /\ Tail(inbound)[i] = inbound[i + 1]
  BY <1>1, <1>2, Tailed
<1>4. ~live /\ ~resumed /\ linked /\ \A k \in 1..Len(outbound) : outbound[k].type # "ready"
  <2>1. ~live /\ \A k \in 1..Len(outbound) : outbound[k].type # "ready" BY <1>1, <1>3 DEF PageInv, Greeting
  <2> QED BY <1>1, <2>1 DEF PageInv, Resumes, Offline
<1>5. \A i \in 1..Len(inbound') : inbound'[i].type # "hello"
  <2> SUFFICES ASSUME NEW i \in 1..Len(inbound'), inbound'[i].type = "hello" PROVE FALSE
    OBVIOUS
  <2>1. i + 1 \in 1..Len(inbound) /\ inbound[i + 1].type = "hello" /\ i + 1 # 1 BY <1>1, <1>3
  <2> QED BY <2>1 DEF PageInv, Greeting
<1>6. /\ e.type = "ready" /\ e.seq = serial
      /\ \A k \in 1..Len(outbound') : (k \in 1..Len(outbound) /\ outbound'[k] = outbound[k])
                                      \/ (k = Len(outbound) + 1 /\ outbound'[k] = e)
  <2>1. e \in Downlink BY <1>2 DEF Downlink
  <2>2. e.type = "ready" /\ e.seq = serial OBVIOUS
  <2> HIDE DEF e
  <2> QED BY <1>1, <1>2, <2>1, <2>2
<1> HIDE DEF e
<1>7. Offline' BY <1>1, <1>4 DEF Offline
<1>8. Greeting'
  <2>1. \A k \in 1..Len(outbound') : outbound'[k].type = "ready" => k = Len(outbound) + 1 /\ outbound'[k] = e
    BY <1>4, <1>6
  <2>2. \A k \in 1..Len(outbound') : outbound'[k].type = "ready" => ~live' /\ outbound'[k].seq <= serial'
    BY <1>1, <1>2, <1>4, <1>6, <2>1
  <2>3. ~live' /\ connected' => watched' = {} /\ \A i \in 1..Len(inbound') : inbound'[i].type = "hello"
    BY <1>1, <1>3 DEF PageInv, Greeting
  <2> QED BY <1>1, <1>5, <2>1, <2>2, <2>3 DEF PageInv, Greeting
<1>9. Resumes' /\ CaughtUp' BY <1>1, <1>4 DEF Resumes, CaughtUp
<1>10. Known' BY <1>1, <1>6 DEF PageInv, Known, Reached
<1> QED BY <1>7, <1>8, <1>9, <1>10 DEF PageInv

\* The client hears the greeting answered and subscribes from its cursor.
LEMMA ReadyIsSafe ==
    ASSUME PageInv, FramesInv', ReadReady
    PROVE  PageInv'
<1> DEFINE m == Head(outbound)
           s == [type |-> "subscribe", topics |-> Topics, since |-> cursor']
<1>1. /\ outbound # <<>> /\ m.type = "ready" /\ outbound' = Tail(outbound)
      /\ live' = TRUE
      /\ cursor' = (IF cursor = NoCursor THEN m.seq ELSE cursor)
      /\ inbound' = (IF Mounted THEN Append(inbound, s) ELSE inbound)
      /\ connected' = (Mounted \/ connected)
      /\ Refetched => fetch' = Asked
      /\ ~Refetched => UNCHANGED fetch
      /\ resumed' = (Mounted /\ connected /\ cursor <= m.seq)
      /\ UNCHANGED <<row, serial, ring, watched, linked, page, view>>
  BY DEF ReadReady, bus
<1>2. inbound \in Seq(Uplink) /\ outbound \in Seq(Downlink) /\ serial \in Nat /\ cursor \in Nat \cup {NoCursor}
  BY DEF PageInv, FramesInv, FeedTypeOK
<1>3. /\ m = outbound[1] /\ 1 \in 1..Len(outbound) /\ m \in Downlink
      /\ \A i \in 1..Len(Tail(outbound)) : i + 1 \in 1..Len(outbound) /\ Tail(outbound)[i] = outbound[i + 1]
  BY <1>1, <1>2, Tailed
<1> HIDE DEF m
<1>4. ~live /\ m.seq <= serial /\ m.seq \in Nat /\ linked
  <2>1. ~live /\ m.seq <= serial BY <1>1, <1>3 DEF PageInv, Greeting
  <2>2. m.seq \in Nat BY <1>1, <1>3 DEF Downlink, Frames
  <2> QED BY <1>1, <2>1, <2>2 DEF PageInv, Offline
<1>5. \A i \in 1..Len(inbound) : inbound[i].type # "hello" BY <1>1, <1>3 DEF PageInv, Greeting
<1>6. \A k \in 1..Len(outbound') : outbound'[k].type # "ready"
  <2> SUFFICES ASSUME NEW k \in 1..Len(outbound'), outbound'[k].type = "ready" PROVE FALSE
    OBVIOUS
  <2>1. k + 1 \in 1..Len(outbound) /\ outbound[k + 1].type = "ready" /\ k + 1 # 1 BY <1>1, <1>3
  <2> QED BY <1>1, <1>3, <2>1 DEF PageInv, Greeting
<1>7. cursor' \in Nat BY <1>1, <1>2, <1>4
<1>8. s \in Uplink /\ s.type = "subscribe" /\ s.topics = Topics /\ s.since = cursor'
  BY <1>7 DEF Uplink, Subscriptions
<1> HIDE DEF s
<1>9. \A i \in 1..Len(inbound') : inbound'[i] = s \/ (i \in 1..Len(inbound) /\ inbound'[i] = inbound[i])
  BY <1>1, <1>2, <1>8
<1>10. Offline' BY <1>1, <1>4 DEF Offline
<1>11. Greeting'
  <2>1. page' \in {"away", "mounted", "loaded"} /\ connected' \in BOOLEAN BY <1>1 DEF PageInv, Greeting, Mounted
  <2>2. \A i \in 1..Len(inbound') : inbound'[i].type # "hello" BY <1>5, <1>8, <1>9
  <2>3. cursor' # NoCursor BY <1>7, CursorAssumption
  <2> QED BY <1>1, <1>6, <2>1, <2>2, <2>3 DEF Greeting
<1>12. Resumes' /\ CaughtUp'
  <2> SUFFICES ASSUME resumed' PROVE Resumes' /\ CaughtUp'
    BY DEF Resumes, CaughtUp
  <2>1. Mounted /\ connected /\ cursor <= m.seq BY <1>1
  <2>2. cursor \in Nat /\ cursor' = cursor /\ cursor' <= serial
    <3>1. cursor # NoCursor BY <2>1 DEF PageInv, Greeting
    <3> QED BY <1>1, <1>2, <1>4, <2>1, <3>1
  <2>3. \A i \in 1..Len(inbound) : inbound[i].type = "hello" BY <1>4, <2>1 DEF PageInv, Greeting
  <2>4. \A i \in 1..Len(inbound') : inbound'[i] = s BY <1>5, <1>9, <2>3
  <2>5. inbound' # <<>> BY <1>1, <1>2, <1>8, <2>1
  <2>6. Resumes' BY <1>1, <1>7, <1>8, <2>1, <2>2, <2>4, <2>5 DEF Resumes, Mounted
  <2>7. fetch'.at = "asked"
    <3>1. Asked.at = "asked" BY DEF Asked, Idle
    <3> QED BY <1>1, <2>1, <3>1 DEF Refetched
  <2> QED BY <2>6, <2>7 DEF CaughtUp
<1>13. Known'
  <2>1. \A r \in Turns : Asked.rows[r] = "none" BY DEF Asked, Idle
  <2> QED BY <1>1, <1>3, <2>1 DEF PageInv, Known, Reached
<1> QED BY <1>10, <1>11, <1>12, <1>13 DEF PageInv

\* A subscription is answered with the frames missed since the cursor.
LEMMA ResubscribeIsSafe ==
    ASSUME PageInv, FramesInv', ReadSubscribe
    PROVE  PageInv'
<1> DEFINE m == Head(inbound)
           gap(t) == IF t \in Accepted(m.topics) THEN Missed(t, m.since) ELSE <<>>
           x == gap("session")
           y == gap("workspace")
<1>1. /\ inbound # <<>> /\ m.type = "subscribe" /\ inbound' = Tail(inbound)
      /\ outbound' = (outbound \o x) \o y /\ watched' = watched \cup m.topics
      /\ UNCHANGED <<row, serial, ring, linked, live, cursor, page, connected, view, fetch, resumed, overtaken>>
  BY DEF ReadSubscribe, bus, client, remembered
<1>2. /\ FeedTypeOK /\ inbound \in Seq(Uplink) /\ outbound \in Seq(Downlink) /\ serial \in Nat
      /\ ring \in [Topics -> Seq(Frames)]
  BY DEF PageInv, FramesInv, FeedTypeOK
<1>3. /\ m = inbound[1] /\ 1 \in 1..Len(inbound) /\ m \in Uplink
      /\ \A i \in 1..Len(Tail(inbound)) : i + 1 \in 1..Len(inbound) /\ Tail(inbound)[i] = inbound[i + 1]
  BY <1>1, <1>2, Tailed
<1> HIDE DEF m
<1>4. m.topics \in SUBSET Topics /\ m.since \in Nat \cup {NoCursor}
  BY <1>1, <1>3 DEF Uplink, Subscriptions
<1>5. ASSUME NEW t \in Topics
      PROVE  /\ gap(t) \in Seq(Downlink)
             /\ \A i \in 1..Len(gap(t)) : gap(t)[i].type = "frame" /\ gap(t)[i] \in Range(ring[t])
             /\ t \in Accepted(m.topics) /\ m.since \in Nat =>
                  \A k \in 1..Len(ring[t]) : ring[t][k].seq > m.since => \E i \in 1..Len(gap(t)) : gap(t)[i] = ring[t][k]
  <2>1. CASE t \notin Accepted(m.topics) \/ m.since = NoCursor
    <3>1. gap(t) = <<>> BY <2>1 DEF Missed
    <3>2. <<>> \in Seq(Downlink) OBVIOUS
    <3>3. ~(t \in Accepted(m.topics) /\ m.since \in Nat) BY <2>1, CursorAssumption
    <3> HIDE DEF gap
    <3> QED BY <3>1, <3>2, <3>3, EmptyQueue
  <2>2. CASE t \in Accepted(m.topics) /\ m.since # NoCursor
    <3> DEFINE g == Missed(t, m.since)
    <3>1. m.since \in Nat BY <1>4, <2>2
    <3>2. BufferOf(t) BY DEF PageInv, FramesInv
    <3>3. /\ g \in Seq(Frames)
          /\ \A i \in 1..Len(g) : Of(g[i], t) /\ g[i] \in Range(ring[t])
          /\ \A k \in 1..Len(ring[t]) : ring[t][k].seq > m.since => \E i \in 1..Len(g) : g[i] = ring[t][k]
      BY <1>2, <3>1, <3>2, MissedIsTheRest DEF BufferOf
    <3>4. gap(t) = g BY <2>2
    <3> HIDE DEF g, gap
    <3>5. g \in Seq(Downlink) BY <3>3 DEF Downlink
    <3> QED BY <3>3, <3>4, <3>5 DEF Of
  <2> QED BY <2>1, <2>2
<1>6. "session" \in Topics /\ "workspace" \in Topics BY DEF Topics
<1>7. /\ x \in Seq(Downlink) /\ y \in Seq(Downlink)
      /\ \A i \in 1..Len(x) : x[i].type = "frame" /\ x[i] \in Range(ring["session"])
      /\ \A i \in 1..Len(y) : y[i].type = "frame" /\ y[i] \in Range(ring["workspace"])
      /\ "session" \in Accepted(m.topics) /\ m.since \in Nat =>
           \A k \in 1..Len(ring["session"]) : ring["session"][k].seq > m.since => \E i \in 1..Len(x) : x[i] = ring["session"][k]
  BY <1>5, <1>6
<1> HIDE DEF x, y, gap
<1>8. /\ \A i \in 1..Len(outbound) : i \in 1..Len(outbound') /\ outbound'[i] = outbound[i]
      /\ \A i \in 1..Len(x) : \E k \in 1..Len(outbound') : outbound'[k] = x[i]
      /\ \A k \in 1..Len(outbound') : \/ k \in 1..Len(outbound) /\ outbound'[k] = outbound[k]
                                      \/ \E i \in 1..Len(x) : outbound'[k] = x[i]
                                      \/ \E i \in 1..Len(y) : outbound'[k] = y[i]
  <2>1. /\ outbound \in Seq(Downlink) /\ x \in Seq(Downlink) /\ y \in Seq(Downlink)
    BY <1>2, <1>7
  <2>2. Extends((outbound \o x) \o y, outbound, x, y) BY <2>1, JoinedTwice, Zenon
  <2>3. Extends(outbound', outbound, x, y) BY <1>1, <2>2, Zenon
  <2> QED BY <2>3 DEF Extends
<1>9. linked /\ \A k \in 1..Len(outbound') : outbound'[k].type = "ready" => k \in 1..Len(outbound) /\ outbound'[k] = outbound[k]
  BY <1>1, <1>7, <1>8 DEF PageInv, Offline
<1>10. Offline' BY <1>1, <1>9 DEF Offline
<1>11. Greeting'
  <2>1. \A i \in 1..Len(inbound') : inbound'[i].type # "hello"
    <3> SUFFICES ASSUME NEW i \in 1..Len(inbound'), inbound'[i].type = "hello" PROVE FALSE
      OBVIOUS
    <3>1. i + 1 \in 1..Len(inbound) /\ inbound[i + 1].type = "hello" /\ i + 1 # 1 BY <1>1, <1>3
    <3> QED BY <3>1 DEF PageInv, Greeting
  <2>2. live \/ ~connected BY <1>1, <1>3 DEF PageInv, Greeting
  <2> QED BY <1>1, <1>9, <2>1, <2>2 DEF PageInv, Greeting
<1>12. resumed => m.topics = Topics /\ m.since \in Nat /\ "session" \in watched'
  BY <1>1, <1>3, <1>6 DEF PageInv, Resumes
<1>13. Resumes' BY <1>1, <1>3, <1>12 DEF PageInv, Resumes, Mounted
<1>14. Known'
  <2>1. ASSUME NEW t \in Topics, NEW f \in Range(ring[t]) PROVE Reached(f.run, f.status)
    <3>1. ring[t] \in Seq(Frames) BY <1>2
    <3>2. PICK i \in 1..Len(ring[t]) : f = ring[t][i] BY <3>1, <2>1 DEF Range
    <3> QED BY <3>2 DEF PageInv, Known
  <2>2. \A k \in 1..Len(outbound') : outbound'[k].type = "frame" => Reached(outbound'[k].run, outbound'[k].status)
    BY <1>6, <1>7, <1>8, <2>1 DEF PageInv, Known
  <2> QED BY <1>1, <2>2 DEF PageInv, Known, Reached
<1>15. ASSUME resumed, NEW r \in Turns, Arrives(r) PROVE Arrives(r)'
  <2>1. CASE \E i \in 1..Len(outbound) : Tells(outbound[i], r)
    <3>1. \E i \in 1..Len(outbound') : Tells(outbound'[i], r) BY <1>8, <2>1
    <3> QED BY <1>1, <3>1 DEF Arrives, Tells
  <2>2. CASE ~\E i \in 1..Len(outbound) : Tells(outbound[i], r)
    <3>1. PICK j \in 1..Len(ring["session"]) :
            Tells(ring["session"][j], r) /\ \A i \in 1..Len(inbound) : inbound[i].since < ring["session"][j].seq
      BY <1>15, <2>2 DEF Arrives
    <3>2. "session" \notin watched BY <1>15, <2>2 DEF Arrives
    <3>3. m.since < ring["session"][j].seq /\ ring["session"][j].seq \in Nat
      BY <1>2, <1>3, <1>6, <3>1, QueuedAre
    <3>4. "session" \in Accepted(m.topics) /\ m.since \in Nat BY <1>6, <1>12, <1>15, <3>2 DEF Accepted
    <3>5. PICK i \in 1..Len(x) : x[i] = ring["session"][j] BY <1>7, <3>3, <3>4
    <3>6. \E k \in 1..Len(outbound') : Tells(outbound'[k], r) BY <1>8, <3>1, <3>5
    <3> QED BY <1>1, <3>6 DEF Arrives, Tells
  <2> QED BY <2>1, <2>2
<1>16. CaughtUp' BY <1>1, <1>15 DEF PageInv, CaughtUp, Current
<1> QED BY <1>10, <1>11, <1>13, <1>14, <1>16 DEF PageInv

\* The client takes a frame: the view follows, and the cursor.
LEMMA FrameIsSafe ==
    ASSUME PageInv, FramesInv', ReadFrame
    PROVE  PageInv'
<1> DEFINE f == Head(outbound)
<1>1. /\ outbound # <<>> /\ f.type = "frame" /\ outbound' = Tail(outbound)
      /\ cursor' = (IF cursor = NoCursor \/ f.seq > cursor THEN f.seq ELSE cursor)
      /\ view' = (IF page = "loaded" THEN [view EXCEPT ![f.run] = Merged(@, f.status)] ELSE view)
      /\ overtaken' = (overtaken \/ (fetch.at = "answered" /\ fetch.rows[f.run] \notin {"ended", f.status}))
      /\ UNCHANGED <<row, serial, ring, watched, inbound, linked, live, page, connected, fetch, resumed>>
  BY DEF ReadFrame, bus
<1>2. /\ FeedTypeOK /\ inbound \in Seq(Uplink) /\ outbound \in Seq(Downlink) /\ view \in [Turns -> Status]
      /\ cursor \in Nat \cup {NoCursor} /\ fetch.rows \in [Turns -> Status] /\ row \in [Turns -> Status]
  BY DEF PageInv, FramesInv, FeedTypeOK
<1>3. /\ f = outbound[1] /\ 1 \in 1..Len(outbound)
      /\ \A i \in 1..Len(Tail(outbound)) : i + 1 \in 1..Len(outbound) /\ Tail(outbound)[i] = outbound[i + 1]
      /\ \A k \in 1..Len(outbound) : k # 1 => k - 1 \in 1..Len(Tail(outbound)) /\ Tail(outbound)[k - 1] = outbound[k]
  BY <1>1, <1>2, Tailed
<1> HIDE DEF f
<1>4. f \in Frames /\ f.run \in Turns /\ f.seq \in Nat /\ f.status \in {"active", "ended"} /\ Reached(f.run, f.status)
  BY <1>1, <1>2, <1>3, QueuedAre DEF PageInv, Known
<1>5. Offline' BY <1>1, <1>3 DEF PageInv, Offline
<1>6. Greeting'
  <2>1. cursor' # NoCursor BY <1>1, <1>4, CursorAssumption
  <2>2. \A k, n \in 1..Len(outbound') : outbound'[k].type = "ready" /\ outbound'[n].type = "ready" => k = n
    <3> TAKE k, n \in 1..Len(outbound')
    <3> HAVE outbound'[k].type = "ready" /\ outbound'[n].type = "ready"
    <3>1. k + 1 = n + 1 BY <1>1, <1>3 DEF PageInv, Greeting
    <3> QED BY <3>1
  <2> QED BY <1>1, <1>3, <2>1, <2>2 DEF PageInv, Greeting
<1>7. Resumes' BY <1>1 DEF PageInv, Resumes, Mounted
<1>8. ASSUME NEW r \in Turns
      PROVE  /\ view'[r] = IF page = "loaded" /\ r = f.run THEN Merged(view[r], f.status) ELSE view[r]
             /\ Reached(r, view[r])
  BY <1>1, <1>2 DEF PageInv, Known
<1>9. Known'
  <2>1. \A r \in Turns : Reached(r, view'[r]) BY <1>4, <1>8 DEF Merged
  <2> QED BY <1>1, <1>3, <2>1 DEF PageInv, Known, Reached
<1>10. ASSUME NEW r \in Turns, Arrives(r), ~Tells(f, r) PROVE Arrives(r)'
  <2>1. CASE \E i \in 1..Len(outbound) : Tells(outbound[i], r)
    <3>1. PICK i \in 1..Len(outbound) : Tells(outbound[i], r) BY <2>1
    <3>2. i # 1 BY <1>3, <1>10, <3>1
    <3>3. i - 1 \in 1..Len(outbound') /\ Tells(outbound'[i - 1], r) BY <1>1, <1>3, <3>1, <3>2
    <3> QED BY <1>1, <3>3 DEF Arrives, Tells
  <2>2. CASE ~\E i \in 1..Len(outbound) : Tells(outbound[i], r)
    BY <1>1, <1>10, <2>2 DEF Arrives, Tells
  <2> QED BY <2>1, <2>2
<1>11. CaughtUp'
  <2> SUFFICES ASSUME resumed, ~overtaken, ~overtaken' PROVE CaughtUp'
    BY <1>1 DEF CaughtUp
  <2>1. CASE fetch.at = "asked" BY <1>1, <2>1 DEF CaughtUp
  <2>2. CASE fetch.at = "answered" /\ Current(fetch.rows)
    <3>1. ASSUME NEW r \in Turns PROVE fetch.rows[r] = row[r] \/ Arrives(r)'
      <4>1. CASE Tells(f, r)
        <5>1. fetch.rows[r] \in {"ended", row[r]} BY <1>1, <2>2, <4>1 DEF Tells
        <5>2. Reached(r, fetch.rows[r]) BY DEF PageInv, Known
        <5> QED BY <5>1, <5>2 DEF Reached
      <4>2. CASE ~Tells(f, r) BY <1>10, <2>2, <4>2 DEF Current
      <4> QED BY <4>1, <4>2
    <3> QED BY <1>1, <2>2, <3>1 DEF CaughtUp, Current
  <2>3. CASE fetch.at = "idle" /\ page = "loaded" /\ Current(view)
    <3>1. ASSUME NEW r \in Turns PROVE view'[r] = row[r] \/ Arrives(r)'
      <4>1. CASE Tells(f, r)
        <5>1. view'[r] = Merged(view[r], row[r]) BY <1>8, <2>3, <4>1 DEF Tells
        <5> QED BY <1>8, <5>1 DEF Merged, Reached
      <4>2. CASE ~Tells(f, r) /\ Arrives(r) BY <1>10, <4>2
      <4>3. CASE ~Tells(f, r) /\ view[r] = row[r]
        <5>1. CASE r = f.run
          <6>1. f.status # row[r] /\ Reached(r, f.status) BY <1>1, <1>4, <4>3, <5>1 DEF Tells
          <6>2. row[r] = "ended" BY <1>4, <6>1 DEF Reached
          <6> QED BY <1>8, <2>3, <4>3, <5>1, <6>2 DEF Merged
        <5>2. CASE r # f.run BY <1>8, <4>3, <5>2
        <5> QED BY <5>1, <5>2
      <4> QED BY <2>3, <4>1, <4>2, <4>3 DEF Current
    <3> QED BY <1>1, <2>3, <3>1 DEF CaughtUp, Current
  <2> QED BY <2>1, <2>2, <2>3 DEF PageInv, CaughtUp
<1> QED BY <1>5, <1>6, <1>7, <1>9, <1>11 DEF PageInv

\* A run moves: its two frames join the buffers and the socket.
LEMMA PublishIsSafe ==
    ASSUME PageInv, FramesInv', NEW r \in Turns, NEW status \in Status, RunMoves(r, status)
    PROVE  PageInv'
<1> DEFINE first == StatusFrame("session", serial + 1, r, status)
           second == StatusFrame("workspace", serial + 2, r, status)
           x == Forwarded(first)
           y == Forwarded(second)
           z == x \o y
<1>1. /\ FeedTypeOK /\ inbound \in Seq(Uplink) /\ outbound \in Seq(Downlink) /\ serial \in Nat
      /\ ring \in [Topics -> Seq(Frames)] /\ row \in [Turns -> Status] /\ watched \in SUBSET Topics
  BY DEF PageInv, FramesInv, FeedTypeOK
<1>2. /\ ring' = [t \in Topics |-> Append(ring[t], IF t = "session" THEN first ELSE second)]
      /\ outbound' = outbound \o x \o y
      /\ serial' = serial + 2 /\ row' = [row EXCEPT ![r] = status]
      /\ <<row[r], status>> \in {<<"none", "active">>, <<"active", "ended">>}
      /\ UNCHANGED <<watched, inbound, linked, live, cursor, page, connected, view, fetch, resumed, overtaken>>
  BY DEF RunMoves, client, remembered
<1>3. first \in Frames /\ second \in Frames /\ first.topic = "session" /\ second.topic = "workspace"
      /\ first.seq = serial + 1 /\ first.run = r /\ second.run = r /\ first.status = status /\ second.status = status
      /\ first.type = "frame" /\ second.type = "frame"
  BY <1>1, <1>2 DEF Frames, StatusFrame, Topics
<1> HIDE DEF first, second
<1>4. /\ x \in Seq(Downlink) /\ y \in Seq(Downlink)
      /\ x = <<first>> \/ (x = <<>> /\ "session" \notin watched)
      /\ y = <<second>> \/ (y = <<>> /\ "workspace" \notin watched)
      /\ x = <<first>> => "session" \in watched
      /\ y = <<second>> => "workspace" \in watched
  BY <1>3, ForwardedIs
<1> HIDE DEF x, y
<1>5. /\ \A i \in 1..Len(x) : x[i] = first
      /\ \A i \in 1..Len(y) : y[i] = second
      /\ x = <<first>> => 1 \in 1..Len(x) /\ x[1] = first
  BY <1>4
<1>6. z \in Seq(Downlink) /\ outbound' = outbound \o z
      /\ (\A i \in 1..Len(z) : z[i] \in {first, second})
      /\ (x = <<first>> => 1 \in 1..Len(z) /\ z[1] = first)
  <2>1. z \in Seq(Downlink) BY <1>4, Joined
  <2>20. \A p, q, w \in Seq(Downlink) : (p \o q) \o w = p \o (q \o w)
    <3> HIDE DEF z
    <3> QED BY ConcatAssociative
  <2>21. outbound \in Seq(Downlink) /\ x \in Seq(Downlink) /\ y \in Seq(Downlink) BY <1>1, <1>4
  <2>22. (outbound \o x) \o y = outbound \o (x \o y) BY <2>20, <2>21
  <2>2. outbound' = outbound \o z BY <1>2, <2>22
  <2>3. \A i \in 1..Len(z) : z[i] \in {first, second} BY <1>4, <1>5, Joined
  <2>4. x = <<first>> => 1 \in 1..Len(z) /\ z[1] = first BY <1>4, <1>5, Joined
  <2> QED BY <2>1, <2>2, <2>3, <2>4
<1> HIDE DEF z
<1>7. /\ \A i \in 1..Len(outbound) : i \in 1..Len(outbound') /\ outbound'[i] = outbound[i]
      /\ \A i \in 1..Len(z) : \E k \in 1..Len(outbound') : outbound'[k] = z[i]
      /\ \A k \in 1..Len(outbound') : \/ k \in 1..Len(outbound) /\ outbound'[k] = outbound[k]
                                      \/ outbound'[k] \in {first, second}
  <2>1. /\ \A i \in 1..Len(outbound) : i \in 1..Len(outbound') /\ outbound'[i] = outbound[i]
        /\ \A i \in 1..Len(z) : Len(outbound) + i \in 1..Len(outbound') /\ outbound'[Len(outbound) + i] = z[i]
        /\ \A k \in 1..Len(outbound') : \/ k \in 1..Len(outbound) /\ outbound'[k] = outbound[k]
                                        \/ k - Len(outbound) \in 1..Len(z) /\ outbound'[k] = z[k - Len(outbound)]
    BY <1>1, <1>6, Joined
  <2> QED BY <1>6, <2>1
<1>8. ASSUME NEW t \in Topics
      PROVE  /\ \A i \in 1..Len(ring[t]) : i \in 1..Len(ring'[t]) /\ ring'[t][i] = ring[t][i]
             /\ \A k \in 1..Len(ring'[t]) : \/ k \in 1..Len(ring[t]) /\ ring'[t][k] = ring[t][k]
                                            \/ ring'[t][k] \in {first, second}
             /\ t = "session" => \E k \in 1..Len(ring'[t]) : ring'[t][k] = first
  <2> DEFINE q == ring[t]
             e == IF t = "session" THEN first ELSE second
  <2>1. ring'[t] = Append(q, e) BY <1>2
  <2>2. q \in Seq(Frames) /\ e \in Frames /\ e \in {first, second} BY <1>1, <1>3
  <2>3. t = "session" => e = first OBVIOUS
  <2> HIDE DEF q, e
  <2>4. /\ \A i \in 1..Len(q) : i \in 1..Len(Append(q, e)) /\ Append(q, e)[i] = q[i]
        /\ \A k \in 1..Len(Append(q, e)) : (k \in 1..Len(q) /\ Append(q, e)[k] = q[k]) \/ Append(q, e)[k] = e
        /\ Len(q) + 1 \in 1..Len(Append(q, e)) /\ Append(q, e)[Len(q) + 1] = e
    BY <2>2
  <2>5. /\ \A i \in 1..Len(q) : i \in 1..Len(ring'[t]) /\ ring'[t][i] = q[i]
        /\ \A k \in 1..Len(ring'[t]) : (k \in 1..Len(q) /\ ring'[t][k] = q[k]) \/ ring'[t][k] = e
        /\ \E k \in 1..Len(ring'[t]) : ring'[t][k] = e
    BY <2>1, <2>4
  <2> QED BY <2>2, <2>3, <2>5 DEF q
<1>9. ASSUME NEW u \in Turns PROVE row'[u] = IF u = r THEN status ELSE row[u]
  BY <1>1, <1>2
<1>10. ASSUME NEW u \in Turns, NEW st, Reached(u, st) PROVE Reached(u, st)'
  <2>1. CASE u # r BY <1>9, <1>10, <2>1 DEF Reached
  <2>2. CASE u = r /\ row[r] = "none" /\ status = "active" BY <1>9, <1>10, <2>2 DEF Reached
  <2>3. CASE u = r /\ row[r] = "active" /\ status = "ended" BY <1>9, <1>10, <2>3 DEF Reached
  <2> QED BY <1>2, <2>1, <2>2, <2>3
<1>11. Offline' 
  <2>1. CASE linked BY <1>2, <2>1 DEF Offline
  <2>2. CASE ~linked
    <3>1. watched = {} /\ outbound = <<>> BY <2>2 DEF PageInv, Offline
    <3>2. x = <<>> /\ y = <<>> BY <1>4, <3>1
    <3>3. outbound' = <<>> BY <1>2, <3>1, <3>2
    <3> QED BY <1>2, <2>2, <3>3 DEF PageInv, Offline
  <2> QED BY <2>1, <2>2
<1>12. Greeting'
  <2>1. \A k \in 1..Len(outbound') : outbound'[k].type = "ready" => k \in 1..Len(outbound) /\ outbound'[k] = outbound[k]
    BY <1>3, <1>7
  <2>2. \A k \in 1..Len(outbound) : outbound[k].type = "ready" => outbound[k].seq \in Nat
    BY <1>1, QueuedAre DEF Downlink, Frames
  <2>3. ASSUME NEW k \in 1..Len(outbound'), outbound'[k].type = "ready" PROVE ~live' /\ outbound'[k].seq <= serial'
    <3>1. k \in 1..Len(outbound) /\ outbound'[k] = outbound[k] BY <2>1, <2>3
    <3>2. ~live /\ outbound[k].seq <= serial BY <2>3, <3>1 DEF PageInv, Greeting
    <3> QED BY <1>1, <1>2, <2>2, <2>3, <3>1, <3>2
  <2> QED BY <1>2, <2>1, <2>3 DEF PageInv, Greeting
<1>13. Resumes'
  <2>1. resumed => \A i \in 1..Len(inbound) : inbound[i].type = "subscribe" =>
             inbound[i].topics = Topics /\ inbound[i].since \in Nat /\ inbound[i].since <= serial + 2
    BY <1>1 DEF PageInv, Resumes
  <2> QED BY <1>2, <2>1 DEF PageInv, Resumes, Mounted
<1>15. Known'
  <2>1. ASSUME NEW t \in Topics, NEW k \in 1..Len(ring'[t])
        PROVE  Reached(ring[t][k].run, ring[t][k].status)'
    <3>1. CASE k \in 1..Len(ring[t]) /\ ring'[t][k] = ring[t][k]
      <4>1. ring[t][k].run \in Turns /\ Reached(ring[t][k].run, ring[t][k].status)
        BY <1>1, <3>1, QueuedAre DEF PageInv, Known
      <4> QED BY <1>10, <3>1, <4>1
    <3>2. CASE ring'[t][k] \in {first, second} BY <1>3, <1>9, <3>2 DEF Reached
    <3> QED BY <1>8, <2>1, <3>1, <3>2
  <2>2. ASSUME NEW k \in 1..Len(outbound'), outbound'[k].type = "frame"
        PROVE  Reached(outbound[k].run, outbound[k].status)'
    <3>1. CASE k \in 1..Len(outbound) /\ outbound'[k] = outbound[k]
      <4>1. outbound[k].run \in Turns /\ Reached(outbound[k].run, outbound[k].status)
        BY <1>1, <2>2, <3>1, QueuedAre DEF PageInv, Known
      <4> QED BY <1>10, <3>1, <4>1
    <3>2. CASE outbound'[k] \in {first, second} BY <1>3, <1>9, <3>2 DEF Reached
    <3> QED BY <1>7, <2>2, <3>1, <3>2
  <2>3. \A u \in Turns : Reached(u, view[u])' /\ Reached(u, fetch.rows[u])'
    BY <1>2, <1>10 DEF PageInv, Known
  <2> QED BY <2>1, <2>2, <2>3 DEF Known
<1>16. ASSUME NEW u \in Turns \ {r}, Arrives(u) PROVE Arrives(u)'
  <2>0. row'[u] = row[u] BY <1>9
  <2>1. CASE \E i \in 1..Len(outbound) : Tells(outbound[i], u)
    <3>1. \E i \in 1..Len(outbound') : outbound'[i].type = "frame" /\ outbound'[i].run = u /\ outbound'[i].status = row'[u]
      BY <1>7, <2>0, <2>1 DEF Tells
    <3> QED BY <3>1 DEF Arrives, Tells
  <2>2. CASE ~\E i \in 1..Len(outbound) : Tells(outbound[i], u)
    <3>1. "session" \in Topics BY DEF Topics
    <3>2. PICK j \in 1..Len(ring["session"]) :
            Tells(ring["session"][j], u) /\ \A i \in 1..Len(inbound) : inbound[i].since < ring["session"][j].seq
      BY <1>16, <2>2 DEF Arrives
    <3>3. j \in 1..Len(ring'["session"]) /\ ring'["session"][j] = ring["session"][j] BY <1>8, <3>1
    <3> QED BY <1>2, <1>16, <2>0, <2>2, <3>2, <3>3 DEF Arrives, Tells
  <2> QED BY <2>1, <2>2
<1>17. ASSUME resumed PROVE Arrives(r)'
  <2>0. row'[r] = status BY <1>9
  <2>1. CASE "session" \in watched
    <3>1. x = <<first>> BY <1>4, <2>1
    <3>2. \E k \in 1..Len(outbound') : outbound'[k] = first BY <1>6, <1>7, <3>1
    <3> QED BY <1>3, <2>0, <3>2 DEF Arrives, Tells
  <2>2. CASE "session" \notin watched
    <3>1. inbound # <<>> BY <1>17, <2>2 DEF PageInv, Resumes
    <3>2. ASSUME NEW i \in 1..Len(inbound) PROVE inbound[i].since < serial + 1
      <4>1. inbound[i].type # "hello" BY <1>17 DEF PageInv, Resumes, Greeting
      <4>2. inbound[i].type = "subscribe" BY <1>1, <4>1, QueuedAre DEF Uplink, Subscriptions
      <4> QED BY <1>1, <1>17, <4>2 DEF PageInv, Resumes
    <3>3. "session" \in Topics BY DEF Topics
    <3>4. PICK k \in 1..Len(ring'["session"]) : ring'["session"][k] = first BY <1>8, <3>3
    <3> QED BY <1>2, <1>3, <2>0, <2>2, <3>1, <3>2, <3>4 DEF Arrives, Tells
  <2> QED BY <2>1, <2>2
<1>18. CaughtUp'
  <2>1. ASSUME resumed, NEW known, Current(known) PROVE \A u \in Turns : known[u] = row'[u] \/ Arrives(u)'
    BY <1>9, <1>16, <1>17, <2>1 DEF Current
  <2>2. resumed /\ Current(view) => Current(view)' BY <1>2, <2>1 DEF Current
  <2>3. resumed /\ Current(fetch.rows) => Current(fetch.rows)' BY <1>2, <2>1 DEF Current
  <2> QED BY <1>2, <2>2, <2>3 DEF PageInv, CaughtUp
<1> QED BY <1>11, <1>12, <1>13, <1>15, <1>18 DEF PageInv

\* Every step keeps what the page counts on.
LEMMA PageStep == PageInv /\ [FeedNext]_feedVars => PageInv'
<1> SUFFICES ASSUME PageInv, [FeedNext]_feedVars PROVE PageInv'
  OBVIOUS
<1>0. FramesInv /\ FramesInv' BY FramesStep DEF PageInv
<1> USE DEF bus, socket, client, remembered
<1>1. ASSUME NEW r \in Turns, NEW status \in Status, RunMoves(r, status) PROVE PageInv' BY <1>0, <1>1, PublishIsSafe
<1>2. CASE FramesAge
  <2>1. /\ ~linked /\ ring' = [t \in Topics |-> <<>>]
        /\ UNCHANGED <<row, serial, watched, inbound, outbound, linked, live, cursor, page, connected, view, fetch, resumed>>
    BY <1>2 DEF FramesAge
  <2>2. ~resumed BY <2>1 DEF PageInv, Offline
  <2>3. Offline' /\ Greeting' /\ Resumes' /\ CaughtUp'
    BY <2>1, <2>2 DEF PageInv, Offline, Greeting, Resumes, CaughtUp
  <2>4. \A t \in Topics : \A i \in 1..Len(ring'[t]) : FALSE
    <3>1. \A t \in Topics : ring'[t] = <<>> BY <2>1
    <3> QED BY <3>1, EmptyQueue
  <2>5. Known' BY <2>1, <2>4 DEF PageInv, Known, Reached
  <2> QED BY <1>0, <2>3, <2>5 DEF PageInv
<1>3. CASE ReadHello BY <1>0, <1>3, HelloIsSafe
<1>4. CASE ReadSubscribe BY <1>0, <1>4, ResubscribeIsSafe
<1>5. CASE AnswerFetch \/ Load BY <1>0, <1>5, AnswersAreSafe
<1>6. CASE Connect
  <2>1. ~resumed /\ ~live BY <1>6 DEF Connect, PageInv, Offline
  <2> QED BY <1>0, <1>6, <2>1, CutIsSafe DEF Connect
<1>7. CASE Mount BY <1>0, <1>7, MountIsSafe
<1>8. CASE ReadReady BY <1>0, <1>8, ReadyIsSafe
<1>9. CASE ReadFrame BY <1>0, <1>9, FrameIsSafe
<1>10. CASE Drop BY <1>0, <1>10, CutIsSafe DEF Drop, Cut
<1>11. CASE Restart
  <2>1. \A r \in Turns : row'[r] = row[r] \/ row'[r] = "ended" BY <1>11 DEF Restart
  <2> QED BY <1>0, <1>11, <2>1, CutIsSafe DEF Restart, Cut
<1>12. CASE UNCHANGED feedVars
  <2>1. \A r : Arrives(r)' = Arrives(r) BY <1>12, ArrivalsStay DEF feedVars
  <2> QED BY <1>0, <1>12, <2>1 DEF feedVars, PageInv, Offline, Greeting, Resumes, Known, Reached, CaughtUp, Current, Mounted
<1> QED BY <1>1, <1>2, <1>3, <1>4, <1>5, <1>6, <1>7, <1>8, <1>9, <1>10, <1>11, <1>12 DEF FeedNext

\* The page is away when the service starts.
LEMMA PageStart == FeedInit => PageInv
<1> SUFFICES ASSUME FeedInit PROVE PageInv
  OBVIOUS
<1>1. FramesInv BY FramesStart
<1>2. \A t \in Topics : \A i \in 1..Len(ring[t]) : FALSE
  <2>1. \A t \in Topics : ring[t] = <<>> BY DEF FeedInit
  <2> QED BY <2>1, EmptyQueue
<1>3. Known BY <1>2, EmptyQueue DEF FeedInit, Known, Reached, Idle
<1> QED BY <1>1, <1>3, EmptyQueue DEF FeedInit, PageInv, Offline, Greeting, Resumes, CaughtUp

\* A page that came back after a lost link shows every run as its row has it, once no
\* message is under way and unless its own query was overtaken by a frame.
THEOREM AResumedViewIsCurrent == FeedSpec => []ResumedViewIsCurrent
<1>1. PageInv => ResumedViewIsCurrent
  <2> SUFFICES ASSUME PageInv, Settled, resumed, ~overtaken PROVE view = row
    BY DEF ResumedViewIsCurrent
  <2>1. fetch.at = "idle" /\ inbound = <<>> /\ outbound = <<>> BY DEF Settled, Idle
  <2>2. Current(view) BY <2>1 DEF PageInv, CaughtUp
  <2>3. \A r \in Turns : ~Arrives(r) BY <2>1, EmptyQueue DEF Arrives
  <2>4. \A r \in Turns : view[r] = row[r] BY <2>2, <2>3 DEF Current
  <2> QED BY <2>4 DEF PageInv, FramesInv, FeedTypeOK
<1> QED BY <1>1, PageStart, PageStep, PTL DEF FeedSpec
=============================================================================
