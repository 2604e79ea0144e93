---------------------------- MODULE Consolidation ----------------------------
(***************************************************************************)
(* Memories that say the same thing, and their folding together: the sweep *)
(* of learning/consolidation.ts, the route that applies what it proposed   *)
(* (routes/learning.ts), reconcile, update, delete and recordUsage of      *)
(* learning/memory.ts.  The arbiter and the embedding model are awaited,   *)
(* and everything may happen meanwhile.  The model answers in the order it *)
(* was called; the hashing embedder answers before anything else runs, and *)
(* a model that is not ready is not called: both are `modelReady` FALSE here.   *)
(*                                                                         *)
(* Abstracted: the title and content of a memory to the number of the edit *)
(* that wrote them; likeness and scope, so any memories may form a group;  *)
(* a call of the arbiter to one group; tags, pins, confidence and tiers.   *)
(***************************************************************************)
EXTENDS Naturals, FiniteSets, Sequences, Functions

CONSTANTS Facts,        \* memories
          Recalls,      \* runs, each of which recalls once
          Passes,       \* sweeps: the button's, and one after each run that learnt
          MaxFilings,   \* bound: insights of this kind
          MaxEditions,  \* bound: texts written
          MaxCalls      \* bound: calls waiting at the model

ASSUME ConsolidationAssumption ==
    /\ IsFiniteSet(Facts)
    /\ MaxFilings \in Nat /\ MaxEditions \in Nat \ {0} /\ MaxCalls \in Nat

VARIABLES
    fact,       \* each row of memories: its text (0 when there is no row) and use_count
    usages,     \* memory_usages, <<run, memory>>
    carries,    \* what each row should have kept: the recalls of every memory folded into it
    sweep,      \* each pass: the rows it read, and the groups still to ask about
    filed,      \* insights of kind "consolidation", in the order they were filed
    modelReady, \* whether the embedder in use is a model that is ready
    calls,      \* the folds and edits waiting for the model, first come first
    editions

consolidationVars == <<fact, usages, carries, sweep, filed, modelReady, calls, editions>>

NoFact == [text |-> 0, uses |-> 0]
NoSweep == [seen |-> [m \in {} |-> 0], groups |-> {}]

Standing == {m \in Facts : fact[m].text # 0}

-----------------------------------------------------------------------------
(* The sweep *)

\* answered: every question on file counts, whatever became of it.
Answered == {filed[i].group : i \in DOMAIN filed}

\* A star and its neighbours, CONSOLIDATION_NEIGHBOURS of them at most.
Groups == {g \in SUBSET Standing : Cardinality(g) \in 2..4}

Overlaps(kept, candidate) == Cardinality(kept \cap candidate) * 2 > Cardinality(candidate)

\* The rows and the answered questions are read once, before any call.
SweepBegins(p) ==
    /\ sweep[p] = NoSweep
    /\ \E G \in SUBSET (Groups \ Answered) :
         /\ G # {}
         /\ \A g, h \in G : g # h => ~Overlaps(g, h) \/ ~Overlaps(h, g)
         /\ sweep' = [sweep EXCEPT ![p] = [seen |-> [m \in Standing |-> fact[m].text], groups |-> G]]
    /\ UNCHANGED <<fact, usages, carries, filed, modelReady, calls, editions>>

\* What a member's fingerprint is made of: the row as the arbiter was shown it.
Fingerprint_Fresh(seen, m) == fact[m].text
Fingerprint(seen, m) == seen[m]

\* file: "distinct", a contradiction and a duplicate without its text have
\* nothing to press.
Unpressable(g) == [group |-> g, prints |-> [m \in {} |-> 0], winner |-> CHOOSE m \in g : TRUE,
                   text |-> 0, read |-> [m \in {} |-> 0], applied |-> FALSE]

\* Members deleted meanwhile are left out, and somebody survives: the best
\* evidence, unless one is global.
Proposals(g, seen) ==
    UNION {[group : {g}, prints : {[m \in members |-> Fingerprint(seen, m)]}, winner : members,
            text : {seen[m] : m \in members} \cup {editions + 1},
            read : {[m \in members |-> seen[m]]}, applied : {FALSE}] :
           members \in {s \in SUBSET (g \cap Standing) : Cardinality(s) > 1}}

\* A reply may leave a group without a verdict.
ArbiterAnswers(p, g) ==
    /\ g \in sweep[p].groups
    /\ sweep' = [sweep EXCEPT ![p] = IF @.groups = {g} THEN NoSweep ELSE [@ EXCEPT !.groups = @ \ {g}]]
    /\ \/ UNCHANGED <<filed, editions>>
       \/ \E i \in Proposals(g, sweep[p].seen) \cup {Unpressable(g)} :
            /\ Len(filed) < MaxFilings
            /\ i.text <= MaxEditions
            /\ filed' = Append(filed, i)
            /\ editions' = IF i.text > editions THEN i.text ELSE editions
    /\ UNCHANGED <<fact, usages, carries, modelReady, calls>>

\* A model that cannot be reached ends the pass with what it filed so far.
ArbiterIsLost(p) ==
    /\ sweep[p] # NoSweep
    /\ sweep' = [sweep EXCEPT ![p] = NoSweep]
    /\ UNCHANGED <<fact, usages, carries, filed, modelReady, calls, editions>>

-----------------------------------------------------------------------------
(* The operator *)

\* setInsightStatus: the route takes any of the four.
SetStatus(i) ==
    /\ filed' = [filed EXCEPT ![i].applied = ~@]
    /\ UNCHANGED <<fact, usages, carries, sweep, modelReady, calls, editions>>

\* reconcile's transaction: the survivor adds up what the rows hold now, its
\* use counts and its usages, before the losers are deleted.
UsesOf_AsRead(job) == SumFunction([m \in DOMAIN job.read |-> job.read[m].uses])
UsesOf(job) == SumFunction([m \in DOMAIN job.read |-> fact[m].uses])

Folds(job) ==
    LET all == DOMAIN job.read
        losers == all \ {job.winner}
        Survivor(m) == IF m \in losers THEN job.winner ELSE m
    IN  /\ fact' = [m \in Facts |-> IF m = job.winner THEN [text |-> job.text, uses |-> UsesOf(job)]
                                    ELSE IF m \in losers THEN NoFact ELSE fact[m]]
        /\ usages' = {<<u[1], Survivor(u[2])>> : u \in usages}
        /\ carries' = [m \in Facts |-> IF m = job.winner THEN UNION {carries[n] : n \in all}
                                       ELSE IF m \in losers THEN {} ELSE carries[m]]
        /\ filed' = [filed EXCEPT ![job.insight].applied = TRUE]

\* The route, and reconcile up to its await: every member is what the arbiter
\* was shown.  A survivor that is not rewritten needs no vector.
Press(i) ==
    /\ ~filed[i].applied /\ filed[i].text # 0
    /\ \A m \in DOMAIN filed[i].prints : m \in Standing /\ fact[m].text = filed[i].prints[m]
    /\ LET job == [op |-> "fold", insight |-> i, winner |-> filed[i].winner, text |-> filed[i].text,
                   read |-> [m \in DOMAIN filed[i].prints |-> fact[m]]]
       IN  IF modelReady /\ job.text # fact[job.winner].text
           THEN /\ Len(calls) < MaxCalls
                /\ calls' = Append(calls, job)
                /\ UNCHANGED <<fact, usages, carries, filed>>
           ELSE Folds(job) /\ UNCHANGED calls
    /\ UNCHANGED <<sweep, modelReady, editions>>

\* "Re-read, and refuse on any drift": of the survivor's text, and of what exists.
Drifted(job) ==
    \/ fact[job.winner].text # job.read[job.winner].text
    \/ ~(DOMAIN job.read \subseteq Standing)

FoldLands ==
    /\ calls # <<>> /\ Head(calls).op = "fold"
    /\ calls' = Tail(calls)
    /\ ~Drifted(Head(calls)) /\ Folds(Head(calls))
    /\ UNCHANGED <<sweep, modelReady, editions>>

\* update of a memory's text; the row may be gone when the vector arrives.
Edit(m) ==
    /\ m \in Standing /\ editions < MaxEditions
    /\ editions' = editions + 1
    /\ IF modelReady
       THEN /\ Len(calls) < MaxCalls
            /\ calls' = Append(calls, [op |-> "edit", fact |-> m, text |-> editions'])
            /\ UNCHANGED fact
       ELSE /\ fact' = [fact EXCEPT ![m].text = editions']
            /\ UNCHANGED calls
    /\ UNCHANGED <<usages, carries, sweep, filed, modelReady>>

EditLands ==
    /\ calls # <<>> /\ Head(calls).op = "edit" /\ Head(calls).fact \in Standing
    /\ calls' = Tail(calls)
    /\ fact' = [fact EXCEPT ![Head(calls).fact].text = Head(calls).text]
    /\ UNCHANGED <<usages, carries, sweep, filed, modelReady, editions>>

\* The model fails, or the answer finds that it may not be written.
CallEndsInVain ==
    /\ calls # <<>>
    /\ calls' = Tail(calls)
    /\ UNCHANGED <<fact, usages, carries, sweep, filed, modelReady, editions>>

\* The embeddings setting, or a model that becomes ready; what waits goes on.
SwitchEmbedder ==
    /\ modelReady' = ~modelReady
    /\ UNCHANGED <<fact, usages, carries, sweep, filed, calls, editions>>

\* delete, and collect.  The usages cascade.
DeleteFact(m) ==
    /\ m \in Standing
    /\ fact' = [fact EXCEPT ![m] = NoFact]
    /\ usages' = {u \in usages : u[2] # m}
    /\ carries' = [carries EXCEPT ![m] = {}]
    /\ UNCHANGED <<sweep, filed, modelReady, calls, editions>>

\* recordUsage, of a run that was given these memories.
Recall(r, S) ==
    /\ S # {} /\ S \subseteq Standing
    /\ \A m \in Facts : \A c \in carries[m] : c[1] # r
    /\ fact' = [m \in Facts |-> IF m \in S THEN [fact[m] EXCEPT !.uses = @ + 1] ELSE fact[m]]
    /\ usages' = usages \cup ({r} \X S)
    /\ carries' = [m \in Facts |-> IF m \in S THEN carries[m] \cup {<<r, m>>} ELSE carries[m]]
    /\ UNCHANGED <<sweep, filed, modelReady, calls, editions>>

-----------------------------------------------------------------------------
ConsolidationInit ==
    /\ fact = [m \in Facts |-> [text |-> 1, uses |-> 0]]
    /\ usages = {}
    /\ carries = [m \in Facts |-> {}]
    /\ sweep = [p \in Passes |-> NoSweep]
    /\ filed = <<>>
    /\ modelReady = FALSE
    /\ calls = <<>>
    /\ editions = 1

ConsolidationNext ==
    \/ \E p \in Passes : SweepBegins(p) \/ ArbiterIsLost(p)
    \/ \E p \in Passes : \E g \in sweep[p].groups : ArbiterAnswers(p, g)
    \/ \E i \in DOMAIN filed : SetStatus(i)
    \/ \E i \in DOMAIN filed : Press(i)
    \/ FoldLands \/ EditLands \/ CallEndsInVain \/ SwitchEmbedder
    \/ \E m \in Facts : Edit(m) \/ DeleteFact(m)
    \/ \E r \in Recalls, S \in SUBSET Facts : Recall(r, S)

ConsolidationSpec == ConsolidationInit /\ [][ConsolidationNext]_consolidationVars

-----------------------------------------------------------------------------
(* Properties *)

\* reconcile: "Anything that ends a row has to say what becomes of all of
\* that".  Whatever is folded, pressed twice, edited, deleted and recalled
\* while a fold waits for its vector, a row counts every use of every memory
\* it absorbed, once, and every run that recalled one of them points to it.
EvidenceSurvivesFolds ==
    \A m \in Facts :
        /\ fact[m].uses = Cardinality(carries[m])
        /\ {u[1] : u \in {v \in usages : v[2] = m}} = {c[1] : c \in carries[m]}

\* The step that folds what insight i proposed.
Folding(i) ==
    /\ fact' # fact
    /\ \/ ~filed[i].applied /\ filed'[i].applied
       \/ calls # <<>> /\ calls' # calls /\ Head(calls).op = "fold" /\ Head(calls).insight = i

\* file: the fingerprint is of the text the arbiter judged, so that an edit
\* made while it was asked, or at any time up to the fold itself, is refused:
\* a survivor is only rewritten over what the arbiter read of it.
SurvivorIsWhatWasRead ==
    [][\A i \in DOMAIN filed : Folding(i) =>
          fact[filed[i].winner].text = filed[i].read[filed[i].winner]]_consolidationVars

\* routes/learning.ts, of what became of a member since it was proposed: a fold
\* would else "delete an edit nobody ever saw", and "any drift is a 409".
FoldsLoseNoEdit ==
    [][\A i \in DOMAIN filed : Folding(i) =>
          \A m \in DOMAIN filed[i].read : fact[m].text = filed[i].read[m]]_consolidationVars
=============================================================================
