---------------------------- MODULE LearningProofs ----------------------------
(***************************************************************************)
(* What the learning keeps, for any number of memories, runs, passes and   *)
(* writers: the memories' vectors catch up with the provider, folds lose   *)
(* no evidence, and an arm counts each of its runs once.                   *)
(***************************************************************************)
EXTENDS Vectors, Consolidation, Learner, DataLemmas

-----------------------------------------------------------------------------
(* Vectors: the rebuilds catch up *)

Family == {"hash", "st"}
Maker == Family \cup {Pending}
RowType == [text : Nat, of : Nat, by : Maker, model : Maker]
JobType == [rows : SUBSET (Memories \X Nat), mem : Memories \cup {Pending}, text : Nat]
ErrandType == [mem : Memories \cup {Pending}, op : {"create", "update", "reconcile", "none"},
               text : Nat, seen : Nat]

VectorsTypeInv ==
    /\ provider \in Family
    /\ local \in {"none", "loading", "ready", "lexical-only"}
    /\ memory \in [Memories -> RowType]
    /\ again \in BOOLEAN
    /\ pass \in [Rebuilds -> JobType]
    /\ writer \in [Writers -> ErrandType]
    /\ texts \in Nat /\ switches \in Nat

Lags(m) == Exists(m) /\ memory[m].model # provider
Listed(m) == pass["trigger"].mem = m \/ \E r \in pass["trigger"].rows : r[1] = m

\* What is behind the live provider is ahead of the trigger's pass, or the
\* trigger owes another one.
BehindInv ==
    provider = "hash" \/ local = "ready" =>
        \A m \in Memories : Lags(m) =>
            /\ pass["trigger"] # NotRunning
            /\ again \/ (provider = "st" /\ Listed(m))

VectorsInv ==
    /\ VectorsTypeInv
    /\ \A b \in Rebuilds : pass[b] # NotRunning => local = "ready" /\ pass[b].mem \in Memories
    /\ \A w \in Writers : writer[w] # Quiet => writer[w].mem \in Memories /\ writer[w].op # "none"
    /\ again => pass["trigger"] # NotRunning
    /\ BehindInv

RowsType == [Memories -> RowType]

\* The values that stand for nothing under way are of their types.
LEMMA IdleIsTyped == NotRunning \in JobType /\ Quiet \in ErrandType /\ NoRow \in RowType
BY DEF NotRunning, JobType, Quiet, ErrandType, NoRow, RowType, Maker

\* Every row of another model is among the stale ones a rebuild takes.
LEMMA StaleRows ==
    ASSUME NEW rows \in RowsType, NEW live
    PROVE  /\ Stale(rows, live) \in SUBSET (Memories \X Nat)
           /\ \A m \in Memories : rows[m].text # 0 /\ rows[m].model # live =>
                \E r \in Stale(rows, live) : r[1] = m
<1>1. \A m \in Memories : rows[m].text \in Nat BY DEF RowsType, RowType
<1>2. Stale(rows, live) \in SUBSET (Memories \X Nat) BY <1>1 DEF Stale
<1>3. ASSUME NEW m \in Memories, rows[m].text # 0, rows[m].model # live
      PROVE  <<m, rows[m].text>> \in Stale(rows, live)
  BY <1>3 DEF Stale
<1> QED BY <1>2, <1>3

\* A rewritten row keeps its text and bears the live model.
LEMMA RewrittenRow ==
    ASSUME NEW row \in RowType, NEW text \in Nat, NEW maker \in Maker, provider' \in Family
    PROVE  LET q == Rewritten(row, text, maker)
           IN  /\ q \in RowType
               /\ q.text = row.text
               /\ q.text # 0 => q.model = provider'
BY DEF RowType, Rewritten, Maker

\* A pass goes on or ends; on the hashing embedder it leaves no row behind.
LEMMA ResumedFacts ==
    ASSUME NEW rows \in RowsType, NEW left \in SUBSET (Memories \X Nat), provider' \in Family,
           NEW p \in Resumed(left, rows)
    PROVE  /\ p.job \in JobType /\ p.memory \in RowsType
           /\ p.job # NotRunning => provider' = "st" /\ local' = "ready" /\ p.job.mem \in Memories
           /\ \A m \in Memories : p.memory[m].text = rows[m].text
           /\ provider' = "st" =>
                /\ p.memory = rows
                /\ local' = "ready" => \A r \in left : p.job # NotRunning /\ (p.job.mem = r[1] \/ r \in p.job.rows)
           /\ provider' = "hash" =>
                \A m \in Memories : p.memory[m].model = IF rows[m].text # 0 /\ \E r \in left : r[1] = m
                                                         THEN "hash" ELSE rows[m].model
<1>1. CASE provider' = "st" /\ local' = "ready" /\ left # {}
  <2>1. PICK r \in left : p = [job |-> [rows |-> left \ {r}, mem |-> r[1], text |-> r[2]], memory |-> rows]
    BY <1>1 DEF Resumed
  <2>2. r[1] \in Memories /\ r[2] \in Nat OBVIOUS
  <2>3. p.job = [rows |-> left \ {r}, mem |-> r[1], text |-> r[2]] /\ p.memory = rows BY <2>1
  <2>4. p.job \in JobType BY <2>2, <2>3 DEF JobType
  <2>5. p.job # NotRunning BY <2>2, <2>3, VectorsAssumption DEF NotRunning
  <2>6. \A q \in left : p.job.mem = q[1] \/ q \in p.job.rows BY <2>3
  <2> QED BY <1>1, <2>2, <2>3, <2>4, <2>5, <2>6
<1>2. CASE provider' = "st" /\ ~(local' = "ready" /\ left # {})
  <2>1. p = [job |-> NotRunning, memory |-> rows] BY <1>2 DEF Resumed
  <2> QED BY <1>2, <2>1, IdleIsTyped
<1>3. CASE provider' = "hash"
  <2> DEFINE Made(m) == IF \E r \in left : r[1] = m
                         THEN Rewritten(rows[m], (CHOOSE r \in left : r[1] = m)[2], "hash")
                         ELSE rows[m]
  <2>1. p = [job |-> NotRunning, memory |-> [m \in Memories |-> Made(m)]] BY <1>3 DEF Resumed
  <2>2. ASSUME NEW m \in Memories
        PROVE  /\ Made(m) \in RowType /\ Made(m).text = rows[m].text
               /\ Made(m).model = IF rows[m].text # 0 /\ \E r \in left : r[1] = m THEN "hash" ELSE rows[m].model
    <3>1. rows[m] \in RowType BY DEF RowsType
    <3>2. CASE \E r \in left : r[1] = m
      <4> DEFINE r == CHOOSE r \in left : r[1] = m
      <4>1. r \in left BY <3>2
      <4>2. r[2] \in Nat BY <4>1
      <4>3. Made(m) = Rewritten(rows[m], r[2], "hash") BY <3>2
      <4> HIDE DEF r, Made
      <4>4. "hash" \in Maker BY DEF Maker, Family
      <4>5. rows[m].text = 0 => Made(m) = rows[m] BY <4>3 DEF Rewritten
      <4> QED BY <1>3, <3>1, <3>2, <4>2, <4>3, <4>4, <4>5, RewrittenRow
    <3>3. CASE ~\E r \in left : r[1] = m BY <3>1, <3>3
    <3> QED BY <3>2, <3>3
  <2> HIDE DEF Made
  <2>3. p.memory = [m \in Memories |-> Made(m)] /\ p.job = NotRunning BY <2>1
  <2>4. p.memory \in RowsType BY <2>2, <2>3 DEF RowsType
  <2> QED BY <1>3, <2>2, <2>3, <2>4, IdleIsTyped
<1> QED BY <1>1, <1>2, <1>3 DEF Family

\* What a trigger that starts a pass leaves, on a ready provider.
LEMMA StartsFacts ==
    ASSUME NEW b \in Rebuilds, NEW rows \in RowsType, pass \in [Rebuilds -> JobType], provider' \in Family,
           Starts(b, rows),
           \A c \in Rebuilds \ {b} : pass[c] # NotRunning => local' = "ready" /\ pass[c].mem \in Memories
    PROVE  /\ memory' \in RowsType /\ pass' \in [Rebuilds -> JobType]
           /\ \A c \in Rebuilds : pass'[c] # NotRunning => local' = "ready" /\ pass'[c].mem \in Memories
           /\ \A c \in Rebuilds \ {b} : pass'[c] = pass[c]
           /\ provider' = "st" => memory' = rows
           /\ provider' = "hash" => \A m \in Memories : memory'[m].text # 0 => memory'[m].model = "hash"
           /\ provider' = "st" /\ local' = "ready" =>
                \A m \in Memories : rows[m].text # 0 /\ rows[m].model # "st" =>
                    pass'[b] # NotRunning /\ (pass'[b].mem = m \/ \E r \in pass'[b].rows : r[1] = m)
<1> DEFINE left == Stale(rows, provider')
<1>1. /\ left \in SUBSET (Memories \X Nat)
      /\ \A m \in Memories : rows[m].text # 0 /\ rows[m].model # provider' => \E r \in left : r[1] = m
  BY StaleRows
<1>2. PICK p \in Resumed(left, rows) : pass' = [pass EXCEPT ![b] = p.job] /\ memory' = p.memory
  BY DEF Starts
<1> HIDE DEF left
<1>3. /\ p.job \in JobType /\ p.memory \in RowsType
      /\ p.job # NotRunning => provider' = "st" /\ local' = "ready" /\ p.job.mem \in Memories
      /\ \A m \in Memories : p.memory[m].text = rows[m].text
      /\ provider' = "st" =>
           /\ p.memory = rows
           /\ local' = "ready" => \A r \in left : p.job # NotRunning /\ (p.job.mem = r[1] \/ r \in p.job.rows)
      /\ provider' = "hash" =>
           \A m \in Memories : p.memory[m].model = IF rows[m].text # 0 /\ \E r \in left : r[1] = m
                                                    THEN "hash" ELSE rows[m].model
  BY <1>1, ResumedFacts
<1>4. pass'[b] = p.job /\ \A c \in Rebuilds \ {b} : pass'[c] = pass[c] BY <1>2
<1>5. pass' \in [Rebuilds -> JobType] BY <1>2, <1>3
<1>6. \A c \in Rebuilds : pass'[c] # NotRunning => local' = "ready" /\ pass'[c].mem \in Memories
  BY <1>3, <1>4
<1>7. provider' = "hash" => \A m \in Memories : memory'[m].text # 0 => memory'[m].model = "hash"
  BY <1>1, <1>2, <1>3
<1>8. ASSUME provider' = "st", local' = "ready", NEW m \in Memories, rows[m].text # 0, rows[m].model # "st"
      PROVE  pass'[b] # NotRunning /\ (pass'[b].mem = m \/ \E r \in pass'[b].rows : r[1] = m)
  <2>1. PICK r \in left : r[1] = m BY <1>1, <1>8
  <2> QED BY <1>3, <1>4, <1>8, <2>1
<1> QED BY <1>2, <1>3, <1>4, <1>5, <1>6, <1>7, <1>8

\* The trigger, on a ready provider or on the hashing one: what is behind
\* afterwards is listed, or owed.
LEMMA TriggeredKeeps ==
    ASSUME VectorsInv, Triggered, provider' \in Family,
           pass["trigger"] # NotRunning => local' = "ready",
           \A c \in Rebuilds : pass[c] # NotRunning => local' = "ready"
    PROVE  /\ memory' \in RowsType /\ pass' \in [Rebuilds -> JobType] /\ again' \in BOOLEAN
           /\ \A b \in Rebuilds : pass'[b] # NotRunning => local' = "ready" /\ pass'[b].mem \in Memories
           /\ again' => pass'["trigger"] # NotRunning
           /\ BehindInv'
<1> USE VectorsAssumption
<1>1. CASE pass["trigger"] # NotRunning
  BY <1>1 DEF Triggered, VectorsInv, VectorsTypeInv, RowsType, BehindInv
<1>2. CASE pass["trigger"] = NotRunning
  <2>1. Starts("trigger", memory) /\ again' = again BY <1>2 DEF Triggered
  <2>2. again = FALSE BY <1>2 DEF VectorsInv, VectorsTypeInv
  <2>3. memory \in RowsType /\ pass \in [Rebuilds -> JobType] /\ again \in BOOLEAN
    BY DEF VectorsInv, VectorsTypeInv, RowsType
  <2>4. \A c \in Rebuilds : pass[c] # NotRunning => local' = "ready" /\ pass[c].mem \in Memories
    BY DEF VectorsInv
  <2>5. /\ memory' \in RowsType /\ pass' \in [Rebuilds -> JobType]
        /\ \A c \in Rebuilds : pass'[c] # NotRunning => local' = "ready" /\ pass'[c].mem \in Memories
        /\ provider' = "st" => memory' = memory
        /\ provider' = "hash" => \A m \in Memories : memory'[m].text # 0 => memory'[m].model = "hash"
        /\ provider' = "st" /\ local' = "ready" =>
             \A m \in Memories : memory[m].text # 0 /\ memory[m].model # "st" =>
               pass'["trigger"] # NotRunning
               /\ (pass'["trigger"].mem = m \/ \E r \in pass'["trigger"].rows : r[1] = m)
    BY <2>1, <2>3, <2>4, StartsFacts
  <2>6. BehindInv' BY <2>5 DEF BehindInv, Lags, Listed, Exists, Family
  <2> QED BY <2>1, <2>2, <2>3, <2>5, <2>6
<1> QED BY <1>1, <1>2

\* The model answers a pass.
LEMMA RebuildKeeps ==
    ASSUME VectorsInv, NEW b \in Rebuilds, RebuildAdvances(b)
    PROVE  VectorsInv'
<1> DEFINE job == pass[b]
           rows == [memory EXCEPT ![job.mem] = Rewritten(@, job.text, "st")]
<1>1. /\ provider' = provider /\ local' = local /\ writer' = writer /\ texts' = texts /\ switches' = switches
      /\ job # NotRunning /\ local = "ready" /\ job.mem \in Memories
      /\ job \in JobType /\ job.text \in Nat /\ job.rows \in SUBSET (Memories \X Nat)
      /\ provider' \in Family /\ memory \in RowsType /\ again \in BOOLEAN
      /\ pass \in [Rebuilds -> JobType]
  BY DEF RebuildAdvances, VectorsInv, VectorsTypeInv, RowsType, JobType
<1>2. PICK p \in Resumed(job.rows, rows) :
        IF p.job = NotRunning /\ b = "trigger" /\ again
          THEN again' = FALSE /\ Starts(b, p.memory)
          ELSE /\ pass' = [pass EXCEPT ![b] = p.job]
               /\ memory' = p.memory
               /\ UNCHANGED again
  BY DEF RebuildAdvances
<1> HIDE DEF job
<1>3. /\ rows \in RowsType
      /\ \A m \in Memories : rows[m].text = memory[m].text
      /\ \A m \in Memories : rows[m].model = memory[m].model \/ (rows[m].text # 0 => rows[m].model = provider)
      /\ rows[job.mem].text # 0 => rows[job.mem].model = provider
  <2>1. memory[job.mem] \in RowType /\ "st" \in Maker BY <1>1 DEF RowsType, Maker, Family
  <2>2. LET q == Rewritten(memory[job.mem], job.text, "st")
        IN  q \in RowType /\ q.text = memory[job.mem].text /\ (q.text # 0 => q.model = provider')
    BY <1>1, <2>1, RewrittenRow
  <2> QED BY <1>1, <2>2 DEF RowsType
<1> HIDE DEF rows
<1>4. /\ p.job \in JobType /\ p.memory \in RowsType
      /\ p.job # NotRunning => provider' = "st" /\ local' = "ready" /\ p.job.mem \in Memories
      /\ \A m \in Memories : p.memory[m].text = rows[m].text
      /\ provider' = "st" =>
           /\ p.memory = rows
           /\ local' = "ready" => \A r \in job.rows : p.job # NotRunning /\ (p.job.mem = r[1] \/ r \in p.job.rows)
      /\ provider' = "hash" =>
           \A m \in Memories : p.memory[m].model = IF rows[m].text # 0 /\ \E r \in job.rows : r[1] = m
                                                    THEN "hash" ELSE rows[m].model
  BY <1>1, <1>3, ResumedFacts
<1>5. CASE p.job = NotRunning /\ b = "trigger" /\ again
  <2>1. again' = FALSE /\ Starts("trigger", p.memory) BY <1>2, <1>5
  <2>2. \A c \in Rebuilds \ {"trigger"} : pass[c] # NotRunning => local' = "ready" /\ pass[c].mem \in Memories
    BY <1>1 DEF VectorsInv
  <2>3. "trigger" \in Rebuilds BY VectorsAssumption
  <2>4. /\ memory' \in RowsType /\ pass' \in [Rebuilds -> JobType]
        /\ \A c \in Rebuilds : pass'[c] # NotRunning => local' = "ready" /\ pass'[c].mem \in Memories
        /\ provider' = "st" => memory' = p.memory
        /\ provider' = "hash" => \A m \in Memories : memory'[m].text # 0 => memory'[m].model = "hash"
        /\ provider' = "st" /\ local' = "ready" =>
             \A m \in Memories : p.memory[m].text # 0 /\ p.memory[m].model # "st" =>
               pass'["trigger"] # NotRunning
               /\ (pass'["trigger"].mem = m \/ \E r \in pass'["trigger"].rows : r[1] = m)
    BY <1>1, <1>4, <2>1, <2>2, <2>3, StartsFacts
  <2>5. BehindInv' BY <1>1, <2>4 DEF BehindInv, Lags, Listed, Exists, Family
  <2> QED BY <1>1, <2>1, <2>4, <2>5 DEF VectorsInv, VectorsTypeInv, RowsType
<1>6. CASE ~(p.job = NotRunning /\ b = "trigger" /\ again)
  <2>1. pass' = [pass EXCEPT ![b] = p.job] /\ memory' = p.memory /\ again' = again BY <1>2, <1>6
  <2>2. pass'[b] = p.job /\ \A c \in Rebuilds \ {b} : pass'[c] = pass[c] BY <1>1, <2>1
  <2>3. pass' \in [Rebuilds -> JobType] BY <1>1, <1>4, <2>1
  <2>4. \A c \in Rebuilds : pass'[c] # NotRunning => local' = "ready" /\ pass'[c].mem \in Memories
    BY <1>1, <1>4, <2>2 DEF VectorsInv
  <2>5. again' => pass'["trigger"] # NotRunning
    BY <1>6, <2>1, <2>2, VectorsAssumption DEF VectorsInv
  <2>6. ASSUME NEW m \in Memories, Lags(m)'
        PROVE  pass'["trigger"] # NotRunning /\ (again' \/ (provider' = "st" /\ Listed(m)'))
    <3>1. memory'[m].text # 0 /\ memory'[m].model # provider /\ rows[m].text # 0
      BY <1>1, <1>4, <2>1, <2>6 DEF Lags, Exists
    <3>2. rows[m].model # provider /\ m # job.mem
      BY <1>1, <1>3, <1>4, <2>1, <3>1 DEF Family
    <3>3. Lags(m) BY <1>3, <3>1, <3>2 DEF Lags, Exists
    <3>4. pass["trigger"] # NotRunning /\ (again \/ (provider = "st" /\ Listed(m)))
      BY <1>1, <3>3 DEF VectorsInv, BehindInv
    <3>5. CASE again BY <2>1, <2>5, <3>5
    <3>6. CASE ~again /\ b # "trigger"
      BY <1>1, <2>1, <2>2, <3>4, <3>6, VectorsAssumption DEF Listed
    <3>7. CASE ~again /\ b = "trigger"
      <4>1. job = pass["trigger"] BY <3>7 DEF job
      <4>2. PICK r \in job.rows : r[1] = m BY <3>2, <3>4, <3>7, <4>1 DEF Listed
      <4>3. p.job # NotRunning /\ (p.job.mem = r[1] \/ r \in p.job.rows)
        BY <1>1, <1>4, <3>4, <3>7, <4>2
      <4> QED BY <1>1, <2>2, <3>4, <3>7, <4>2, <4>3, VectorsAssumption DEF Listed
    <3> QED BY <3>5, <3>6, <3>7
  <2>7. BehindInv' BY <2>6 DEF BehindInv
  <2> QED BY <1>1, <1>4, <2>1, <2>3, <2>4, <2>5, <2>7 DEF VectorsInv, VectorsTypeInv, RowsType
<1> QED BY <1>5, <1>6

\* A rebuild asked for by hand.
LEMMA ReindexKeeps ==
    ASSUME VectorsInv, NEW b \in Rebuilds, PressReindex(b)
    PROVE  VectorsInv'
<1>1. /\ provider' = provider /\ local' = local /\ writer' = writer /\ texts' = texts /\ again' = again
      /\ switches' = switches + 1
      /\ b # "trigger" /\ pass[b] = NotRunning /\ Starts(b, memory)
      /\ provider' \in Family /\ memory \in RowsType /\ pass \in [Rebuilds -> JobType]
  BY DEF PressReindex, VectorsInv, VectorsTypeInv, RowsType
<1>2. \A c \in Rebuilds \ {b} : pass[c] # NotRunning => local' = "ready" /\ pass[c].mem \in Memories
  BY <1>1 DEF VectorsInv
<1>3. /\ memory' \in RowsType /\ pass' \in [Rebuilds -> JobType]
      /\ \A c \in Rebuilds : pass'[c] # NotRunning => local' = "ready" /\ pass'[c].mem \in Memories
      /\ \A c \in Rebuilds \ {b} : pass'[c] = pass[c]
      /\ provider' = "st" => memory' = memory
      /\ provider' = "hash" => \A m \in Memories : memory'[m].text # 0 => memory'[m].model = "hash"
  BY <1>1, <1>2, StartsFacts
<1>4. pass'["trigger"] = pass["trigger"] BY <1>1, <1>3, VectorsAssumption
<1>5. BehindInv'
  BY <1>1, <1>3, <1>4 DEF VectorsInv, BehindInv, Lags, Listed, Exists, Family
<1> QED BY <1>1, <1>3, <1>4, <1>5 DEF VectorsInv, VectorsTypeInv, RowsType

\* A write leaves no row behind a provider that is ready: it names the live
\* one, or is left pending because that one is not.
LEMMA WritesKeep ==
    ASSUME VectorsInv, UNCHANGED <<provider, local, again, pass, switches>>,
           memory' \in RowsType, writer' \in [Writers -> ErrandType], texts' \in Nat,
           \A w \in Writers : writer'[w] # Quiet => writer'[w].mem \in Memories /\ writer'[w].op # "none",
           \A m \in Memories : \/ memory'[m] = memory[m]
                               \/ memory'[m].text = 0
                               \/ memory'[m].model = provider
                               \/ provider = "st" /\ local # "ready"
    PROVE  VectorsInv'
<1>1. BehindInv'
  BY DEF VectorsInv, VectorsTypeInv, BehindInv, Lags, Listed, Exists, Family
<1> QED BY <1>1 DEF VectorsInv, VectorsTypeInv, RowsType

\* A memory is written, and its vector asked for.
LEMMA WriteKeeps ==
    ASSUME VectorsInv, NEW w \in Writers, NEW m \in Memories,
           NEW op \in {"create", "update", "reconcile"}, Write(w, m, op)
    PROVE  VectorsInv'
<1>1. /\ UNCHANGED <<provider, local, again, pass, switches>>
      /\ texts' = texts + 1 /\ texts \in Nat /\ provider \in Family
      /\ memory \in RowsType /\ writer \in [Writers -> ErrandType]
  BY DEF Write, VectorsInv, VectorsTypeInv, RowsType
<1>2. CASE provider = "st" /\ local = "ready"
  <2> DEFINE errand == [mem |-> m, op |-> op, text |-> texts + 1, seen |-> memory[m].text]
  <2>1. writer' = [writer EXCEPT ![w] = errand] /\ memory' = memory BY <1>2 DEF Write
  <2>2. errand \in ErrandType /\ errand.mem = m /\ errand.op = op
    BY <1>1 DEF ErrandType, RowsType, RowType
  <2> HIDE DEF errand
  <2>3. writer' \in [Writers -> ErrandType] BY <1>1, <2>1, <2>2
  <2>4. \A v \in Writers : writer'[v] # Quiet => writer'[v].mem \in Memories /\ writer'[v].op # "none"
    BY <1>1, <2>1, <2>2 DEF VectorsInv
  <2> QED BY <1>1, <2>1, <2>3, <2>4, WritesKeep
<1>3. CASE ~(provider = "st" /\ local = "ready")
  <2> DEFINE row == IF provider = "st" THEN [NoRow EXCEPT !.text = texts + 1]
                    ELSE [text |-> texts + 1, of |-> texts + 1, by |-> "hash", model |-> "hash"]
  <2>1. memory' = [memory EXCEPT ![m] = row] /\ writer' = writer BY <1>3 DEF Write
  <2>2. row \in RowType /\ (provider = "hash" => row.model = "hash")
    BY <1>1 DEF RowType, NoRow, Maker, Family
  <2> HIDE DEF row
  <2>3. memory' \in RowsType BY <1>1, <2>1, <2>2 DEF RowsType
  <2>4. \A n \in Memories : \/ memory'[n] = memory[n] \/ memory'[n].model = provider
                            \/ provider = "st" /\ local # "ready"
    BY <1>1, <1>3, <2>1, <2>2 DEF RowsType, Family
  <2> QED BY <1>1, <2>1, <2>3, <2>4, WritesKeep DEF VectorsInv
<1> QED BY <1>2, <1>3

\* The vector of a written memory arrives.
LEMMA WrittenKeeps ==
    ASSUME VectorsInv, NEW w \in Writers, Written(w)
    PROVE  VectorsInv'
<1> DEFINE job == writer[w]
           row == [text |-> job.text, of |-> job.text, by |-> "st", model |-> provider]
<1>1. /\ UNCHANGED <<provider, local, again, pass, texts, switches>>
      /\ writer' = [writer EXCEPT ![w] = Quiet]
      /\ job # Quiet /\ job.mem \in Memories /\ job.text \in Nat
      /\ memory \in RowsType /\ writer \in [Writers -> ErrandType] /\ provider \in Family /\ texts \in Nat
  BY DEF Written, VectorsInv, VectorsTypeInv, RowsType, ErrandType
<1>2. row \in RowType /\ row.model = provider BY <1>1 DEF RowType, Maker, Family
<1>3. memory' = [memory EXCEPT ![job.mem] = row] \/ memory' = memory BY DEF Written
<1> HIDE DEF row
<1>4. memory' \in RowsType BY <1>1, <1>2, <1>3 DEF RowsType
<1>5. \A n \in Memories : memory'[n] = memory[n] \/ memory'[n].model = provider
  BY <1>1, <1>2, <1>3 DEF RowsType
<1>6. writer' \in [Writers -> ErrandType] BY <1>1, IdleIsTyped
<1>7. \A v \in Writers : writer'[v] # Quiet => writer'[v].mem \in Memories /\ writer'[v].op # "none"
  BY <1>1 DEF VectorsInv
<1> QED BY <1>1, <1>4, <1>5, <1>6, <1>7, WritesKeep

\* Every step keeps every row of another model within reach of a rebuild.
LEMMA VectorsStep == VectorsInv /\ [VectorsNext]_vectorVars => VectorsInv'
<1> SUFFICES ASSUME VectorsInv, [VectorsNext]_vectorVars PROVE VectorsInv'
  OBVIOUS
<1>0. /\ VectorsTypeInv /\ memory \in RowsType
      /\ \A b \in Rebuilds : pass[b] # NotRunning => local = "ready" /\ pass[b].mem \in Memories
  BY DEF VectorsInv, VectorsTypeInv, RowsType
<1>1. ASSUME NEW b \in Rebuilds, RebuildAdvances(b) PROVE VectorsInv' BY <1>1, RebuildKeeps
<1>2. ASSUME NEW b \in Rebuilds, PressReindex(b) PROVE VectorsInv' BY <1>2, ReindexKeeps
<1>3. ASSUME NEW family \in Family, Apply(family) PROVE VectorsInv'
  <2>1. /\ provider' = family /\ writer' = writer /\ texts' = texts /\ switches' = switches + 1
        /\ local' = IF family = "st" /\ local \in {"none", "lexical-only"} THEN "loading" ELSE local
        /\ provider # family
    BY <1>3 DEF Apply
  <2>2. local = "ready" => local' = "ready" BY <2>1
  <2>3. local' \in {"none", "loading", "ready", "lexical-only"} BY <1>0, <2>1 DEF VectorsTypeInv
  <2>4. CASE family = "hash" \/ local' = "ready"
    <3>1. Triggered BY <1>3, <2>4 DEF Apply
    <3>2. /\ memory' \in RowsType /\ pass' \in [Rebuilds -> JobType] /\ again' \in BOOLEAN
          /\ \A b \in Rebuilds : pass'[b] # NotRunning => local' = "ready" /\ pass'[b].mem \in Memories
          /\ again' => pass'["trigger"] # NotRunning
          /\ BehindInv'
      BY <1>0, <2>1, <2>2, <3>1, TriggeredKeeps, VectorsAssumption
    <3> QED BY <1>0, <2>1, <2>3, <3>2 DEF VectorsInv, VectorsTypeInv, RowsType
  <2>5. CASE ~(family = "hash" \/ local' = "ready")
    <3>1. UNCHANGED <<again, pass, memory>> BY <1>3, <2>5 DEF Apply
    <3>2. BehindInv' BY <2>1, <2>5 DEF BehindInv, Family
    <3> QED BY <1>0, <2>1, <2>2, <2>3, <2>5, <3>1, <3>2 DEF VectorsInv, VectorsTypeInv
  <2> QED BY <2>4, <2>5
<1>4. CASE ModelLoads
  <2>1. /\ provider' = provider /\ writer' = writer /\ texts' = texts /\ switches' = switches
        /\ local' = "ready" /\ Triggered
    BY <1>4 DEF ModelLoads
  <2>2. provider' \in Family BY <1>0, <2>1 DEF VectorsTypeInv
  <2>3. /\ memory' \in RowsType /\ pass' \in [Rebuilds -> JobType] /\ again' \in BOOLEAN
        /\ \A b \in Rebuilds : pass'[b] # NotRunning => local' = "ready" /\ pass'[b].mem \in Memories
        /\ again' => pass'["trigger"] # NotRunning
        /\ BehindInv'
    BY <1>0, <2>1, <2>2, TriggeredKeeps
  <2> QED BY <1>0, <2>1, <2>3 DEF VectorsInv, VectorsTypeInv, RowsType
<1>5. CASE ModelGivesUp
  <2>1. BehindInv'
    BY <1>5 DEF ModelGivesUp, VectorsInv, BehindInv, Lags, Listed, Exists
  <2> QED BY <1>5, <2>1 DEF ModelGivesUp, VectorsInv, VectorsTypeInv
<1>6. CASE Reboot
  <2> DEFINE left == Stale(memory, provider')
  <2>1. /\ provider' = provider /\ texts' = texts /\ switches' = switches + 1
        /\ local' = (IF provider = "st" THEN "loading" ELSE "none")
        /\ writer' = [w \in Writers |-> Quiet] /\ again' = FALSE
        /\ pass' = [b \in Rebuilds |-> NotRunning]
    BY <1>6 DEF Reboot
  <2>2. PICK p \in Resumed(left, memory) : memory' = p.memory BY <1>6 DEF Reboot
  <2>3. /\ left \in SUBSET (Memories \X Nat)
        /\ \A m \in Memories : memory[m].text # 0 /\ memory[m].model # provider' => \E r \in left : r[1] = m
    BY <1>0, StaleRows
  <2>4. provider' \in Family BY <1>0, <2>1 DEF VectorsTypeInv
  <2> HIDE DEF left
  <2>5. /\ p.memory \in RowsType
        /\ \A m \in Memories : p.memory[m].text = memory[m].text
        /\ provider' = "hash" =>
             \A m \in Memories : p.memory[m].model = IF memory[m].text # 0 /\ \E r \in left : r[1] = m
                                                      THEN "hash" ELSE memory[m].model
    BY <1>0, <2>3, <2>4, ResumedFacts
  <2>6. BehindInv'
    BY <2>1, <2>2, <2>3, <2>4, <2>5 DEF BehindInv, Lags, Exists, Family
  <2>7. pass' \in [Rebuilds -> JobType] /\ writer' \in [Writers -> ErrandType]
    BY <2>1, IdleIsTyped
  <2>81. memory' \in [Memories -> RowType] BY <2>2, <2>5 DEF RowsType
  <2>82. local' \in {"none", "loading", "ready", "lexical-only"} BY <2>1
  <2>83. again' \in BOOLEAN BY <2>1
  <2>84. texts' \in Nat /\ switches' \in Nat BY <1>0, <2>1 DEF VectorsTypeInv
  <2>8. VectorsTypeInv' BY <2>4, <2>7, <2>81, <2>82, <2>83, <2>84 DEF VectorsTypeInv
  <2>9. /\ \A b \in Rebuilds : pass'[b] = NotRunning
        /\ \A w \in Writers : writer'[w] = Quiet
    BY <2>1
  <2> QED BY <2>1, <2>6, <2>8, <2>9 DEF VectorsInv
<1>7. ASSUME NEW w \in Writers, NEW m \in Memories, NEW op \in {"create", "update", "reconcile"}, Write(w, m, op)
      PROVE VectorsInv'
  BY <1>7, WriteKeeps
<1>8. ASSUME NEW w \in Writers, Written(w) PROVE VectorsInv' BY <1>8, WrittenKeeps
<1>9. ASSUME NEW m \in Memories, Forget(m) PROVE VectorsInv'
  <2>1. /\ UNCHANGED <<provider, local, again, pass, switches, writer, texts>>
        /\ memory' = [memory EXCEPT ![m] = NoRow]
    BY <1>9 DEF Forget
  <2>2. memory' \in RowsType BY <1>0, <2>1, IdleIsTyped DEF RowsType
  <2>3. \A n \in Memories : memory'[n] = memory[n] \/ memory'[n].text = 0
    BY <1>0, <2>1 DEF RowsType, NoRow
  <2> QED BY <1>0, <2>1, <2>2, <2>3, WritesKeep DEF VectorsInv, VectorsTypeInv
<1>10. CASE UNCHANGED vectorVars
  BY <1>10 DEF vectorVars, VectorsInv, VectorsTypeInv, BehindInv, Lags, Listed, Exists
<1> QED
  BY <1>1, <1>2, <1>3, <1>4, <1>5, <1>6, <1>7, <1>8, <1>9, <1>10 DEF VectorsNext, Family

\* Every row bears the live model at first.
LEMMA VectorsStart == VectorsInit => VectorsInv
<1> SUFFICES ASSUME VectorsInit PROVE VectorsInv
  OBVIOUS
<1>1. VectorsTypeInv BY IdleIsTyped DEF VectorsInit, VectorsTypeInv, Family
<1>2. BehindInv BY DEF VectorsInit, BehindInv, Lags, Exists, NoRow
<1> QED BY <1>1, <1>2 DEF VectorsInit, VectorsInv

\* The rebuilds catch up: when nothing is in flight on a ready provider, no
\* memory is left under another one's id, for any number of memories,
\* writers and rebuilds, and any history of switches and restarts.
THEOREM RebuildsCatchUp == VectorsSpec => []NoRowIsLeftBehind
<1>1. VectorsInv => NoRowIsLeftBehind
  BY VectorsAssumption DEF VectorsInv, BehindInv, Lags, Exists, NoRowIsLeftBehind, Stale
<1> QED BY <1>1, VectorsStart, VectorsStep, PTL DEF VectorsSpec

-----------------------------------------------------------------------------
(* Consolidation: what a fold rewrites *)

IsInsight(r) == r = [group |-> r.group, prints |-> r.prints, winner |-> r.winner,
                     text |-> r.text, read |-> r.read, applied |-> r.applied]

IsSeq(s) == \E S : s \in Seq(S)

\* What can be pressed has the prints of what the arbiter read, and a survivor
\* among them.
InsightInv ==
    /\ IsSeq(filed)
    /\ \A i \in 1..Len(filed) :
         /\ IsInsight(filed[i])
         /\ filed[i].text # 0 => filed[i].prints = filed[i].read /\ filed[i].winner \in DOMAIN filed[i].prints
         /\ DOMAIN filed[i].prints \subseteq Facts

\* A fold that waits carries the survivor its insight names, as it was read.
CallOf(job) ==
    job.op = "fold" =>
        /\ job.insight \in 1..Len(filed)
        /\ job.winner = filed[job.insight].winner
        /\ job.read[job.winner].text = filed[job.insight].read[job.winner]
        /\ job.winner \in DOMAIN job.read /\ DOMAIN job.read \subseteq Facts

CallsInv ==
    /\ IsSeq(calls)
    /\ \A k \in 1..Len(calls) : CallOf(calls[k])

FoldInv == InsightInv /\ CallsInv

\* The parts of a sequence whatever its elements, and of one it grows to.
LEMMA SeqFacts ==
    ASSUME NEW s, IsSeq(s)
    PROVE  /\ Len(s) \in Nat /\ DOMAIN s = 1..Len(s)
           /\ \A e : /\ IsSeq(Append(s, e)) /\ Len(Append(s, e)) = Len(s) + 1
                     /\ \A i \in 1..Len(s) : Append(s, e)[i] = s[i]
                     /\ Append(s, e)[Len(s) + 1] = e
           /\ s # <<>> => /\ IsSeq(Tail(s)) /\ Len(Tail(s)) = Len(s) - 1
                          /\ \A i \in 1..Len(s) - 1 : Tail(s)[i] = s[i + 1]
                          /\ Head(s) = s[1] /\ 1 \in 1..Len(s)
<1>1. PICK S : s \in Seq(S) BY DEF IsSeq
<1>2. ASSUME NEW e
      PROVE  /\ IsSeq(Append(s, e)) /\ Len(Append(s, e)) = Len(s) + 1
             /\ \A i \in 1..Len(s) : Append(s, e)[i] = s[i]
             /\ Append(s, e)[Len(s) + 1] = e
  <2>1. s \in Seq(S \cup {e}) BY <1>1, SeqMonotonic
  <2>2. Append(s, e) \in Seq(S \cup {e}) BY <2>1
  <2> QED BY <2>1, <2>2 DEF IsSeq
<1>3. ASSUME s # <<>>
      PROVE  /\ IsSeq(Tail(s)) /\ Len(Tail(s)) = Len(s) - 1
             /\ \A i \in 1..Len(s) - 1 : Tail(s)[i] = s[i + 1]
             /\ Head(s) = s[1] /\ 1 \in 1..Len(s)
  <2>1. Tail(s) \in Seq(S) BY <1>1, <1>3
  <2> QED BY <1>1, <1>3, <2>1 DEF IsSeq
<1> QED BY <1>1, <1>2, <1>3

\* Marking an insight changes nothing else of it.
Marked(i, b) == [filed EXCEPT ![i].applied = b]

\* An insight changes state: what was read for it stays.
LEMMA MarkedKeeps ==
    ASSUME InsightInv, NEW i \in DOMAIN filed, NEW b, filed' = Marked(i, b)
    PROVE  /\ InsightInv'
           /\ Len(filed') = Len(filed)
           /\ \A j \in 1..Len(filed) : /\ filed'[j].winner = filed[j].winner
                                       /\ filed'[j].read = filed[j].read
                                       /\ j # i => filed'[j] = filed[j]
<1>1. /\ Len(filed) \in Nat /\ DOMAIN filed = 1..Len(filed)
      /\ \A j \in 1..Len(filed) : IsInsight(filed[j])
  BY SeqFacts DEF InsightInv
<1>2. PICK S : filed \in Seq(S) BY DEF InsightInv, IsSeq
<1> DEFINE e == [group |-> filed[i].group, prints |-> filed[i].prints, winner |-> filed[i].winner,
                 text |-> filed[i].text, read |-> filed[i].read, applied |-> b]
<1>3. [filed[i] EXCEPT !.applied = b] = e
  <2>1. filed[i] = [group |-> filed[i].group, prints |-> filed[i].prints, winner |-> filed[i].winner,
                    text |-> filed[i].text, read |-> filed[i].read, applied |-> filed[i].applied]
    BY <1>1 DEF IsInsight
  <2> QED BY <2>1
<1>4. filed' = [filed EXCEPT ![i] = e] BY <1>3 DEF Marked
<1>5. filed \in Seq(S \cup {e}) BY <1>2, SeqMonotonic
<1>6. /\ filed' \in Seq(S \cup {e}) /\ Len(filed') = Len(filed)
      /\ \A j \in 1..Len(filed) : filed'[j] = IF j = i THEN e ELSE filed[j]
  <2> HIDE DEF e
  <2> QED BY <1>1, <1>4, <1>5, ExceptSeq
<1>7. IsSeq(filed)' BY <1>6 DEF IsSeq
<1>8. ASSUME NEW j \in 1..Len(filed')
      PROVE  /\ IsInsight(filed[j])'
             /\ filed'[j].text = filed[j].text /\ filed'[j].prints = filed[j].prints
             /\ filed'[j].winner = filed[j].winner /\ filed'[j].read = filed[j].read
  BY <1>1, <1>6 DEF IsInsight
<1> QED BY <1>6, <1>7, <1>8 DEF InsightInv

\* The calls stay valid when the insights keep what the calls name.
LEMMA CallsKeep ==
    ASSUME CallsInv, UNCHANGED calls, Len(filed) \in Nat, Len(filed') \in Nat, Len(filed) <= Len(filed'),
           \A j \in 1..Len(filed) : filed'[j].winner = filed[j].winner /\ filed'[j].read = filed[j].read
    PROVE  CallsInv'
<1>1. ASSUME NEW k \in 1..Len(calls), calls[k].op = "fold"
      PROVE  /\ calls[k].insight \in 1..Len(filed')
             /\ filed'[calls[k].insight].winner = filed[calls[k].insight].winner
             /\ filed'[calls[k].insight].read = filed[calls[k].insight].read
             /\ CallOf(calls[k])
  BY <1>1 DEF CallsInv, CallOf
<1> QED BY <1>1 DEF CallsInv, CallOf

\* The call at the head of the queue is done.
LEMMA CallLeaves ==
    ASSUME CallsInv, calls # <<>>, calls' = Tail(calls), Len(filed') = Len(filed),
           \A j \in 1..Len(filed) : filed'[j].winner = filed[j].winner /\ filed'[j].read = filed[j].read
    PROVE  CallsInv'
<1>1. /\ Len(calls) \in Nat /\ IsSeq(calls') /\ Len(calls') = Len(calls) - 1
      /\ \A k \in 1..Len(calls) - 1 : calls'[k] = calls[k + 1]
  BY SeqFacts DEF CallsInv
<1>2. ASSUME NEW k \in 1..Len(calls') PROVE CallOf(calls[k])'
  <2>1. k + 1 \in 1..Len(calls) /\ calls'[k] = calls[k + 1] BY <1>1
  <2>2. CallOf(calls[k + 1]) BY <2>1 DEF CallsInv
  <2> QED BY <2>1, <2>2 DEF CallOf
<1> QED BY <1>1, <1>2 DEF CallsInv

\* A call joins the queue.
LEMMA CallJoins ==
    ASSUME CallsInv, NEW job, calls' = Append(calls, job), UNCHANGED filed, CallOf(job)
    PROVE  CallsInv'
<1>1. /\ Len(calls) \in Nat /\ IsSeq(calls') /\ Len(calls') = Len(calls) + 1
      /\ \A k \in 1..Len(calls) : calls'[k] = calls[k]
      /\ calls'[Len(calls) + 1] = job
  BY SeqFacts DEF CallsInv
<1>2. ASSUME NEW k \in 1..Len(calls') PROVE CallOf(calls[k])'
  <2>1. CASE k \in 1..Len(calls)
    BY <1>1, <2>1 DEF CallsInv, CallOf
  <2>2. CASE k = Len(calls) + 1
    BY <1>1, <2>2 DEF CallOf
  <2> QED BY <1>1, <2>1, <2>2
<1> QED BY <1>1, <1>2 DEF CallsInv

ReadOf(i) == fact[filed[i].winner].text = filed[i].read[filed[i].winner]

\* The arbiter answers a group of a sweep.
LEMMA ArbiterKeeps ==
    ASSUME FoldInv, NEW p \in Passes, NEW g \in sweep[p].groups, ArbiterAnswers(p, g)
    PROVE  FoldInv'
<1>1. Len(filed) \in Nat /\ DOMAIN filed = 1..Len(filed)
  BY SeqFacts DEF FoldInv, InsightInv
<1>2. CASE UNCHANGED filed
  <2>1. InsightInv' BY <1>2 DEF FoldInv, InsightInv, IsInsight
  <2>2. UNCHANGED calls BY DEF ArbiterAnswers
  <2>3. CallsInv' BY <1>2, <2>2 DEF FoldInv, CallsInv, CallOf
  <2> QED BY <2>1, <2>3 DEF FoldInv
<1>3. ASSUME NEW i \in Proposals(g, sweep[p].seen) \cup {Unpressable(g)}, filed' = Append(filed, i)
      PROVE  FoldInv'
  <2>1. /\ IsInsight(i)
        /\ i.text # 0 => i.prints = i.read /\ i.winner \in DOMAIN i.prints
        /\ DOMAIN i.prints \subseteq Facts
    <3>1. CASE i = Unpressable(g) BY <3>1 DEF Unpressable, IsInsight
    <3>2. CASE i \in Proposals(g, sweep[p].seen)
      <4> DEFINE Of(members) ==
              [group : {g}, prints : {[m \in members |-> Fingerprint(sweep[p].seen, m)]}, winner : members,
               text : {sweep[p].seen[m] : m \in members} \cup {editions + 1},
               read : {[m \in members |-> sweep[p].seen[m]]}, applied : {FALSE}]
      <4>1. PICK members \in SUBSET Facts : i \in Of(members) BY <3>2 DEF Proposals, Standing
      <4>2. i.prints = [m \in members |-> sweep[p].seen[m]] BY <4>1 DEF Fingerprint
      <4>3. i.read = [m \in members |-> sweep[p].seen[m]] BY <4>1
      <4>4. i.winner \in members BY <4>1
      <4>5. IsInsight(i) BY <4>1 DEF IsInsight
      <4> QED BY <4>2, <4>3, <4>4, <4>5
    <3> QED BY <3>1, <3>2
  <2>2. /\ IsSeq(filed') /\ Len(filed') = Len(filed) + 1
        /\ \A j \in 1..Len(filed) : filed'[j] = filed[j]
        /\ filed'[Len(filed) + 1] = i
    BY <1>3, SeqFacts DEF FoldInv, InsightInv
  <2>3. ASSUME NEW j \in 1..Len(filed')
        PROVE  /\ IsInsight(filed'[j])
               /\ filed'[j].text # 0 => filed'[j].prints = filed'[j].read
                                        /\ filed'[j].winner \in DOMAIN filed'[j].prints
               /\ DOMAIN filed'[j].prints \subseteq Facts
    <3>1. CASE j \in 1..Len(filed)
      <4>1. filed'[j] = filed[j] BY <2>2, <3>1
      <4> QED BY <3>1, <4>1 DEF FoldInv, InsightInv
    <3>2. CASE j = Len(filed) + 1 BY <2>1, <2>2, <3>2
    <3> QED BY <1>1, <2>2, <3>1, <3>2
  <2>4. InsightInv' BY <2>2, <2>3 DEF InsightInv, IsInsight
  <2>5. CallsInv' BY <1>1, <2>2, CallsKeep DEF FoldInv, ArbiterAnswers
  <2> QED BY <2>4, <2>5 DEF FoldInv
<1> QED BY <1>2, <1>3 DEF ArbiterAnswers

\* A decision is pressed on a filed insight.
LEMMA PressKeeps ==
    ASSUME FoldInv, NEW i \in DOMAIN filed, Press(i)
    PROVE  FoldInv' /\ \A j \in DOMAIN filed : Folding(j) => ReadOf(j)
<1>1. Len(filed) \in Nat /\ DOMAIN filed = 1..Len(filed)
  BY SeqFacts DEF FoldInv, InsightInv
<1> DEFINE job == [op |-> "fold", insight |-> i, winner |-> filed[i].winner, text |-> filed[i].text,
                   read |-> [m \in DOMAIN filed[i].prints |-> fact[m]]]
<1>2. /\ filed[i].prints = filed[i].read /\ filed[i].winner \in DOMAIN filed[i].prints
      /\ fact[filed[i].winner].text = filed[i].prints[filed[i].winner]
      /\ DOMAIN filed[i].prints \subseteq Facts
  BY <1>1 DEF FoldInv, InsightInv, Press
<1>3. ReadOf(i) /\ CallOf(job)
  BY <1>1, <1>2 DEF ReadOf, CallOf
<1>4. CASE calls' = Append(calls, job) /\ UNCHANGED <<fact, filed>>
  <2>1. CallsInv' 
    <3> HIDE DEF job
    <3> QED BY <1>3, <1>4, CallJoins DEF FoldInv
  <2>2. InsightInv' BY <1>4 DEF FoldInv, InsightInv, IsInsight
  <2> QED BY <1>4, <2>1, <2>2 DEF FoldInv, Folding
<1>5. CASE Folds(job) /\ UNCHANGED calls
  <2>1. filed' = Marked(i, TRUE) BY <1>5 DEF Folds, Marked
  <2>2. /\ InsightInv' /\ Len(filed') = Len(filed)
        /\ \A j \in 1..Len(filed) : /\ filed'[j].winner = filed[j].winner
                                    /\ filed'[j].read = filed[j].read
                                    /\ j # i => filed'[j] = filed[j]
    BY <2>1, MarkedKeeps DEF FoldInv
  <2>3. CallsInv' BY <1>1, <1>5, <2>2, CallsKeep DEF FoldInv
  <2> QED BY <1>1, <1>3, <1>5, <2>2, <2>3 DEF FoldInv, Folding
<1> QED BY <1>4, <1>5 DEF Press

\* A fold reaches the store.
LEMMA FoldLandsKeeps ==
    ASSUME FoldInv, FoldLands
    PROVE  FoldInv' /\ \A j \in DOMAIN filed : Folding(j) => ReadOf(j)
<1>1. Len(filed) \in Nat /\ DOMAIN filed = 1..Len(filed)
  BY SeqFacts DEF FoldInv, InsightInv
<1> DEFINE job == Head(calls)
<1>2. job = calls[1] /\ 1 \in 1..Len(calls) /\ job.op = "fold" /\ calls' = Tail(calls)
  BY SeqFacts DEF FoldInv, CallsInv, FoldLands
<1>3. /\ job.insight \in 1..Len(filed)
      /\ job.winner = filed[job.insight].winner
      /\ job.read[job.winner].text = filed[job.insight].read[job.winner]
  BY <1>2 DEF FoldInv, CallsInv, CallOf
<1>4. ReadOf(job.insight) BY <1>3 DEF FoldLands, Drifted, ReadOf
<1>5. filed' = Marked(job.insight, TRUE) BY DEF FoldLands, Folds, Marked
<1>6. /\ InsightInv' /\ Len(filed') = Len(filed)
      /\ \A j \in 1..Len(filed) : /\ filed'[j].winner = filed[j].winner
                                  /\ filed'[j].read = filed[j].read
                                  /\ j # job.insight => filed'[j] = filed[j]
  <2>1. InsightInv /\ job.insight \in DOMAIN filed BY <1>1, <1>3 DEF FoldInv
  <2> HIDE DEF job
  <2> QED BY <1>5, <2>1, MarkedKeeps
<1>7. CallsInv' BY <1>2, <1>6, CallLeaves DEF FoldInv, FoldLands
<1>8. ASSUME NEW j \in DOMAIN filed, Folding(j) PROVE j = job.insight
  BY <1>1, <1>6, <1>8 DEF Folding
<1> QED BY <1>4, <1>6, <1>7, <1>8 DEF FoldInv

\* Every step keeps the folds to what the arbiter read.
LEMMA FoldStep ==
    FoldInv /\ [ConsolidationNext]_consolidationVars
    => FoldInv' /\ \A i \in DOMAIN filed : Folding(i) => ReadOf(i)
<1> SUFFICES ASSUME FoldInv, [ConsolidationNext]_consolidationVars
             PROVE  FoldInv' /\ \A i \in DOMAIN filed : Folding(i) => ReadOf(i)
  OBVIOUS
<1>1. Len(filed) \in Nat /\ DOMAIN filed = 1..Len(filed)
  BY SeqFacts DEF FoldInv, InsightInv
<1>2. ASSUME UNCHANGED <<filed, calls>>
      PROVE  FoldInv' /\ \A i \in DOMAIN filed : Folding(i) => ReadOf(i)
  BY <1>2 DEF FoldInv, InsightInv, IsInsight, CallsInv, CallOf, Folding
<1>3. ASSUME UNCHANGED filed, calls # <<>>, calls' = Tail(calls)
      PROVE  FoldInv'
  <2>1. InsightInv' BY <1>3 DEF FoldInv, InsightInv, IsInsight
  <2> QED BY <1>3, <2>1, CallLeaves DEF FoldInv
<1>4. ASSUME NEW p \in Passes, SweepBegins(p) \/ ArbiterIsLost(p)
      PROVE  FoldInv' /\ \A i \in DOMAIN filed : Folding(i) => ReadOf(i)
  BY <1>2, <1>4 DEF SweepBegins, ArbiterIsLost
<1>5. ASSUME NEW p \in Passes, NEW g \in sweep[p].groups, ArbiterAnswers(p, g)
      PROVE  FoldInv' /\ \A i \in DOMAIN filed : Folding(i) => ReadOf(i)
  <2>1. UNCHANGED fact BY <1>5 DEF ArbiterAnswers
  <2> QED BY <1>5, <2>1, ArbiterKeeps DEF Folding
<1>6. ASSUME NEW i \in DOMAIN filed, SetStatus(i)
      PROVE  FoldInv' /\ \A j \in DOMAIN filed : Folding(j) => ReadOf(j)
  <2>1. filed' = Marked(i, ~filed[i].applied) BY <1>6 DEF SetStatus, Marked
  <2>2. /\ InsightInv' /\ Len(filed') = Len(filed)
        /\ \A j \in 1..Len(filed) : filed'[j].winner = filed[j].winner /\ filed'[j].read = filed[j].read
    BY <1>6, <2>1, MarkedKeeps DEF FoldInv
  <2>3. CallsInv' BY <1>1, <1>6, <2>2, CallsKeep DEF FoldInv, SetStatus
  <2> QED BY <1>6, <2>2, <2>3 DEF FoldInv, SetStatus, Folding
<1>7. ASSUME NEW i \in DOMAIN filed, Press(i)
      PROVE  FoldInv' /\ \A j \in DOMAIN filed : Folding(j) => ReadOf(j)
  BY <1>7, PressKeeps
<1>8. CASE FoldLands BY <1>8, FoldLandsKeeps
<1>9. CASE EditLands
  <2>1. FoldInv' BY <1>3, <1>9 DEF EditLands
  <2> QED BY <1>9, <2>1 DEF EditLands, Folding
<1>10. CASE CallEndsInVain
  BY <1>3, <1>10 DEF CallEndsInVain, Folding
<1>11. CASE SwitchEmbedder BY <1>2, <1>11 DEF SwitchEmbedder
<1>12. ASSUME NEW m \in Facts, Edit(m)
       PROVE  FoldInv' /\ \A i \in DOMAIN filed : Folding(i) => ReadOf(i)
  <2>1. CASE modelReady
    <3> DEFINE job == [op |-> "edit", fact |-> m, text |-> editions']
    <3>1. calls' = Append(calls, job) /\ UNCHANGED <<filed, fact>> BY <1>12, <2>1 DEF Edit
    <3>2. CallOf(job) BY DEF CallOf
    <3>3. CallsInv'
      <4> HIDE DEF job
      <4> QED BY <3>1, <3>2, CallJoins DEF FoldInv
    <3>4. InsightInv' BY <3>1 DEF FoldInv, InsightInv, IsInsight
    <3> QED BY <3>1, <3>3, <3>4 DEF FoldInv, Folding
  <2>2. CASE ~modelReady BY <1>2, <1>12, <2>2 DEF Edit
  <2> QED BY <2>1, <2>2
<1>13. ASSUME NEW m \in Facts, DeleteFact(m)
       PROVE  FoldInv' /\ \A i \in DOMAIN filed : Folding(i) => ReadOf(i)
  BY <1>2, <1>13 DEF DeleteFact
<1>14. ASSUME NEW r \in Recalls, NEW S \in SUBSET Facts, Recall(r, S)
       PROVE  FoldInv' /\ \A i \in DOMAIN filed : Folding(i) => ReadOf(i)
  BY <1>2, <1>14 DEF Recall
<1>15. CASE UNCHANGED consolidationVars
  BY <1>2, <1>15 DEF consolidationVars
<1> QED
  BY <1>4, <1>5, <1>6, <1>7, <1>8, <1>9, <1>10, <1>11, <1>12, <1>13, <1>14, <1>15
  DEF ConsolidationNext

\* Nothing is filed and nothing is called at first.
LEMMA FoldStart == ConsolidationInit => FoldInv
<1> SUFFICES ASSUME ConsolidationInit PROVE FoldInv
  OBVIOUS
<1>1. filed = <<>> /\ calls = <<>> /\ IsSeq(<<>>) /\ Len(<<>>) = 0
  <2>1. <<>> \in Seq({}) OBVIOUS
  <2> QED BY <2>1 DEF ConsolidationInit, IsSeq
<1> QED BY <1>1 DEF FoldInv, InsightInv, CallsInv

\* Whatever is edited, pressed, deleted or filed while the arbiter and the
\* model are awaited, and in whatever order, a survivor is only ever rewritten
\* over the text the arbiter judged.
THEOREM SurvivorsWereRead == ConsolidationSpec => SurvivorIsWhatWasRead
<1>2. FoldInv /\ [ConsolidationNext]_consolidationVars
      => [\A i \in DOMAIN filed : Folding(i) =>
             fact[filed[i].winner].text = filed[i].read[filed[i].winner]]_consolidationVars
  BY FoldStep DEF ReadOf
<1> QED BY <1>2, FoldStart, FoldStep, PTL DEF ConsolidationSpec, SurvivorIsWhatWasRead

-----------------------------------------------------------------------------
(* Consolidation: the evidence survives *)

FactShape == fact = [m \in Facts |-> [text |-> fact[m].text, uses |-> fact[m].uses]]

Pairs == Recalls \X Facts

\* What the rows hold is made of: a finite set of recalls each, no recall in
\* two of them, counted by the row and pointed to by the usages.
EvidenceInv ==
    /\ FactShape
    /\ usages \in SUBSET Pairs
    /\ carries \in [Facts -> SUBSET Pairs]
    /\ \A m \in Facts : IsFiniteSet(carries[m])
    /\ Disjoint(carries, Facts)
    /\ \A m \in Facts : fact[m].uses = Cardinality(carries[m])
    /\ \A m \in Facts, r \in Recalls : <<r, m>> \in usages <=> \E n \in Facts : <<r, n>> \in carries[m]

\* The rows that a fold reads carry as many recalls as they count together.
LEMMA SizesOfPart ==
    ASSUME NEW all \in SUBSET Facts, IsFiniteSet(all), Disjoint(carries, Facts), \A m \in Facts : IsFiniteSet(carries[m])
    PROVE  /\ SumFunction([m \in all |-> Cardinality(carries[m])]) = Cardinality(UNION {carries[n] : n \in all})
           /\ IsFiniteSet(UNION {carries[n] : n \in all})
<1>1. Disjoint(carries, all) BY DEF Disjoint
<1>2. \A x \in all : IsFiniteSet(carries[x]) OBVIOUS
<1> QED BY <1>1, <1>2, SizesAddUp

\* A row after one of its two fields changed.
LEMMA FieldChanges ==
    ASSUME NEW row, row = [text |-> row.text, uses |-> row.uses], NEW value
    PROVE  /\ [row EXCEPT !.text = value] = [text |-> value, uses |-> row.uses]
           /\ [row EXCEPT !.uses = value] = [text |-> row.text, uses |-> value]
<1>1. PICK t, u : t = row.text /\ u = row.uses OBVIOUS
<1>2. row = [text |-> t, uses |-> u] BY <1>1
<1>3. /\ [[text |-> t, uses |-> u] EXCEPT !.text = value] = [text |-> value, uses |-> u]
      /\ [[text |-> t, uses |-> u] EXCEPT !.uses = value] = [text |-> t, uses |-> value]
  OBVIOUS
<1> QED BY <1>1, <1>2, <1>3

\* Equal totals and disjoint carries leave a fact's evidence whole.
LEMMA EvidenceIsThere == EvidenceInv => EvidenceSurvivesFolds
<1> SUFFICES ASSUME EvidenceInv, NEW m \in Facts
             PROVE  {u[1] : u \in {v \in usages : v[2] = m}} = {c[1] : c \in carries[m]}
  BY DEF EvidenceInv, EvidenceSurvivesFolds
<1>1. ASSUME NEW r, r \in {u[1] : u \in {v \in usages : v[2] = m}} PROVE r \in {c[1] : c \in carries[m]}
  <2>1. PICK u \in usages : u[2] = m /\ u[1] = r BY <1>1
  <2>2. r \in Recalls /\ u = <<r, m>> BY <2>1 DEF EvidenceInv, Pairs
  <2>3. PICK n \in Facts : <<r, n>> \in carries[m] BY <2>1, <2>2 DEF EvidenceInv
  <2> QED BY <2>3
<1>2. ASSUME NEW r, r \in {c[1] : c \in carries[m]} PROVE r \in {u[1] : u \in {v \in usages : v[2] = m}}
  <2>1. PICK c \in carries[m] : c[1] = r BY <1>2
  <2>2. r \in Recalls /\ c[2] \in Facts /\ c = <<r, c[2]>> BY <2>1 DEF EvidenceInv, Pairs
  <2>3. <<r, m>> \in usages BY <2>1, <2>2 DEF EvidenceInv
  <2> QED BY <2>3
<1> QED BY <1>1, <1>2

\* A fold adds up what its rows carry, and points to it.
LEMMA FoldKeepsEvidence ==
    ASSUME EvidenceInv, NEW job, job.winner \in DOMAIN job.read, DOMAIN job.read \subseteq Facts, Folds(job)
    PROVE  EvidenceInv'
<1> USE DEF EvidenceInv
<1> DEFINE all == DOMAIN job.read
           losers == all \ {job.winner}
           w == job.winner
           Survivor(m) == IF m \in losers THEN w ELSE m
           merged == UNION {carries[n] : n \in all}
<1>1. /\ fact' = [m \in Facts |-> IF m = w THEN [text |-> job.text, uses |-> UsesOf(job)]
                                  ELSE IF m \in losers THEN NoFact ELSE fact[m]]
      /\ usages' = {<<u[1], Survivor(u[2])>> : u \in usages}
      /\ carries' = [m \in Facts |-> IF m = w THEN merged ELSE IF m \in losers THEN {} ELSE carries[m]]
  BY DEF Folds
<1>2. w \in all /\ w \in Facts /\ losers \subseteq Facts /\ all \subseteq Facts OBVIOUS
<1>3. /\ UsesOf(job) = Cardinality(merged)
      /\ IsFiniteSet(merged)
  <2> DEFINE f == [m \in all |-> fact[m].uses]
             g == [m \in all |-> Cardinality(carries[m])]
  <2>1. f = g OBVIOUS
  <2>2. IsFiniteSet(all) BY ConsolidationAssumption, FS_Subset
  <2>3. Disjoint(carries, all) BY DEF Disjoint
  <2>4. SumFunction(g) = Cardinality(merged) /\ IsFiniteSet(merged)
    BY <1>2, <2>2, SizesOfPart
  <2> QED BY <2>1, <2>4 DEF UsesOf
<1>4. merged \in SUBSET Pairs BY <1>2
<1>5. /\ carries' \in [Facts -> SUBSET Pairs]
      /\ \A m \in Facts : IsFiniteSet(carries'[m])
  <2>1. IsFiniteSet({}) BY FS_EmptySet
  <2> HIDE DEF merged, losers
  <2> QED BY <1>1, <1>3, <1>4, <2>1
<1>6. Disjoint(carries, Facts)'
  <2>1. ASSUME NEW m \in Facts \ all PROVE carries[m] \cap merged = {} BY <1>2, <2>1 DEF Disjoint
  <2>2. \A m \in Facts : carries'[m] = IF m = w THEN merged ELSE IF m \in losers THEN {} ELSE carries[m]
    BY <1>1
  <2> HIDE DEF merged
  <2> QED BY <2>1, <2>2 DEF Disjoint
<1>7. FactShape' /\ \A m \in Facts : fact'[m].uses = Cardinality(carries'[m])
  <2>1. Cardinality({}) = 0 BY FS_EmptySet
  <2> HIDE DEF merged, losers
  <2> QED BY <1>1, <1>3, <2>1 DEF FactShape, NoFact
<1>8. usages' \in SUBSET Pairs
  <2>1. \A m \in Facts : Survivor(m) \in Facts BY <1>2
  <2> HIDE DEF Survivor
  <2> QED BY <1>1, <2>1 DEF Pairs
<1>9. ASSUME NEW m \in Facts, NEW r \in Recalls
      PROVE  <<r, m>> \in usages' <=> \E n \in Facts : <<r, n>> \in carries'[m]
  <2>1. <<r, m>> \in usages' <=> \E n \in Facts : <<r, n>> \in usages /\ Survivor(n) = m
    <3>1. ASSUME <<r, m>> \in usages' PROVE \E n \in Facts : <<r, n>> \in usages /\ Survivor(n) = m
      <4>1. PICK u \in usages : <<r, m>> = <<u[1], Survivor(u[2])>> BY <1>1, <3>1
      <4>2. u[1] = r /\ u[2] \in Facts /\ u = <<u[1], u[2]>> /\ Survivor(u[2]) = m BY <4>1 DEF Pairs
      <4> QED BY <4>2
    <3>2. ASSUME NEW n \in Facts, <<r, n>> \in usages, Survivor(n) = m PROVE <<r, m>> \in usages'
      <4>1. <<r, n>>[1] = r /\ <<r, n>>[2] = n OBVIOUS
      <4> HIDE DEF Survivor
      <4> QED BY <1>1, <3>2, <4>1
    <3> QED BY <3>1, <3>2
  <2>2. CASE m = w
    <3>1. \A n \in Facts : Survivor(n) = m <=> n \in all BY <2>2
    <3>2. carries'[m] = merged BY <1>1, <2>2
    <3>3. \A n \in Facts : <<r, n>> \in merged <=> \E q \in all : <<r, n>> \in carries[q]
      OBVIOUS
    <3>4. \A n \in Facts : <<r, n>> \in usages <=> \E q \in Facts : <<r, q>> \in carries[n] OBVIOUS
    <3> HIDE DEF merged, all, Survivor, EvidenceInv
    <3> QED BY <1>2, <2>1, <3>1, <3>2, <3>3, <3>4
  <2>3. CASE m \in losers
    <3>1. \A n \in Facts : Survivor(n) # m BY <2>3
    <3>2. carries'[m] = {} BY <1>1, <2>3
    <3> QED BY <2>1, <3>1, <3>2
  <2>4. CASE m \notin all
    <3>1. \A n \in Facts : Survivor(n) = m <=> n = m BY <1>2, <2>4
    <3>2. carries'[m] = carries[m] BY <1>1, <1>2, <2>4
    <3> QED BY <2>1, <3>1, <3>2
  <2> QED BY <2>2, <2>3, <2>4
<1> QED BY <1>5, <1>6, <1>7, <1>8, <1>9

\* A recall counts once on each fact it drew.
LEMMA RecallKeepsEvidence ==
    ASSUME EvidenceInv, NEW r \in Recalls, NEW S \in SUBSET Facts, Recall(r, S)
    PROVE  EvidenceInv'
<1> USE DEF EvidenceInv
<1>1. /\ fact' = [m \in Facts |-> IF m \in S THEN [fact[m] EXCEPT !.uses = @ + 1] ELSE fact[m]]
      /\ usages' = usages \cup ({r} \X S)
      /\ carries' = [m \in Facts |-> IF m \in S THEN carries[m] \cup {<<r, m>>} ELSE carries[m]]
      /\ \A m \in Facts : \A c \in carries[m] : c[1] # r
  BY DEF Recall
<1>2. \A m, n \in Facts : <<r, n>> \notin carries[m] BY <1>1
<1>3. carries' \in [Facts -> SUBSET Pairs] /\ usages' \in SUBSET Pairs BY <1>1 DEF Pairs
<1>4. \A m \in Facts : /\ IsFiniteSet(carries'[m])
                       /\ m \in S => Cardinality(carries'[m]) = Cardinality(carries[m]) + 1
                       /\ m \notin S => carries'[m] = carries[m]
  BY <1>1, <1>2, FS_AddElement
<1>5. FactShape' /\ \A m \in Facts : fact'[m].uses = IF m \in S THEN fact[m].uses + 1 ELSE fact[m].uses
  <2>1. \A m \in Facts : fact[m] = [text |-> fact[m].text, uses |-> fact[m].uses] BY DEF FactShape
  <2>2. ASSUME NEW m \in Facts
        PROVE  /\ fact'[m].uses = IF m \in S THEN fact[m].uses + 1 ELSE fact[m].uses
               /\ fact'[m] = [text |-> fact'[m].text, uses |-> fact'[m].uses]
    <3>1. [fact[m] EXCEPT !.uses = @ + 1] = [text |-> fact[m].text, uses |-> fact[m].uses + 1] BY <2>1, FieldChanges
    <3> QED BY <1>1, <2>1, <3>1
  <2> QED BY <1>1, <2>2 DEF FactShape
<1>6. \A m \in Facts : fact'[m].uses = Cardinality(carries'[m]) BY <1>4, <1>5
<1>7. Disjoint(carries, Facts)'
  <2>1. \A m \in Facts : carries'[m] = IF m \in S THEN carries[m] \cup {<<r, m>>} ELSE carries[m]
    BY <1>1
  <2>2. ASSUME NEW m \in Facts, NEW n \in Facts, m # n PROVE carries'[m] \cap carries'[n] = {}
    <3>1. carries[m] \cap carries[n] = {} BY <2>2 DEF Disjoint
    <3>2. <<r, m>> # <<r, n>> BY <2>2
    <3>3. <<r, n>> \notin carries[m] /\ <<r, m>> \notin carries[n] BY <1>2
    <3>4. carries'[m] \subseteq carries[m] \cup {<<r, m>>} /\ carries'[n] \subseteq carries[n] \cup {<<r, n>>}
      BY <2>1
    <3> QED BY <3>1, <3>2, <3>3, <3>4
  <2> QED BY <2>2 DEF Disjoint
<1>8. ASSUME NEW m \in Facts, NEW q \in Recalls
      PROVE  <<q, m>> \in usages' <=> \E n \in Facts : <<q, n>> \in carries'[m]
  <2>1. <<q, m>> \in usages' <=> <<q, m>> \in usages \/ (q = r /\ m \in S) BY <1>1
  <2>2. \A n \in Facts : <<q, n>> \in carries'[m] <=> <<q, n>> \in carries[m] \/ (m \in S /\ q = r /\ n = m)
    BY <1>1
  <2> QED BY <2>1, <2>2
<1> QED BY <1>3, <1>4, <1>5, <1>6, <1>7, <1>8

\* Every step keeps the counts equal to the evidence carried.
LEMMA EvidenceStep ==
    FoldInv /\ EvidenceInv /\ [ConsolidationNext]_consolidationVars => EvidenceInv'
<1> SUFFICES ASSUME FoldInv, EvidenceInv, [ConsolidationNext]_consolidationVars
             PROVE  EvidenceInv'
  OBVIOUS
<1>1. ASSUME UNCHANGED <<usages, carries>>, FactShape', \A m \in Facts : fact'[m].uses = fact[m].uses
      PROVE  EvidenceInv'
  BY <1>1 DEF EvidenceInv, Disjoint
<1>2. ASSUME UNCHANGED <<fact, usages, carries>> PROVE EvidenceInv'
  BY <1>1, <1>2 DEF EvidenceInv, FactShape
<1>3. ASSUME NEW m \in Facts, NEW text, fact' = [fact EXCEPT ![m].text = text], UNCHANGED <<usages, carries>>
      PROVE  EvidenceInv'
  <2>1. \A n \in Facts : fact[n] = [text |-> fact[n].text, uses |-> fact[n].uses]
    BY DEF EvidenceInv, FactShape
  <2>2. [fact[m] EXCEPT !.text = text] = [text |-> text, uses |-> fact[m].uses] BY <2>1, FieldChanges
  <2>3. fact' = [n \in Facts |-> IF n = m THEN [text |-> text, uses |-> fact[m].uses] ELSE fact[n]]
    BY <1>3, <2>2 DEF EvidenceInv, FactShape
  <2>4. FactShape' /\ \A n \in Facts : fact'[n].uses = fact[n].uses BY <2>1, <2>3 DEF FactShape
  <2> QED BY <1>1, <1>3, <2>4
<1>4. ASSUME NEW p \in Passes, SweepBegins(p) \/ ArbiterIsLost(p) PROVE EvidenceInv'
  BY <1>2, <1>4 DEF SweepBegins, ArbiterIsLost
<1>5. ASSUME NEW p \in Passes, NEW g \in sweep[p].groups, ArbiterAnswers(p, g) PROVE EvidenceInv'
  BY <1>2, <1>5 DEF ArbiterAnswers
<1>6. ASSUME NEW i \in DOMAIN filed, SetStatus(i) PROVE EvidenceInv'
  BY <1>2, <1>6 DEF SetStatus
<1>7. ASSUME NEW i \in DOMAIN filed, Press(i) PROVE EvidenceInv'
  <2> DEFINE job == [op |-> "fold", insight |-> i, winner |-> filed[i].winner, text |-> filed[i].text,
                     read |-> [m \in DOMAIN filed[i].prints |-> fact[m]]]
  <2>1. i \in 1..Len(filed) BY SeqFacts DEF FoldInv, InsightInv
  <2>2. job.winner \in DOMAIN job.read /\ DOMAIN job.read \subseteq Facts
    BY <1>7, <2>1 DEF FoldInv, InsightInv, Press
  <2>3. UNCHANGED <<fact, usages, carries>> \/ Folds(job) BY <1>7 DEF Press
  <2> HIDE DEF job
  <2> QED BY <1>2, <2>2, <2>3, FoldKeepsEvidence
<1>8. CASE FoldLands
  <2> DEFINE job == Head(calls)
  <2>1. job = calls[1] /\ 1 \in 1..Len(calls) /\ job.op = "fold"
    BY <1>8, SeqFacts DEF FoldInv, CallsInv, FoldLands
  <2>2. job.winner \in DOMAIN job.read /\ DOMAIN job.read \subseteq Facts
    BY <2>1 DEF FoldInv, CallsInv, CallOf
  <2>3. Folds(job) BY <1>8 DEF FoldLands
  <2> HIDE DEF job
  <2> QED BY <2>2, <2>3, FoldKeepsEvidence
<1>9. CASE EditLands BY <1>3, <1>9 DEF EditLands, Standing
<1>10. CASE CallEndsInVain BY <1>2, <1>10 DEF CallEndsInVain
<1>11. CASE SwitchEmbedder BY <1>2, <1>11 DEF SwitchEmbedder
<1>12. ASSUME NEW m \in Facts, Edit(m) PROVE EvidenceInv'
  BY <1>2, <1>3, <1>12 DEF Edit
<1>13. ASSUME NEW m \in Facts, DeleteFact(m) PROVE EvidenceInv'
  <2>1. /\ fact' = [fact EXCEPT ![m] = NoFact]
        /\ usages' = {u \in usages : u[2] # m}
        /\ carries' = [carries EXCEPT ![m] = {}]
    BY <1>13 DEF DeleteFact
  <2>2. IsFiniteSet({}) /\ Cardinality({}) = 0 BY FS_EmptySet
  <2>3. FactShape' /\ \A n \in Facts : fact'[n].uses = IF n = m THEN 0 ELSE fact[n].uses
    BY <2>1 DEF EvidenceInv, FactShape, NoFact
  <2>4. carries' = [n \in Facts |-> IF n = m THEN {} ELSE carries[n]] BY <2>1 DEF EvidenceInv
  <2>5. \A n \in Facts, r \in Recalls : <<r, n>> \in usages' <=> <<r, n>> \in usages /\ n # m
    BY <2>1
  <2>6. usages' \in SUBSET Pairs /\ carries' \in [Facts -> SUBSET Pairs]
    BY <2>1, <2>4 DEF EvidenceInv
  <2>7. Disjoint(carries, Facts)' BY <2>4 DEF EvidenceInv, Disjoint
  <2>8. \A n \in Facts : IsFiniteSet(carries'[n]) /\ fact'[n].uses = Cardinality(carries'[n])
    BY <2>2, <2>3, <2>4 DEF EvidenceInv
  <2>9. \A n \in Facts, r \in Recalls : <<r, n>> \in usages' <=> \E q \in Facts : <<r, q>> \in carries'[n]
    BY <2>4, <2>5 DEF EvidenceInv
  <2> QED BY <2>3, <2>6, <2>7, <2>8, <2>9 DEF EvidenceInv
<1>14. ASSUME NEW r \in Recalls, NEW S \in SUBSET Facts, Recall(r, S) PROVE EvidenceInv'
  BY <1>14, RecallKeepsEvidence
<1>15. CASE UNCHANGED consolidationVars BY <1>2, <1>15 DEF consolidationVars
<1> QED
  BY <1>4, <1>5, <1>6, <1>7, <1>8, <1>9, <1>10, <1>11, <1>12, <1>13, <1>14, <1>15
  DEF ConsolidationNext

\* For any finite number of memories, and whatever is recalled, edited,
\* deleted and folded, once or twice, at once or after a wait, a row counts
\* every recall of what it absorbed once, and the usages point to it.
THEOREM EvidenceIsNeverLost == ConsolidationSpec => []EvidenceSurvivesFolds
<1>1. ConsolidationInit => EvidenceInv
  <2> SUFFICES ASSUME ConsolidationInit PROVE EvidenceInv
    OBVIOUS
  <2>1. IsFiniteSet({}) /\ Cardinality({}) = 0 BY FS_EmptySet
  <2>2. /\ fact = [m \in Facts |-> [text |-> 1, uses |-> 0]] /\ usages = {}
        /\ carries = [m \in Facts |-> {}]
    BY DEF ConsolidationInit
  <2> QED BY <2>1, <2>2 DEF EvidenceInv, FactShape, Disjoint
<1> QED BY <1>1, FoldStart, FoldStep, EvidenceStep, EvidenceIsThere, PTL DEF ConsolidationSpec

-----------------------------------------------------------------------------
(* Learner: each run counts once *)

LessonType == [at : {"none", "running", "waiting", "ended"}, rating : {-1, 0, 1, Unrated}, inferred : 0..Full,
               reward : (0..Full) \cup {Unrated}, learns : BOOLEAN]
ArmType == [alpha : Nat, beta : Nat, trials : Nat]

LearnerTypeInv ==
    /\ lesson \in [Lessons -> LessonType]
    /\ arm \in ArmType
    /\ autoPolicy \in BOOLEAN /\ plain \in BOOLEAN
    /\ ratings \in Nat

\* A run that nobody rated before its end has no reward until then, and what
\* it was submitted with makes it count.
UnendedInv ==
    plain =>
        /\ autoPolicy
        /\ \A r \in Lessons :
             /\ lesson[r].at # "ended" => lesson[r].reward = Unrated
             /\ lesson[r].at \in {"running", "waiting"} => lesson[r].learns /\ lesson[r].rating = Unrated
             /\ lesson[r].at = "none" => lesson[r] = Unlived

Observed(a, rewards, n) == a = [alpha |-> rewards, beta |-> Full * n - rewards, trials |-> n]

LearnerInv ==
    /\ LearnerTypeInv
    /\ UnendedInv
    /\ plain => IsFiniteSet(Taught) /\ EachRunCountsOnce

USE LearnerAssumption

\* A reward is a part of a full one.
LEMMA RewardType ==
    ASSUME NEW rating \in {-1, 0, 1, Unrated}, NEW inferred \in 0..Full
    PROVE  Reward(rating, inferred) \in 0..Full
<1>1. CASE rating = Unrated BY <1>1 DEF Reward
<1>2. CASE rating \in {-1, 0, 1} BY <1>2, Z3 DEF Reward
<1> QED BY <1>1, <1>2

\* The rewards on the rows are a total the lemmas on sums speak of.
LEMMA RewardTotal ==
    ASSUME LearnerTypeInv, IsFiniteSet(Taught)
    PROVE  /\ [r \in Taught |-> lesson[r].reward] \in [Taught -> 0..Full]
           /\ RewardOf(Taught) \in Nat
           /\ RewardOf(Taught) <= Full * Cardinality(Taught)
           /\ Cardinality(Taught) \in Nat
<1>1. [r \in Taught |-> lesson[r].reward] \in [Taught -> 0..Full]
  BY DEF LearnerTypeInv, LessonType, Taught
<1>2. Cardinality(Taught) \in Nat BY FS_CardinalityType
<1> DEFINE f == [r \in Taught |-> lesson[r].reward]
<1>3. SumFunction(f) \in Nat /\ SumFunction(f) <= Full * Cardinality(Taught)
  <2> HIDE DEF f
  <2> QED BY <1>1, SumBounded DEF f
<1> QED BY <1>1, <1>2, <1>3 DEF RewardOf

\* A first reward adds a run to the sum; another one replaces the first.
LEMMA RewardMoves ==
    ASSUME LearnerTypeInv, LearnerTypeInv', IsFiniteSet(Taught), NEW r \in Lessons,
           \A q \in Lessons \ {r} : lesson'[q] = lesson[q], lesson'[r].reward # Unrated
    PROVE  /\ IsFiniteSet(Taught')
           /\ lesson[r].reward = Unrated =>
                /\ Cardinality(Taught') = Cardinality(Taught) + 1
                /\ RewardOf(Taught)' = RewardOf(Taught) + lesson'[r].reward
           /\ lesson[r].reward # Unrated =>
                /\ Cardinality(Taught') = Cardinality(Taught)
                /\ RewardOf(Taught)' = RewardOf(Taught) - lesson[r].reward + lesson'[r].reward
<1> DEFINE f == [q \in Taught |-> lesson[q].reward]
           g == [q \in Taught' |-> lesson'[q].reward]
           rest == [q \in Taught' \ {r} |-> lesson[q].reward]
<1>1. Taught' = Taught \cup {r} BY DEF Taught
<1>2. IsFiniteSet(Taught') BY <1>1, FS_AddElement
<1>3. f \in [Taught -> Nat] /\ RewardOf(Taught) = SumFunction(f) BY RewardTotal DEF RewardOf
<1>4. g \in [Taught' -> Nat] /\ RewardOf(Taught)' = SumFunction(g)
  BY DEF LearnerTypeInv, LessonType, Taught, RewardOf
<1>5. [q \in Taught' \ {r} |-> g[q]] = rest BY <1>1 DEF Taught
<1>6. SumFunction(g) = lesson'[r].reward + SumFunction(rest) /\ SumFunction(rest) \in Nat
  <2>1. r \in Taught' /\ g[r] = lesson'[r].reward BY <1>1
  <2> HIDE DEF g, rest
  <2> QED BY <1>2, <1>4, <1>5, <2>1, SumSplits
<1>7. lesson'[r].reward \in Nat BY DEF LearnerTypeInv, LessonType
<1>8. CASE lesson[r].reward = Unrated
  <2>1. r \notin Taught BY <1>8 DEF Taught
  <2>2. Cardinality(Taught') = Cardinality(Taught) + 1 BY <1>1, <2>1, FS_AddElement
  <2>3. rest = f BY <1>1, <2>1
  <2> HIDE DEF f, g, rest
  <2> QED BY <1>2, <1>3, <1>4, <1>6, <1>7, <1>8, <2>2, <2>3
<1>9. CASE lesson[r].reward # Unrated
  <2>1. r \in Taught /\ Taught' = Taught BY <1>1, <1>9 DEF Taught
  <2>2. [q \in Taught \ {r} |-> f[q]] = rest BY <2>1
  <2>3. f[r] = lesson[r].reward /\ lesson[r].reward \in Nat BY <2>1, <1>9 DEF LearnerTypeInv, LessonType
  <2> HIDE DEF f, g, rest
  <2>4. SumFunction(f) = f[r] + SumFunction([q \in Taught \ {r} |-> f[q]])
    BY <1>3, <2>1, SumSplits
  <2>5. SumFunction(f) = lesson[r].reward + SumFunction(rest)
    BY <2>2, <2>3, <2>4
  <2> QED BY <1>2, <1>3, <1>4, <1>6, <1>7, <1>9, <2>1, <2>3, <2>5
<1> QED BY <1>8, <1>9

\* Every step keeps the types.
LEMMA LearnerTypes ==
    LearnerTypeInv /\ [LearnerNext]_learnerVars => LearnerTypeInv'
<1> SUFFICES ASSUME LearnerTypeInv, [LearnerNext]_learnerVars PROVE LearnerTypeInv'
  OBVIOUS
<1> USE DEF LearnerTypeInv, LessonType, ArmType
<1>1. ASSUME NEW r \in Lessons, NEW inferred \in 0..Full, Undertake(r, inferred) PROVE LearnerTypeInv'
  BY <1>1 DEF Undertake, Unlived
<1>2. ASSUME NEW r \in Lessons, Waits(r, "running", "waiting") \/ Waits(r, "waiting", "running")
      PROVE  LearnerTypeInv'
  BY <1>2 DEF Waits
<1>3. ASSUME NEW r \in Lessons, Learn(r) PROVE LearnerTypeInv'
  <2> DEFINE reward == Reward(lesson[r].rating, lesson[r].inferred)
  <2>1. reward \in 0..Full BY RewardType
  <2>2. Updated(arm, reward) \in ArmType BY <2>1 DEF Updated
  <2> HIDE DEF reward
  <2>3. /\ lesson' = [lesson EXCEPT ![r].at = "ended", ![r].reward = reward]
        /\ arm' = arm \/ arm' = Updated(arm, reward)
        /\ UNCHANGED <<autoPolicy, ratings, plain>>
    BY <1>3 DEF Learn, reward
  <2>4. [lesson[r] EXCEPT !.at = "ended", !.reward = reward] \in LessonType BY <2>1
  <2>5. lesson' \in [Lessons -> LessonType] BY <2>3, <2>4
  <2>6. arm' \in ArmType BY <2>2, <2>3
  <2> QED BY <2>3, <2>5, <2>6
<1>4. ASSUME NEW r \in Lessons, EndsUntaught(r) PROVE LearnerTypeInv'
  BY <1>4 DEF EndsUntaught
<1>5. ASSUME NEW r \in Lessons, NEW rating \in {-1, 0, 1}, Rate(r, rating) PROVE LearnerTypeInv'
  <2> DEFINE reward == Reward(IF rating = 0 THEN Unrated ELSE rating, lesson[r].inferred)
  <2>1. reward \in 0..Full BY RewardType
  <2> DEFINE previous == lesson[r].reward
  <2>10. previous \in (0..Full) \cup {Unrated} OBVIOUS
  <2> HIDE DEF reward, previous
  <2>2. Revised(arm, previous, reward) \in ArmType
    <3>1. Updated(arm, reward) \in ArmType BY <2>1 DEF Updated
    <3>2. ASSUME NEW n \in Int PROVE AtLeast0(n) \in Nat BY DEF AtLeast0
    <3>3. /\ arm.alpha \in Nat /\ arm.beta \in Nat /\ arm.trials \in Nat
          /\ arm = [alpha |-> arm.alpha, beta |-> arm.beta, trials |-> arm.trials]
      OBVIOUS
    <3>4. ASSUME previous # Unrated
          PROVE  /\ AtLeast0(arm.alpha - previous + reward) \in Nat
                 /\ AtLeast0(arm.beta + previous - reward) \in Nat
      BY <2>1, <2>10, <3>2, <3>3, <3>4
    <3> QED BY <3>1, <3>3, <3>4 DEF Revised
  <2>3. /\ lesson' = [lesson EXCEPT ![r].rating = rating, ![r].reward = reward]
        /\ arm' = arm \/ arm' = Revised(arm, previous, reward)
        /\ ratings' = ratings + 1
        /\ plain' = (plain /\ lesson[r].at = "ended") /\ UNCHANGED autoPolicy
    BY <1>5 DEF Rate, reward, previous
  <2>4. lesson' \in [Lessons -> LessonType]
    <3>1. \A q \in Lessons \ {r} : lesson'[q] = lesson[q] BY <2>3
    <3>2. lesson'[r] = [lesson[r] EXCEPT !.rating = rating, !.reward = reward] BY <2>3
    <3>3. lesson'[r] \in LessonType BY <2>1, <3>2
    <3>4. lesson' = [q \in Lessons |-> lesson'[q]] BY <2>3
    <3> HIDE DEF LessonType
    <3> QED BY <3>1, <3>3, <3>4
  <2>5. arm' \in ArmType BY <2>2, <2>3
  <2>6. plain' \in BOOLEAN /\ ratings' \in Nat BY <2>3
  <2> QED BY <2>3, <2>4, <2>5, <2>6
<1>6. CASE SwitchPolicy
  <2>1. ratings' \in Nat BY <1>6 DEF SwitchPolicy
  <2>2. autoPolicy' \in BOOLEAN /\ plain' \in BOOLEAN BY <1>6 DEF SwitchPolicy
  <2> QED BY <1>6, <2>1, <2>2 DEF SwitchPolicy
<1>7. CASE Unlearn
  <2>1. ratings' \in Nat BY <1>7 DEF Unlearn
  <2>2. arm' \in ArmType BY <1>7 DEF Unlearn, FreshArm
  <2>3. plain' \in BOOLEAN /\ UNCHANGED <<lesson, autoPolicy>> BY <1>7 DEF Unlearn
  <2> QED BY <2>1, <2>2, <2>3
<1>8. CASE UNCHANGED learnerVars BY <1>8 DEF learnerVars
<1> QED BY <1>1, <1>2, <1>3, <1>4, <1>5, <1>6, <1>7, <1>8 DEF LearnerNext

\* A step that gives no reward leaves the sum and the runs it is over.
LEMMA RewardsKept ==
    ASSUME LearnerTypeInv, LearnerTypeInv', \A r \in Lessons : lesson'[r].reward = lesson[r].reward
    PROVE  Taught' = Taught /\ RewardOf(Taught)' = RewardOf(Taught)
<1>1. Taught' = Taught BY DEF Taught
<1>2. [r \in Taught' |-> lesson'[r].reward] = [r \in Taught |-> lesson[r].reward]
  BY <1>1 DEF Taught
<1> QED BY <1>1, <1>2 DEF RewardOf

\* What a reward does to the arm, for the two ways in which a run has one.
LEMMA ArmMoves ==
    ASSUME NEW total \in Nat, NEW n \in Nat, total <= Full * n, NEW reward \in 0..Full,
           NEW a, Observed(a, total, n)
    PROVE  /\ Observed(Updated(a, reward), total + reward, n + 1)
           /\ \A previous \in 0..Full :
                 previous <= total /\ total - previous <= Full * (n - 1)
                 => Observed(Revised(a, previous, reward), total - previous + reward, n)
<1>1. Full * (n + 1) = Full * n + Full BY Z3
<1>2. Observed(Updated(a, reward), total + reward, n + 1)
  <2>1. Full * n \in Nat BY Z3
  <2> DEFINE m == Full * n
  <2>2. a = [alpha |-> total, beta |-> m - total, trials |-> n] BY DEF Observed
  <2>3. Updated(a, reward) = [alpha |-> total + reward, beta |-> m - total + Full - reward, trials |-> n + 1]
    BY <2>2 DEF Updated
  <2> HIDE DEF m
  <2>4. m - total + Full - reward = (m + Full) - (total + reward) BY <2>1 DEF m
  <2> QED BY <1>1, <2>3, <2>4 DEF Observed, m
<1>3. ASSUME NEW previous \in 0..Full, previous <= total, total - previous <= Full * (n - 1)
      PROVE  Observed(Revised(a, previous, reward), total - previous + reward, n)
  <2> DEFINE m == Full * n
  <2>1. m \in Nat /\ Full * (n - 1) = m - Full BY Z3
  <2>2. a = [alpha |-> total, beta |-> m - total, trials |-> n] BY DEF Observed
  <2>3. previous # Unrated OBVIOUS
  <2> HIDE DEF m
  <2>4. /\ AtLeast0(total - previous + reward) = total - previous + reward
        /\ AtLeast0(m - total + previous - reward) = m - (total - previous + reward)
    BY <1>3, <2>1 DEF AtLeast0
  <2>5. Revised(a, previous, reward) = [alpha |-> total - previous + reward,
                                        beta |-> m - (total - previous + reward), trials |-> n]
    BY <2>2, <2>3, <2>4 DEF Revised
  <2> QED BY <2>5 DEF Observed, m
<1> QED BY <1>2, <1>3

\* Without one of its runs, the total is still bounded by the runs it is over.
LEMMA RewardWithout ==
    ASSUME LearnerTypeInv, IsFiniteSet(Taught), NEW r \in Taught
    PROVE  /\ lesson[r].reward \in 0..Full
           /\ lesson[r].reward <= RewardOf(Taught)
           /\ RewardOf(Taught) - lesson[r].reward <= Full * (Cardinality(Taught) - 1)
<1> DEFINE f == [q \in Taught |-> lesson[q].reward]
           rest == [q \in Taught \ {r} |-> lesson[q].reward]
<1>1. lesson[r].reward \in 0..Full BY DEF LearnerTypeInv, LessonType, Taught
<1>2. f \in [Taught -> Nat] /\ RewardOf(Taught) = SumFunction(f) BY RewardTotal DEF RewardOf
<1>3. rest \in [Taught \ {r} -> 0..Full] BY DEF LearnerTypeInv, LessonType, Taught
<1>4. [q \in Taught \ {r} |-> f[q]] = rest /\ f[r] = lesson[r].reward OBVIOUS
<1> HIDE DEF f, rest
<1>5. SumFunction(f) = f[r] + SumFunction([q \in Taught \ {r} |-> f[q]])
  BY <1>2, SumSplits
<1>6. IsFiniteSet(Taught \ {r}) /\ Cardinality(Taught \ {r}) = Cardinality(Taught) - 1
  BY FS_RemoveElement
<1>7. SumFunction(rest) \in Nat /\ SumFunction(rest) <= Full * Cardinality(Taught \ {r})
  BY <1>3, <1>6, SumBounded
<1>8. RewardOf(Taught) = lesson[r].reward + SumFunction(rest) BY <1>2, <1>4, <1>5
<1> QED BY <1>1, <1>6, <1>7, <1>8

\* Every step keeps each arm to the runs counted on it.
LEMMA LearnerStep ==
    LearnerInv /\ [LearnerNext]_learnerVars => LearnerInv'
<1> SUFFICES ASSUME LearnerInv, [LearnerNext]_learnerVars PROVE LearnerInv'
  OBVIOUS
<1>0. LearnerTypeInv /\ LearnerTypeInv' BY LearnerTypes DEF LearnerInv
<1>01. /\ lesson \in [Lessons -> LessonType]
       /\ plain => UnendedInv /\ IsFiniteSet(Taught)
                   /\ Observed(arm, RewardOf(Taught), Cardinality(Taught))
  BY <1>0 DEF LearnerInv, LearnerTypeInv, EachRunCountsOnce, Observed
<1>02. ASSUME plain PROVE /\ RewardOf(Taught) \in Nat /\ Cardinality(Taught) \in Nat
                          /\ RewardOf(Taught) <= Full * Cardinality(Taught)
  BY <1>0, <1>01, <1>02, RewardTotal
<1>03. ASSUME UnendedInv', plain' => IsFiniteSet(Taught') /\ Observed(arm', RewardOf(Taught)', Cardinality(Taught'))
       PROVE  LearnerInv'
  BY <1>0, <1>03 DEF LearnerInv, EachRunCountsOnce, Observed
<1>04. ASSUME \A q \in Lessons : lesson'[q].reward = lesson[q].reward, UNCHANGED <<arm, plain>>, UnendedInv'
       PROVE  LearnerInv'
  BY <1>0, <1>01, <1>03, <1>04, RewardsKept
<1>05. ASSUME ~plain' PROVE LearnerInv' BY <1>03, <1>05 DEF UnendedInv
<1> DEFINE Others(r) == \A q \in Lessons \ {r} : lesson'[q] = lesson[q]
<1>1. ASSUME NEW r \in Lessons, NEW inferred \in 0..Full, Undertake(r, inferred) PROVE LearnerInv'
  <2>1. /\ lesson[r].at = "none" /\ UNCHANGED <<arm, autoPolicy, plain>> /\ Others(r)
        /\ lesson'[r] = [Unlived EXCEPT !.at = "running", !.inferred = inferred, !.learns = autoPolicy]
    BY <1>01, <1>1 DEF Undertake
  <2>2. lesson'[r].reward = Unrated /\ lesson'[r].rating = Unrated /\ lesson'[r].at = "running"
        /\ lesson'[r].learns = autoPolicy
    BY <2>1 DEF Unlived
  <2>3. CASE ~plain BY <1>05, <2>1, <2>3
  <2>4. CASE plain
    <3>1. lesson[r].reward = Unrated /\ autoPolicy BY <1>01, <2>1, <2>4 DEF UnendedInv
    <3>2. ASSUME NEW q \in Lessons
          PROVE  /\ lesson'[q].at # "ended" => lesson'[q].reward = Unrated
                 /\ lesson'[q].at \in {"running", "waiting"} => lesson'[q].learns /\ lesson'[q].rating = Unrated
                 /\ lesson'[q].at = "none" => lesson'[q] = Unlived
      <4>1. CASE q = r BY <2>2, <3>1, <4>1
      <4>2. CASE q # r BY <1>01, <2>1, <2>4, <4>2 DEF UnendedInv
      <4> QED BY <4>1, <4>2
    <3>3. UnendedInv' BY <2>1, <3>1, <3>2 DEF UnendedInv
    <3> QED BY <1>04, <2>1, <2>2, <3>1, <3>3
  <2> QED BY <1>0, <2>3, <2>4
<1>2. ASSUME NEW r \in Lessons, NEW from \in {"running", "waiting"}, NEW to \in {"running", "waiting", "ended"},
             lesson[r].at = from, lesson' = [lesson EXCEPT ![r].at = to], UNCHANGED <<arm, autoPolicy, plain>>
      PROVE  LearnerInv'
  <2>1. /\ Others(r) /\ lesson'[r].at = to /\ lesson'[r].reward = lesson[r].reward
        /\ lesson'[r].rating = lesson[r].rating /\ lesson'[r].learns = lesson[r].learns
    BY <1>01, <1>2
  <2>2. UnendedInv' BY <1>01, <1>2, <2>1 DEF UnendedInv
  <2> QED BY <1>04, <1>2, <2>1, <2>2
<1>3. ASSUME NEW r \in Lessons, Learn(r) PROVE LearnerInv'
  <2> DEFINE reward == Reward(lesson[r].rating, lesson[r].inferred)
  <2>1. reward \in 0..Full BY <1>0, RewardType DEF LearnerTypeInv, LessonType
  <2>2. /\ lesson[r].at = "running" /\ lesson' = [lesson EXCEPT ![r].at = "ended", ![r].reward = reward]
        /\ arm' = (IF lesson[r].learns THEN Updated(arm, reward) ELSE arm)
        /\ UNCHANGED <<autoPolicy, ratings, plain>>
    BY <1>3 DEF Learn
  <2> HIDE DEF reward
  <2>3. Others(r) /\ lesson'[r].at = "ended" /\ lesson'[r].reward = reward
    BY <1>01, <2>2
  <2>4. UnendedInv' BY <1>01, <2>2, <2>3 DEF UnendedInv
  <2>5. ASSUME plain PROVE IsFiniteSet(Taught') /\ Observed(arm', RewardOf(Taught)', Cardinality(Taught'))
    <3>1. lesson[r].reward = Unrated /\ lesson[r].learns BY <1>01, <2>2, <2>5 DEF UnendedInv
    <3>2. /\ IsFiniteSet(Taught') /\ Cardinality(Taught') = Cardinality(Taught) + 1
          /\ RewardOf(Taught)' = RewardOf(Taught) + reward
      <4>1. lesson'[r].reward # Unrated BY <2>1, <2>3
      <4> QED BY <1>0, <1>01, <2>3, <2>5, <3>1, <4>1, RewardMoves
    <3>3. Observed(Updated(arm, reward), RewardOf(Taught) + reward, Cardinality(Taught) + 1)
      BY <1>01, <1>02, <2>1, <2>5, ArmMoves
    <3> QED BY <2>2, <3>1, <3>2, <3>3
  <2> QED BY <1>03, <2>2, <2>4, <2>5
<1>4. ASSUME NEW r \in Lessons, NEW rating \in {-1, 0, 1}, Rate(r, rating) PROVE LearnerInv'
  <2> DEFINE reward == Reward(IF rating = 0 THEN Unrated ELSE rating, lesson[r].inferred)
  <2>1. reward \in 0..Full BY <1>0, RewardType DEF LearnerTypeInv, LessonType
  <2>2. /\ lesson' = [lesson EXCEPT ![r].rating = rating, ![r].reward = reward]
        /\ arm' = (IF autoPolicy THEN Revised(arm, lesson[r].reward, reward) ELSE arm)
        /\ plain' = (plain /\ lesson[r].at = "ended")
        /\ UNCHANGED autoPolicy
    BY <1>4 DEF Rate
  <2> HIDE DEF reward
  <2>3. Others(r) /\ lesson'[r].at = lesson[r].at /\ lesson'[r].reward = reward
    BY <1>01, <2>2
  <2>4. CASE ~plain' BY <1>0, <1>05, <2>4, <2>2
  <2>5. CASE plain'
    <3>1. plain /\ lesson[r].at = "ended" /\ autoPolicy BY <1>01, <2>2, <2>5 DEF UnendedInv
    <3>2. UnendedInv' BY <1>01, <2>2, <2>3, <3>1 DEF UnendedInv
    <3>3. lesson'[r].reward # Unrated BY <2>1, <2>3
    <3>4. arm' = Revised(arm, lesson[r].reward, reward) BY <2>2, <3>1
    <3>5. CASE lesson[r].reward = Unrated
      <4>1. /\ IsFiniteSet(Taught') /\ Cardinality(Taught') = Cardinality(Taught) + 1
            /\ RewardOf(Taught)' = RewardOf(Taught) + reward
        BY <1>0, <1>01, <2>3, <3>1, <3>3, <3>5, RewardMoves
      <4>2. Observed(Updated(arm, reward), RewardOf(Taught) + reward, Cardinality(Taught) + 1)
        BY <1>01, <1>02, <2>1, <3>1, ArmMoves
      <4>3. arm' = Updated(arm, reward) BY <3>4, <3>5 DEF Revised
      <4> QED BY <1>03, <3>2, <4>1, <4>2, <4>3
    <3>6. CASE lesson[r].reward # Unrated
      <4>1. /\ IsFiniteSet(Taught') /\ Cardinality(Taught') = Cardinality(Taught)
            /\ RewardOf(Taught)' = RewardOf(Taught) - lesson[r].reward + reward
        BY <1>0, <1>01, <2>3, <3>1, <3>3, <3>6, RewardMoves
      <4>2. r \in Taught BY <3>6 DEF Taught
      <4>3. /\ lesson[r].reward \in 0..Full
            /\ lesson[r].reward <= RewardOf(Taught)
            /\ RewardOf(Taught) - lesson[r].reward <= Full * (Cardinality(Taught) - 1)
        BY <1>0, <1>01, <3>1, <4>2, RewardWithout
      <4>4. Observed(Revised(arm, lesson[r].reward, reward),
                     RewardOf(Taught) - lesson[r].reward + reward, Cardinality(Taught))
        BY <1>01, <1>02, <2>1, <3>1, <4>3, ArmMoves
      <4> QED BY <1>03, <3>2, <3>4, <4>1, <4>4
    <3> QED BY <3>5, <3>6
  <2> QED BY <2>4, <2>5
<1>5. CASE SwitchPolicy BY <1>05, <1>5 DEF SwitchPolicy
<1>6. CASE Unlearn BY <1>05, <1>6 DEF Unlearn
<1>7. CASE UNCHANGED learnerVars
  <2>1. UnendedInv' BY <1>01, <1>7 DEF UnendedInv, learnerVars
  <2> QED BY <1>04, <1>7, <2>1 DEF learnerVars
<1>8. ASSUME NEW r \in Lessons, Waits(r, "running", "waiting") \/ Waits(r, "waiting", "running")
      PROVE  LearnerInv'
  BY <1>2, <1>8 DEF Waits
<1>9. ASSUME NEW r \in Lessons, EndsUntaught(r) PROVE LearnerInv'
  BY <1>2, <1>9 DEF EndsUntaught
<1> QED BY <1>1, <1>3, <1>4, <1>5, <1>6, <1>7, <1>8, <1>9 DEF LearnerNext

\* No run has been counted at first.
LEMMA LearnerStart == LearnerInit => LearnerInv
<1> SUFFICES ASSUME LearnerInit PROVE LearnerInv
  OBVIOUS
<1>1. lesson = [r \in Lessons |-> Unlived] /\ arm = FreshArm /\ autoPolicy = TRUE /\ ratings = 0 /\ plain = TRUE
  BY DEF LearnerInit
<1>2. LearnerTypeInv BY <1>1 DEF LearnerTypeInv, LessonType, ArmType, Unlived, FreshArm
<1>3. UnendedInv BY <1>1 DEF UnendedInv, Unlived
<1>4. Taught = {} BY <1>1 DEF Taught, Unlived
<1>5. IsFiniteSet(Taught) /\ Cardinality(Taught) = 0 BY <1>4, FS_EmptySet
<1>6. RewardOf(Taught) = 0
  <2> DEFINE f == [r \in Taught |-> lesson[r].reward]
  <2>1. DOMAIN f = {} BY <1>4
  <2> HIDE DEF f
  <2>2. SumFunction(f) = 0 BY <2>1, SumOfNone
  <2> QED BY <2>2 DEF RewardOf, f
<1>7. Full * 0 = 0 BY Z3
<1>8. EachRunCountsOnce BY <1>1, <1>5, <1>6, <1>7 DEF EachRunCountsOnce, FreshArm
<1> QED BY <1>2, <1>3, <1>5, <1>8 DEF LearnerInv

\* Whatever the order in which any number of runs end and are rated, and
\* however often, the arm has counted each of them once, with the reward its
\* row holds.
THEOREM RunsCountOnce == LearnerSpec => []EachRunCountsOnce
<1>1. LearnerInv => EachRunCountsOnce BY DEF LearnerInv, EachRunCountsOnce
<1> QED BY <1>1, LearnerStart, LearnerStep, PTL DEF LearnerSpec

\* The floor that revise states: no order of ends, ratings, resets and
\* changes of the setting brings the arm below its prior.
THEOREM ArmStaysAbovePrior == LearnerSpec => []NeverBelowPrior
<1>1. LearnerInv => NeverBelowPrior BY DEF LearnerInv, LearnerTypeInv, ArmType, NeverBelowPrior
<1> QED BY <1>1, LearnerStart, LearnerStep, PTL DEF LearnerSpec
=============================================================================
