------------------------------ MODULE Vectors ------------------------------
(***************************************************************************)
(* The vectors of the memory store, and the embedding provider that may be *)
(* switched under it: learning/embedder-switch.ts, SwitchableEmbedder and  *)
(* LocalTransformerEmbedder (learning/embeddings.ts), the rebuild and its  *)
(* trigger (learning/reindex.ts, context.ts), create, update, reconcile    *)
(* and reindex (learning/memory.ts).  A call to the local model is         *)
(* awaited, and everything may happen meanwhile; the hashing embedder      *)
(* answers before anything else runs.                                      *)
(*                                                                         *)
(* Abstracted: a text to the number of the edit that wrote it; of the      *)
(* three stores a rebuild walks, the memories, in batches of one row; near *)
(* duplicates, which turn a creation into a reconciliation.                *)
(***************************************************************************)
EXTENDS Naturals, FiniteSets

CONSTANTS Memories,
          Writers,      \* requests that write a memory
          Rebuilds,     \* "trigger", and the button of the memory page
          MaxSwitches,  \* bound: settings saved, restarts and buttons
          MaxTexts,     \* bound: texts written
          Pending       \* no model

VARIABLES
    provider,   \* the family of SwitchableEmbedder.current, and the setting
    local,      \* state of the local model, "none" if none was loaded
    memory,     \* each row: its text, the text and the maker of its vector,
                \* and the model the row names
    again,      \* the rebuild trigger's flag
    pass,       \* each rebuild: the rows it listed, and the one at the model
    writer,     \* what each writer has at the model
    texts, switches

vectorVars == <<provider, local, memory, again, pass, writer, texts, switches>>

ASSUME VectorsAssumption ==
    /\ MaxSwitches \in Nat /\ MaxTexts \in Nat
    /\ Pending \notin {"hash", "st"} \cup Memories
    /\ "trigger" \in Rebuilds

NoRow == [text |-> 0, of |-> 0, by |-> Pending, model |-> Pending]
NotRunning == [rows |-> {}, mem |-> Pending, text |-> 0]
Quiet == [mem |-> Pending, op |-> "none", text |-> 0, seen |-> 0]

Exists(m) == memory[m].text # 0

-----------------------------------------------------------------------------
(* Rebuilding.  A step that starts or resumes a pass runs on the provider  *)
(* it leaves behind (provider', local').                                   *)

\* countStale and the listing of reindex: a row of no model is stale.
Stale(rows, live) == {<<m, rows[m].text>> : m \in {n \in Memories : rows[n].text # 0 /\ rows[n].model # live}}

\* A batch is written under the id of the provider that is live by then; a
\* row deleted meanwhile is not updated.
Rewritten(row, text, maker) ==
    IF row.text = 0 THEN row ELSE [row EXCEPT !.of = text, !.by = maker, !.model = provider']

\* How a pass with these rows left goes on: it waits for the local model, it
\* ends because that model is not ready, or it ends on the hashing embedder.
Resumed(left, rows) ==
    IF provider' = "st" /\ local' = "ready" /\ left # {}
      THEN {[job |-> [rows |-> left \ {r}, mem |-> r[1], text |-> r[2]], memory |-> rows] : r \in left}
    ELSE IF provider' = "st" THEN {[job |-> NotRunning, memory |-> rows]}
    ELSE {[job |-> NotRunning,
           memory |-> [m \in Memories |-> IF \E r \in left : r[1] = m
                         THEN Rewritten(rows[m], (CHOOSE r \in left : r[1] = m)[2], "hash")
                         ELSE rows[m]]]}

Starts(b, rows) ==
    \E p \in Resumed(Stale(rows, provider'), rows) :
        /\ pass' = [pass EXCEPT ![b] = p.job]
        /\ memory' = p.memory

Triggered_Dropping ==
    /\ UNCHANGED again
    /\ IF pass["trigger"] # NotRunning THEN UNCHANGED <<pass, memory>> ELSE Starts("trigger", memory)

\* createRebuildTrigger: one pass at a time, and one more if it was asked
\* for meanwhile.
Triggered ==
    IF pass["trigger"] # NotRunning
      THEN again' = TRUE /\ UNCHANGED <<pass, memory>>
      ELSE UNCHANGED again /\ Starts("trigger", memory)

\* The local model answers a pass.
RebuildAdvances(b) ==
    /\ pass[b] # NotRunning
    /\ UNCHANGED <<provider, local, writer, texts, switches>>
    /\ LET job == pass[b]
           rows == [memory EXCEPT ![job.mem] = Rewritten(@, job.text, "st")]
       IN  \E p \in Resumed(job.rows, rows) :
             IF p.job = NotRunning /\ b = "trigger" /\ again
               THEN again' = FALSE /\ Starts(b, p.memory)
               ELSE /\ pass' = [pass EXCEPT ![b] = p.job]
                    /\ memory' = p.memory
                    /\ UNCHANGED again

\* The memory page's "Re-index" runs a pass of its own.
PressReindex(b) ==
    /\ b # "trigger" /\ pass[b] = NotRunning
    /\ switches < MaxSwitches
    /\ switches' = switches + 1
    /\ UNCHANGED <<provider, local, again, writer, texts>>
    /\ Starts(b, memory)

-----------------------------------------------------------------------------
(* The provider *)

\* apply: a model loading or ready is kept, one that gave up is loaded again.
Apply(family) ==
    /\ provider # family
    /\ switches < MaxSwitches
    /\ switches' = switches + 1
    /\ provider' = family
    /\ local' = IF family = "st" /\ local \in {"none", "lexical-only"} THEN "loading" ELSE local
    /\ UNCHANGED <<writer, texts>>
    /\ IF family = "hash" \/ local' = "ready" THEN Triggered ELSE UNCHANGED <<again, pass, memory>>

\* warmup: onReady asks for a rebuild, whichever provider is live by then.
ModelLoads ==
    /\ local = "loading"
    /\ local' = "ready"
    /\ UNCHANGED <<provider, writer, texts, switches>>
    /\ Triggered

ModelGivesUp ==
    /\ local = "loading"
    /\ local' = "lexical-only"
    /\ UNCHANGED <<provider, memory, again, pass, writer, texts, switches>>

\* A new process on the stored setting, and its first rebuild.
Reboot ==
    /\ switches < MaxSwitches
    /\ switches' = switches + 1
    /\ provider' = provider
    /\ local' = IF provider = "st" THEN "loading" ELSE "none"
    /\ writer' = [w \in Writers |-> Quiet]
    /\ again' = FALSE
    /\ pass' = [b \in Rebuilds |-> NotRunning]
    /\ \E p \in Resumed(Stale(memory, provider'), memory) : memory' = p.memory
    /\ UNCHANGED texts

-----------------------------------------------------------------------------
(* Writing *)

\* Names of memories nothing refers to are used again.
Named(m) == \/ \E w \in Writers : writer[w].mem = m
            \/ \E b \in Rebuilds : pass[b].mem = m \/ \E r \in pass[b].rows : r[1] = m

\* create, update and reconcile up to the local model's answer; with no
\* model ready there is no call, and the row is left pending.
Write(w, m, op) ==
    /\ writer[w] = Quiet
    /\ IF op = "create" THEN ~Exists(m) /\ ~Named(m) ELSE Exists(m)
    /\ texts < MaxTexts
    /\ texts' = texts + 1
    /\ IF provider = "st" /\ local = "ready"
         THEN /\ writer' = [writer EXCEPT ![w] = [mem |-> m, op |-> op, text |-> texts + 1,
                                                  seen |-> memory[m].text]]
              /\ UNCHANGED memory
         ELSE /\ memory' = [memory EXCEPT ![m] =
                    IF provider = "st" THEN [NoRow EXCEPT !.text = texts + 1]
                    ELSE [text |-> texts + 1, of |-> texts + 1, by |-> "hash", model |-> "hash"]]
              /\ UNCHANGED writer
    /\ UNCHANGED <<provider, local, again, pass, switches>>

\* The vector arrives.  An update finds no row if it was deleted meanwhile;
\* reconcile reads again, and refuses on any drift.
Written(w) ==
    /\ writer[w] # Quiet
    /\ writer' = [writer EXCEPT ![w] = Quiet]
    /\ LET job == writer[w]
           row == memory[job.mem]
           lands == CASE job.op = "create" -> TRUE
                      [] job.op = "update" -> row.text # 0
                      [] job.op = "reconcile" -> row.text = job.seen
       IN  memory' = IF lands THEN [memory EXCEPT ![job.mem] =
                                      [text |-> job.text, of |-> job.text, by |-> "st", model |-> provider]]
                     ELSE memory
    /\ UNCHANGED <<provider, local, again, pass, texts, switches>>

Forget(m) ==
    /\ Exists(m)
    /\ memory' = [memory EXCEPT ![m] = NoRow]
    /\ UNCHANGED <<provider, local, again, pass, writer, texts, switches>>

VectorsInit ==
    /\ provider = "hash"
    /\ local = "none"
    /\ memory = [m \in Memories |-> NoRow]
    /\ again = FALSE
    /\ pass = [b \in Rebuilds |-> NotRunning]
    /\ writer = [w \in Writers |-> Quiet]
    /\ texts = 0 /\ switches = 0

VectorsNext ==
    \/ \E b \in Rebuilds : RebuildAdvances(b) \/ PressReindex(b)
    \/ \E family \in {"hash", "st"} : Apply(family)
    \/ ModelLoads \/ ModelGivesUp \/ Reboot
    \/ \E w \in Writers, m \in Memories, op \in {"create", "update", "reconcile"} : Write(w, m, op)
    \/ \E w \in Writers : Written(w)
    \/ \E m \in Memories : Forget(m)

VectorsSpec == VectorsInit /\ [][VectorsNext]_vectorVars

-----------------------------------------------------------------------------
(* Properties *)

\* reindex.ts, "asks that arrive while it runs collapse into exactly one
\* more, which sees whatever they added": when nothing is in flight and the
\* live provider is ready, every memory names it, whatever was switched,
\* written, restarted or given up while a rebuild ran.
NoRowIsLeftBehind ==
    /\ provider = "hash" \/ local = "ready"
    /\ \A b \in Rebuilds : pass[b] = NotRunning
    /\ \A w \in Writers : writer[w] = Quiet
    => Stale(memory, provider) = {}

\* reindex.ts: "every stored vector carries the id that made it".
VectorsNameTheirMaker ==
    \A m \in Memories : memory[m].model # Pending => memory[m].by = memory[m].model

\* memory.ts, update: no vector "describes text that no longer exists".
VectorsDescribeTheirText ==
    \A m \in Memories : memory[m].model # Pending => memory[m].of = memory[m].text
=============================================================================
