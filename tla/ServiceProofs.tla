--------------------------- MODULE ServiceProofs ---------------------------
(* What is proved of the smaller services, for any number of models, runs, *)
(* links, requests and events.  Each section is about one module.          *)
EXTENDS Transcript, Quota, McpOAuth, Updates, Attachments, BoardOrder, DataLemmas

-----------------------------------------------------------------------------
(* Transcript: tool calls close *)

IsRow(r) == r = Row(r.seq, r.event, r.running)

\* A row that runs is a call its attempt still holds open, or the process is
\* gone that could have closed it.
RunningRowsInv ==
    \A r \in rows :
        /\ IsRow(r)
        /\ r.running => phase = "down" \/ (phase = "streaming" /\ r.event \in openCalls)

\* A row after an insert is an old one or the new one.
LEMMA AppendedRows ==
    ASSUME NEW n, NEW event, NEW running, NEW r \in Appended(n, event, running)
    PROVE  r \in rows \/ r = Row(n, event, running)
BY DEF Appended

\* Closing keeps a row or ends it.
After(r, C) == IF r.event \in C THEN [r EXCEPT !.running = FALSE] ELSE r

LEMMA ClosedRow ==
    ASSUME NEW r, IsRow(r), NEW C, NEW q, q = After(r, C)
    PROVE  /\ IsRow(q) /\ q.event = r.event
           /\ q.running = (IF r.event \in C THEN FALSE ELSE r.running)
<1>1. CASE r.event \in C
  <2>1. q = Row(r.seq, r.event, FALSE) BY <1>1 DEF After, Row, IsRow
  <2> QED BY <1>1, <2>1 DEF Row, IsRow
<1>2. CASE r.event \notin C
  BY <1>2 DEF After
<1> QED BY <1>1, <1>2

LEMMA NoteKeeps ==
    ASSUME RunningRowsInv, Note, phase # "streaming", phase # "down"
    PROVE  \A r \in rows' : IsRow(r) /\ ~r.running
<1> SUFFICES ASSUME NEW r \in rows' PROVE IsRow(r) /\ ~r.running
  OBVIOUS
<1>1. r \in rows \/ r = Row(NextSeq, shown + 1, FALSE)
  BY AppendedRows DEF Note
<1>2. CASE r \in rows BY <1>2 DEF RunningRowsInv
<1>3. CASE r = Row(NextSeq, shown + 1, FALSE) BY <1>3 DEF Row, IsRow
<1> QED BY <1>1, <1>2, <1>3

LEMMA TranscriptStep == RunningRowsInv /\ [TranscriptNext]_transcriptVars => RunningRowsInv'
<1> SUFFICES ASSUME RunningRowsInv, [TranscriptNext]_transcriptVars PROVE RunningRowsInv'
  OBVIOUS
<1>1. CASE Prepared BY <1>1 DEF Prepared, RunningRowsInv
<1>2. CASE PrepareFails BY <1>2, NoteKeeps DEF PrepareFails, RunningRowsInv
<1>3. CASE Execute
  <2> SUFFICES ASSUME NEW r \in rows' PROVE IsRow(r) /\ ~r.running
    BY DEF RunningRowsInv
  <2>1. r \in rows \/ r = Row(0, shown + 1, FALSE) BY <1>3, AppendedRows DEF Execute
  <2>2. CASE r \in rows BY <1>3, <2>2 DEF Execute, RunningRowsInv
  <2>3. CASE r = Row(0, shown + 1, FALSE) BY <2>3 DEF Row, IsRow
  <2> QED BY <2>1, <2>2, <2>3
<1>4. CASE Switch BY <1>4, NoteKeeps DEF Switch, RunningRowsInv
<1>5. CASE GiveUp BY <1>5, NoteKeeps DEF GiveUp, RunningRowsInv
<1>6. CASE Result BY <1>6, NoteKeeps DEF Result, RunningRowsInv
<1>7. ASSUME NEW running \in BOOLEAN, Emit(running) PROVE RunningRowsInv'
  <2> SUFFICES ASSUME NEW r \in rows'
               PROVE  IsRow(r) /\ (r.running => r.event \in openCalls')
    BY <1>7 DEF RunningRowsInv, Emit
  <2>1. r \in rows \/ r = Row(seq, shown + 1, running) BY <1>7, AppendedRows DEF Emit
  <2>2. CASE r \in rows BY <1>7, <2>2 DEF Emit, RunningRowsInv
  <2>3. CASE r = Row(seq, shown + 1, running) BY <1>7, <2>3 DEF Emit, Row, IsRow
  <2> QED BY <2>1, <2>2, <2>3
<1>8. ASSUME NEW call \in openCalls, ToolReturns(call) PROVE RunningRowsInv'
  <2> SUFFICES ASSUME NEW q \in rows'
               PROVE  IsRow(q) /\ (q.running => q.event \in openCalls')
    BY <1>8 DEF RunningRowsInv, ToolReturns
  <2>1. PICK r \in rows : q = After(r, {call})
    BY <1>8 DEF ToolReturns, Closed, After
  <2>2. /\ IsRow(q) /\ q.event = r.event
        /\ q.running = (IF r.event \in {call} THEN FALSE ELSE r.running)
    BY <2>1, ClosedRow DEF RunningRowsInv
  <2> QED BY <1>8, <2>1, <2>2 DEF ToolReturns, RunningRowsInv
<1>9. ASSUME NEW call \in openCalls, TodoReturns(call) PROVE RunningRowsInv'
  <2> SUFFICES ASSUME NEW q \in rows'
               PROVE  IsRow(q) /\ (q.running => q.event \in openCalls')
    BY <1>9 DEF RunningRowsInv, TodoReturns
  <2> DEFINE made == Appended(seq, shown + 1, FALSE)
  <2>1. ASSUME NEW r \in made
        PROVE  IsRow(r) /\ (r.running => r.event \in openCalls)
    <3>1. r \in rows \/ r = Row(seq, shown + 1, FALSE) BY <2>1, AppendedRows
    <3>2. CASE r \in rows BY <1>9, <3>2 DEF TodoReturns, RunningRowsInv
    <3>3. CASE r = Row(seq, shown + 1, FALSE) BY <3>3 DEF Row, IsRow
    <3> QED BY <3>1, <3>2, <3>3
  <2>2. rows' = {IF r.event = call THEN [r EXCEPT !.running = FALSE] ELSE r : r \in made}
    BY <1>9 DEF TodoReturns
  <2> HIDE DEF made
  <2>3. PICK r \in made : q = After(r, {call})
    BY <2>2 DEF After
  <2>4. /\ IsRow(q) /\ q.event = r.event
        /\ q.running = (IF r.event \in {call} THEN FALSE ELSE r.running)
    BY <2>1, <2>3, ClosedRow
  <2> QED BY <1>9, <2>1, <2>3, <2>4 DEF TodoReturns
<1>10. ASSUME NEW next \in {"answered", "ended"}, Finalise(next) PROVE RunningRowsInv'
  <2> SUFFICES ASSUME NEW q \in rows' PROVE IsRow(q) /\ ~q.running
    BY DEF RunningRowsInv
  <2>1. PICK r \in rows : q = After(r, openCalls)
    BY <1>10 DEF Finalise, Closed, After
  <2>11. IsRow(r) BY DEF RunningRowsInv
  <2>2. /\ IsRow(q) /\ q.event = r.event
        /\ q.running = (IF r.event \in openCalls THEN FALSE ELSE r.running)
    BY <2>1, <2>11, ClosedRow
  <2>3. r.running => r.event \in openCalls BY <1>10 DEF Finalise, RunningRowsInv
  <2> QED BY <2>2, <2>3
<1>11. CASE TranscriptCrash BY <1>11 DEF TranscriptCrash, RunningRowsInv
<1>12. CASE Rebooted
  <2> SUFFICES ASSUME NEW q \in rows' PROVE IsRow(q) /\ ~q.running
    BY DEF RunningRowsInv
  <2> DEFINE all == {r.event : r \in rows}
  <2>1. PICK r \in rows : q = After(r, all)
    BY <1>12 DEF Rebooted, Closed, After
  <2>2. /\ IsRow(q) /\ q.event = r.event
        /\ q.running = (IF r.event \in all THEN FALSE ELSE r.running)
    BY <2>1, ClosedRow DEF RunningRowsInv
  <2>3. r.event \in all OBVIOUS
  <2> QED BY <2>2, <2>3
<1>13. CASE UNCHANGED transcriptVars BY <1>13 DEF transcriptVars, RunningRowsInv
<1> QED
  BY <1>1, <1>2, <1>3, <1>4, <1>5, <1>6, <1>7, <1>8, <1>9, <1>10, <1>11, <1>12, <1>13 DEF TranscriptNext

\* No stored tool call runs on after the attempt that made it, for any number
\* of attempts and events, refused inserts and deaths of the process included.
THEOREM ToolCallsAlwaysClose == TranscriptSpec => []ToolCallsClose
<1>1. TranscriptInit => RunningRowsInv BY DEF TranscriptInit, RunningRowsInv
<1>2. RunningRowsInv => ToolCallsClose BY DEF RunningRowsInv, ToolCallsClose
<1> QED BY <1>1, <1>2, TranscriptStep, PTL DEF TranscriptSpec

-----------------------------------------------------------------------------
(* Quota: a switch goes to a free model *)

FlightType ==
    [at : {"idle", "attempt", "over"}, model : Models \cup {Grounded.model}, switches : Nat, stopped : BOOLEAN]

\* What any run was told holds in the shared memory until it has passed.
HoldsInv ==
    /\ clock \in Nat
    /\ refused \in [Models -> Nat] /\ told \in [Models -> Nat]
    /\ flight \in [Flights -> FlightType]
    /\ \A f \in Flights : flight[f].at # "idle" => flight[f].model \in Models
    /\ \A m \in Models : told[m] > clock => refused[m] >= told[m]

LEMMA FlightFields ==
    ASSUME NEW x \in FlightType
    PROVE  x.at \in {"idle", "attempt", "over"} /\ x.switches \in Nat /\ x.stopped \in BOOLEAN
BY DEF FlightType

LEMMA RefusalHolds ==
    ASSUME HoldsInv, NEW f \in Flights, NEW scope, NEW until \in {clock, clock + Hold, clock + Hold + 1}, Refusal(f, scope, until)
    PROVE  /\ HoldsInv'
           /\ \A g \in Flights : flight'[g].switches > flight[g].switches =>
                flight'[g].model # flight[g].model /\ told[flight'[g].model] <= clock
<1> DEFINE m == flight[f].model
           held == [refused EXCEPT ![m] = HeldUntil(@, until)]
           left == Models \ Unavailable(f, held)
<1>1. until \in Nat BY QuotaAssumption DEF HoldsInv
<1>2. m \in Models /\ flight[f] \in FlightType BY DEF Refusal, HoldsInv
<1>3. HeldUntil(refused[m], until) \in Nat BY <1>1, <1>2 DEF HeldUntil, HoldsInv
<1>4. CASE Lands(f) /\ UNCHANGED <<refused, told, clock>>
  BY <1>2, <1>4 DEF Lands, HoldsInv, FlightType
<1>5. CASE /\ refused' = held
           /\ told' = [told EXCEPT ![m] = IF @ > until THEN @ ELSE until]
           /\ UNCHANGED clock
           /\ \/ Lands(f)
              \/ \E next \in left : flight' = [flight EXCEPT ![f].model = next, ![f].switches = @ + 1]
  <2>1. refused' \in [Models -> Nat] /\ told' \in [Models -> Nat]
    BY <1>1, <1>2, <1>3, <1>5 DEF HoldsInv
  <2>2. ASSUME NEW n \in Models, told'[n] > clock PROVE refused'[n] >= told'[n]
    <3>1. refused[n] \in Nat /\ told[n] \in Nat /\ clock \in Nat BY DEF HoldsInv
    <3>2. told[n] > clock => refused[n] >= told[n] BY DEF HoldsInv
    <3>3. CASE n = m
      <4>1. refused'[n] = HeldUntil(refused[n], until) /\ told'[n] = IF told[n] > until THEN told[n] ELSE until
        BY <1>2, <1>5, <3>3 DEF HoldsInv
      <4> QED BY <1>1, <2>2, <3>1, <3>2, <4>1 DEF HeldUntil
    <3>4. CASE n # m
      <4>1. refused'[n] = refused[n] /\ told'[n] = told[n] BY <1>2, <1>5, <3>4 DEF HoldsInv
      <4> QED BY <2>2, <3>2, <4>1
    <3> QED BY <3>3, <3>4
  <2>3. CASE Lands(f)
    BY <1>2, <1>5, <2>1, <2>2, <2>3 DEF Lands, HoldsInv, FlightType
  <2>4. ASSUME NEW next \in left, flight' = [flight EXCEPT ![f].model = next, ![f].switches = @ + 1]
        PROVE  /\ HoldsInv'
               /\ \A g \in Flights : flight'[g].switches > flight[g].switches =>
                    flight'[g].model # flight[g].model /\ told[flight'[g].model] <= clock
    <3>1. next \in Models /\ next # m /\ ~(held[next] > clock)
      BY DEF Unavailable, BlockedModels
    <3>2. held[next] = refused[next] BY <1>2, <3>1 DEF HoldsInv
    <3>3. told[next] <= clock BY <3>1, <3>2 DEF HoldsInv
    <3>4. flight'[f] = [flight[f] EXCEPT !.model = next, !.switches = @ + 1] /\ \A g \in Flights \ {f} : flight'[g] = flight[g]
      BY <2>4 DEF HoldsInv
    <3>5. flight'[f].model = next /\ flight'[f] \in FlightType
      <4>1. flight[f] \in FlightType /\ next \in Models \cup {Grounded.model} BY <1>2, <3>1
      <4>2. [flight[f] EXCEPT !.model = next, !.switches = @ + 1] \in FlightType
        <5>1. PICK a \in {"idle", "attempt", "over"}, d \in Models \cup {Grounded.model}, n \in Nat, b \in BOOLEAN :
                flight[f] = [at |-> a, model |-> d, switches |-> n, stopped |-> b]
          BY <4>1 DEF FlightType
        <5> DEFINE x == [flight[f] EXCEPT !.model = next]
        <5>2. x = [at |-> a, model |-> next, switches |-> n, stopped |-> b]
          BY <5>1
        <5>3. [flight[f] EXCEPT !.model = next, !.switches = @ + 1] = [x EXCEPT !.switches = @ + 1]
          BY <5>1
        <5> HIDE DEF x
        <5>4. [x EXCEPT !.switches = @ + 1] = [at |-> a, model |-> next, switches |-> n + 1, stopped |-> b]
          BY <5>2
        <5>5. n + 1 \in Nat OBVIOUS
        <5> QED BY <4>1, <5>3, <5>4, <5>5 DEF FlightType
      <4>3. [flight[f] EXCEPT !.model = next, !.switches = @ + 1].model = next BY <4>1 DEF FlightType
      <4> QED BY <3>4, <4>2, <4>3
    <3>6. flight' \in [Flights -> FlightType] BY <2>4, <3>4, <3>5 DEF HoldsInv
    <3>7. \A g \in Flights : flight'[g].at # "idle" => flight'[g].model \in Models
      BY <3>1, <3>4, <3>5 DEF HoldsInv
    <3>8. ASSUME NEW g \in Flights, flight'[g].switches > flight[g].switches
          PROVE  flight'[g].model # flight[g].model /\ told[flight'[g].model] <= clock
      <4>1. CASE g = f BY <3>1, <3>3, <3>5, <4>1
      <4>2. CASE g # f
        <5>1. flight[g].switches \in Nat BY FlightFields DEF HoldsInv
        <5> QED BY <3>4, <3>8, <4>2, <5>1
      <4> QED BY <4>1, <4>2
    <3> QED BY <1>5, <2>1, <2>2, <3>6, <3>7, <3>8 DEF HoldsInv
  <2> QED BY <1>5, <2>3, <2>4
<1> QED BY <1>4, <1>5 DEF Refusal

LEMMA QuotaStep ==
    HoldsInv /\ [QuotaNext]_quotaVars =>
      /\ HoldsInv'
      /\ \A g \in Flights : flight'[g].switches > flight[g].switches =>
           flight'[g].model # flight[g].model /\ told[flight'[g].model] <= clock
<1> DEFINE Safe == /\ HoldsInv'
                   /\ \A g \in Flights : flight'[g].switches > flight[g].switches =>
                        flight'[g].model # flight[g].model /\ told[flight'[g].model] <= clock
<1> SUFFICES ASSUME HoldsInv, [QuotaNext]_quotaVars PROVE Safe
  OBVIOUS
<1>1. ASSUME NEW f \in Flights, NEW m \in Models, Depart(f, m) PROVE Safe
  <2>1. /\ flight[f] \in FlightType /\ UNCHANGED <<clock, refused, told>>
        /\ flight' = [flight EXCEPT ![f] = [[flight[f] EXCEPT !.at = "attempt"] EXCEPT !.model = m]]
    BY <1>1 DEF Depart, HoldsInv, FlightType
  <2> DEFINE x == [[flight[f] EXCEPT !.at = "attempt"] EXCEPT !.model = m]
  <2>2. x \in FlightType /\ x.model = m /\ x.switches = flight[f].switches BY <2>1 DEF FlightType
  <2> HIDE DEF x
  <2>3. flight'[f] = x /\ \A g \in Flights \ {f} : flight'[g] = flight[g] BY <2>1 DEF HoldsInv, x
  <2>4. flight' \in [Flights -> FlightType] BY <2>1, <2>2 DEF HoldsInv, x
  <2>5. \A g \in Flights : flight[g].switches \in Nat BY FlightFields DEF HoldsInv
  <2>6. \A g \in Flights : ~(flight'[g].switches > flight[g].switches) BY <2>2, <2>3, <2>5
  <2>7. \A g \in Flights : flight'[g].at # "idle" => flight'[g].model \in Models BY <2>2, <2>3 DEF HoldsInv
  <2> QED BY <2>1, <2>4, <2>6, <2>7 DEF HoldsInv
<1>2. ASSUME NEW f \in Flights, StopFlight(f) PROVE Safe
  <2> DEFINE x == [flight[f] EXCEPT !.stopped = TRUE]
  <2>1. flight[f] \in FlightType /\ UNCHANGED <<clock, refused, told>> /\ flight' = [flight EXCEPT ![f] = x]
    BY <1>2 DEF StopFlight, HoldsInv
  <2>2. x \in FlightType /\ x.model = flight[f].model /\ x.switches = flight[f].switches /\ x.at = flight[f].at
    BY <2>1 DEF FlightType
  <2> HIDE DEF x
  <2>3. flight'[f] = x /\ \A g \in Flights \ {f} : flight'[g] = flight[g] BY <2>1 DEF HoldsInv
  <2>4. flight' \in [Flights -> FlightType] BY <2>1, <2>2 DEF HoldsInv
  <2>5. \A g \in Flights : flight[g].switches \in Nat BY FlightFields DEF HoldsInv
  <2>6. \A g \in Flights : ~(flight'[g].switches > flight[g].switches) BY <2>2, <2>3, <2>5
  <2>7. \A g \in Flights : flight'[g].at # "idle" => flight'[g].model \in Models BY <2>2, <2>3 DEF HoldsInv
  <2> QED BY <2>1, <2>4, <2>6, <2>7 DEF HoldsInv
<1>3. ASSUME NEW f \in Flights, Served(f) PROVE Safe
  BY <1>3 DEF Served, Lands, HoldsInv, FlightType
<1>4. ASSUME NEW f \in Flights, NEW scope \in {"model", "global"}, NEW until \in {clock, clock + Hold, clock + Hold + 1},
             Refusal(f, scope, until)
      PROVE  Safe
  BY <1>4, RefusalHolds
<1>5. ASSUME Pass PROVE Safe
  BY <1>5 DEF Pass, HoldsInv, FlightType
<1>6. ASSUME UNCHANGED quotaVars PROVE Safe
  BY <1>6 DEF quotaVars, HoldsInv, FlightType
<1> HIDE DEF Safe
<1> QED BY <1>1, <1>2, <1>3, <1>4, <1>5, <1>6 DEF QuotaNext

\* For any number of runs and models and any limit, a refused run is never
\* switched to a model that any run was told is spent until later.
THEOREM SwitchesAreToFreeModels == QuotaSpec => SwitchesToAFreeModel
<1>1. QuotaInit => HoldsInv
  <2> SUFFICES ASSUME QuotaInit PROVE HoldsInv
    OBVIOUS
  <2>1. Grounded \in FlightType /\ Grounded.at = "idle" BY DEF Grounded, FlightType
  <2> QED BY <2>1 DEF QuotaInit, HoldsInv
<1>2. HoldsInv /\ [QuotaNext]_quotaVars => HoldsInv' BY QuotaStep
<1>3. HoldsInv /\ [QuotaNext]_quotaVars =>
        [\A f \in Flights : flight'[f].switches > flight[f].switches =>
           /\ flight'[f].model # flight[f].model
           /\ told[flight'[f].model] <= clock]_quotaVars
  BY QuotaStep
<1> QED BY <1>1, <1>2, <1>3, PTL DEF QuotaSpec, SwitchesToAFreeModel

-----------------------------------------------------------------------------
(* McpOAuth: codes and tokens *)

\* A code that was sent has lost its state, and its link cannot be offered again.
SentInv ==
    /\ posted \in [Links -> {0, 1}]
    /\ \A l \in Links : posted[l] = 1 => l \in consented /\ l \notin pending

LEMMA SentStep == SentInv /\ [OAuthNext]_oauthVars => SentInv'
<1> SUFFICES ASSUME SentInv, [OAuthNext]_oauthVars PROVE SentInv'
  OBVIOUS
<1> USE DEF SentInv
<1>1. ASSUME NEW l \in Links, Begin(l) PROVE SentInv'
  BY <1>1 DEF Begin, server
<1>2. ASSUME NEW l \in Links, StateLapses(l) PROVE SentInv'
  BY <1>2 DEF StateLapses, server
<1>3. ASSUME NEW l \in Links, Consent(l) PROVE SentInv'
  BY <1>3 DEF Consent, vault
<1>4. ASSUME NEW e \in Exchanges, NEW l \in Links, Callback(e, l) PROVE SentInv'
  <2>1. l \in consented /\ l \in pending /\ pending' = pending \ {l} /\ consented' = consented
    BY <1>4 DEF Callback, TakenState, server
  <2>2. posted' = posted \/ posted' = [posted EXCEPT ![l] = @ + 1]
    BY <1>4 DEF Callback
  <2>3. posted[l] = 0 BY <2>1
  <2> QED BY <2>1, <2>2, <2>3
<1>5. ASSUME NEW e \in Exchanges, Renew(e) \/ Refused(e) \/ AnswerIsLost(e) PROVE SentInv'
  BY <1>5 DEF Renew, Refused, AnswerIsLost, vault, server
<1>6. ASSUME NEW e \in Exchanges, NEW b \in BOOLEAN, Serves(e, b) PROVE SentInv'
  BY <1>6 DEF Serves, vault
<1>7. ASSUME NEW e \in Exchanges, NEW expiry \in {"unknown", "far"}, Granted(e, expiry) PROVE SentInv'
  BY <1>7 DEF Granted, server
<1>8. CASE TokenAges \/ Revoke
  BY <1>8 DEF TokenAges, Revoke, server
<1>9. CASE UNCHANGED oauthVars
  BY <1>9 DEF oauthVars, vault, server
<1> QED BY <1>1, <1>2, <1>3, <1>4, <1>5, <1>6, <1>7, <1>8, <1>9 DEF OAuthNext

\* However often the browser comes back, and for any number of links and of
\* requests at one time, a code is sent once.
THEOREM CodesAreSentOnce == OAuthSpec => []CodeIsSentOnce
<1>1. OAuthInit => SentInv BY DEF OAuthInit, SentInv
<1>2. SentInv => CodeIsSentOnce BY DEF SentInv, CodeIsSentOnce
<1> QED BY <1>1, <1>2, SentStep, PTL DEF OAuthSpec

ExchangeType ==
    [at : {"free", "posted", "granted", "refused"}, link : Links \cup {Nothing},
     verifier : Links \cup {Nothing}, number : Nat]

TokenType == [access : BOOLEAN, number : Nat, expiry : {"unknown", "far", "near"}]

OAuthTyped ==
    /\ exchange \in [Exchanges -> ExchangeType]
    /\ token \in TokenType
    /\ verifier \in Links \cup {Nothing}
    /\ issued \in Nat /\ valid \subseteq 1..issued
    /\ granted \in BOOLEAN /\ lost \in BOOLEAN

\* The answer with a new refresh token, on its way to the vault.
Carries(e) == exchange[e].at = "granted" /\ exchange[e].number # 0

\* A new token is valid and no one else's until it is stored; while none is
\* on its way, the vault's own is.
TokensInv ==
    /\ token.number <= issued
    /\ \A e \in Exchanges : exchange[e].number <= issued
    /\ \A e \in Exchanges : exchange[e].at = "granted" /\ exchange[e].link # Nothing => exchange[e].number # 0
    /\ \A e \in Exchanges : Carries(e) =>
         /\ exchange[e].number \in valid /\ exchange[e].number # token.number
         /\ \A x \in Exchanges \ {e} : exchange[x].at \in {"posted", "granted"} => exchange[x].number # exchange[e].number
    /\ granted /\ ~lost => token.number \in valid \/ \E e \in Exchanges : Carries(e)

OAuthInv == OAuthTyped /\ TokensInv

LEMMA ExchangeFields ==
    ASSUME NEW x \in ExchangeType
    PROVE  /\ x.at \in {"free", "posted", "granted", "refused"} /\ x.number \in Nat
           /\ x.link \in Links \cup {Nothing} /\ x.verifier \in Links \cup {Nothing}
BY DEF ExchangeType

LEMMA OpenIsTyped == Open \in ExchangeType /\ Open.at = "free" /\ Open.number = 0 /\ Open.link = Nothing
BY DEF Open, ExchangeType

\* One exchange moves and the others stay.
Moved(e, x) ==
    /\ exchange' \in [Exchanges -> ExchangeType] /\ x \in ExchangeType
    /\ exchange'[e] = x /\ \A y \in Exchanges \ {e} : exchange'[y] = exchange[y]

LEMMA MovedTo ==
    ASSUME OAuthTyped, NEW e \in Exchanges, NEW x \in ExchangeType, exchange' = [exchange EXCEPT ![e] = x]
    PROVE  Moved(e, x)
BY DEF Moved, OAuthTyped

\* An exchange that carries nothing new.
LEMMA Uneventful ==
    ASSUME OAuthInv, NEW e \in Exchanges, NEW x, Moved(e, x), ~Carries(e) \/ lost', x.number <= issued,
           x.at # "granted", x.at = "posted" => x.number \in {0, token.number},
           token' = token, issued' = issued, valid' = valid, granted' = granted, lost => lost'
    PROVE  TokensInv'
<1>1. \A y \in Exchanges \ {e} : Carries(y)' <=> Carries(y) BY DEF Moved, Carries
<1>2. ~Carries(e)' BY DEF Moved, Carries
<1> USE DEF OAuthInv, TokensInv
<1>3. token'.number <= issued' /\ \A y \in Exchanges : exchange'[y].number <= issued'
  BY DEF Moved
<1>4. \A y \in Exchanges : exchange'[y].at = "granted" /\ exchange'[y].link # Nothing => exchange'[y].number # 0
  BY DEF Moved
<1>5. ASSUME NEW y \in Exchanges, Carries(y)'
      PROVE  /\ exchange'[y].number \in valid' /\ exchange'[y].number # token'.number
             /\ \A z \in Exchanges \ {y} :
                  exchange'[z].at \in {"posted", "granted"} => exchange'[z].number # exchange'[y].number
  <2>1. y # e /\ Carries(y) /\ exchange'[y] = exchange[y] BY <1>1, <1>2, <1>5 DEF Moved
  <2>2. exchange[y].number # 0 BY <2>1 DEF Carries
  <2> QED BY <2>1, <2>2 DEF Moved
<1>6. granted' /\ ~lost' => token'.number \in valid' \/ \E y \in Exchanges : Carries(y)'
  BY <1>1, <1>2
<1> QED BY <1>3, <1>4, <1>5, <1>6 DEF Carries

LEMMA ServesKeeps ==
    ASSUME OAuthInv, NEW e \in Exchanges, NEW replaces \in BOOLEAN, Serves(e, replaces)
    PROVE  OAuthInv'
<1> USE DEF OAuthInv
<1> DEFINE x == exchange[e]
           accepts == IF x.link # Nothing THEN x.link \notin redeemed /\ x.verifier = x.link ELSE x.number \in valid
           fresh == IF x.link # Nothing \/ replaces THEN issued + 1 ELSE 0
           number == IF accepts THEN fresh ELSE x.number
           at == IF accepts THEN "granted" ELSE "refused"
           y == [[x EXCEPT !.at = at] EXCEPT !.number = number]
<1>1. x \in ExchangeType /\ x.at = "posted" /\ issued \in Nat BY DEF Serves, OAuthTyped
<1>2. /\ exchange' = [exchange EXCEPT ![e] = y]
      /\ valid' = IF ~accepts \/ fresh = 0 THEN valid ELSE (valid \ {x.number}) \cup {fresh}
      /\ issued' = IF accepts THEN issued + 1 ELSE issued
      /\ token' = token /\ verifier' = verifier /\ granted' = granted /\ lost' = lost
  BY <1>1 DEF Serves, vault, OAuthTyped, ExchangeType
<1>3. fresh \in Nat /\ number \in Nat /\ at \in {"granted", "refused"}
  BY <1>1, ExchangeFields
<1>4. y \in ExchangeType /\ y.at = at /\ y.number = number /\ y.link = x.link
  <2> HIDE DEF at, number
  <2> QED BY <1>1, <1>3 DEF ExchangeType
<1>5. Moved(e, y)
  <2> HIDE DEF y
  <2> QED BY <1>2, <1>4, MovedTo
<1>6. OAuthTyped'
  <2> HIDE DEF y
  <2>1. issued' \in Nat /\ valid' \subseteq 1..issued'
    BY <1>1, <1>2 DEF OAuthTyped
  <2> QED BY <1>2, <1>5, <2>1 DEF OAuthTyped, Moved
<1>7. TokensInv'
  <2> HIDE DEF y
  <2>1. /\ token.number \in Nat /\ token.number <= issued /\ x.number \in Nat /\ x.number <= issued
        /\ \A z \in Exchanges : exchange[z].number \in Nat /\ exchange[z].number <= issued
    BY <1>1, ExchangeFields DEF OAuthTyped, TokenType, TokensInv
  <2>2. \A z \in Exchanges \ {e} : exchange'[z] = exchange[z] /\ (Carries(z)' <=> Carries(z))
    BY <1>5 DEF Moved, Carries
  <2>3. exchange'[e] = y BY <1>5 DEF Moved
  <2>4. CASE ~accepts
    <3>1. y.at = "refused" /\ y.number = x.number /\ valid' = valid /\ issued' = issued
      BY <1>2, <1>4, <2>4
    <3>2. ~Carries(e) /\ y.number <= issued BY <1>1, <2>1, <3>1 DEF Carries
    <3> QED BY <1>2, <1>5, <3>1, <3>2, Uneventful
  <2>5. CASE accepts /\ fresh = 0
    <3>1. y.at = "granted" /\ y.number = 0 /\ valid' = valid /\ issued' = issued + 1 /\ x.link = Nothing
      BY <1>1, <1>2, <1>4, <2>5
    <3>2. ~Carries(e) /\ ~Carries(e)' BY <1>1, <2>3, <3>1 DEF Carries
    <3>3. token'.number <= issued' /\ \A z \in Exchanges : exchange'[z].number <= issued'
      BY <1>1, <1>2, <2>1, <2>2, <2>3, <3>1
    <3>4. \A z \in Exchanges : exchange'[z].at = "granted" /\ exchange'[z].link # Nothing => exchange'[z].number # 0
      BY <1>4, <2>2, <2>3, <3>1 DEF TokensInv
    <3>5. ASSUME NEW z \in Exchanges, Carries(z)'
          PROVE  /\ exchange'[z].number \in valid' /\ exchange'[z].number # token'.number
                 /\ \A w \in Exchanges \ {z} :
                      exchange'[w].at \in {"posted", "granted"} => exchange'[w].number # exchange'[z].number
      <4>1. z # e /\ Carries(z) /\ exchange'[z] = exchange[z] BY <2>2, <3>2, <3>5
      <4>2. exchange[z].number # 0 BY <4>1 DEF Carries
      <4> QED BY <1>2, <2>2, <2>3, <3>1, <4>1, <4>2 DEF TokensInv
    <3>6. granted' /\ ~lost' => token'.number \in valid' \/ \E z \in Exchanges : Carries(z)'
      BY <1>2, <2>2, <3>1, <3>2 DEF TokensInv
    <3> QED BY <3>3, <3>4, <3>5, <3>6 DEF TokensInv, Carries
  <2>6. CASE accepts /\ fresh # 0
    <3>1. /\ y.at = "granted" /\ y.number = issued + 1 /\ issued' = issued + 1
          /\ valid' = (valid \ {x.number}) \cup {issued + 1}
      BY <1>1, <1>2, <1>4, <2>6
    <3>2. Carries(e)' BY <1>1, <2>3, <3>1 DEF Carries
    <3>3. token'.number <= issued' /\ \A z \in Exchanges : exchange'[z].number <= issued'
      BY <1>1, <1>2, <2>1, <2>2, <2>3, <3>1
    <3>4. \A z \in Exchanges : exchange'[z].at = "granted" /\ exchange'[z].link # Nothing => exchange'[z].number # 0
      BY <1>1, <2>2, <2>3, <3>1 DEF TokensInv
    <3>5. ASSUME NEW z \in Exchanges, Carries(z)'
          PROVE  /\ exchange'[z].number \in valid' /\ exchange'[z].number # token'.number
                 /\ \A w \in Exchanges \ {z} :
                      exchange'[w].at \in {"posted", "granted"} => exchange'[w].number # exchange'[z].number
      <4>1. CASE z = e
        BY <1>1, <1>2, <2>1, <2>2, <2>3, <3>1, <4>1
      <4>2. CASE z # e
        <5>1. Carries(z) /\ exchange'[z] = exchange[z] BY <2>2, <3>5, <4>2
        <5>2. exchange[z].number # x.number BY <1>1, <4>2, <5>1 DEF TokensInv
        <5>3. exchange[z].number # issued + 1 BY <1>1, <2>1
        <5> QED BY <1>2, <2>2, <2>3, <3>1, <5>1, <5>2, <5>3 DEF TokensInv
      <4> QED BY <4>1, <4>2
    <3> QED BY <3>2, <3>3, <3>4, <3>5 DEF TokensInv, Carries
  <2> QED BY <2>4, <2>5, <2>6
<1> QED BY <1>6, <1>7

LEMMA GrantedKeeps ==
    ASSUME OAuthInv, NEW e \in Exchanges, NEW expiry \in {"unknown", "far"}, Granted(e, expiry)
    PROVE  OAuthInv'
<1> USE DEF OAuthInv
<1> DEFINE x == exchange[e]
<1>1. x \in ExchangeType /\ x.at = "granted" /\ x.number \in Nat /\ token \in TokenType
  BY ExchangeFields DEF Granted, OAuthTyped
<1>2. Moved(e, Open) BY OpenIsTyped, MovedTo DEF Granted
<1>3. /\ token' = Stored(x.number, expiry)
      /\ verifier' \in {verifier, Nothing}
      /\ granted' = (granted \/ x.link # Nothing)
      /\ issued' = issued /\ valid' = valid /\ lost' = lost
  BY DEF Granted, server
<1> HIDE DEF x
<1>4. token' \in TokenType /\ token'.number = IF x.number = 0 THEN token.number ELSE x.number
  BY <1>1, <1>3 DEF Stored, TokenType
<1>5. OAuthTyped'
  BY <1>2, <1>3, <1>4 DEF OAuthTyped, Moved
<1>6. TokensInv'
  <2>1. /\ exchange'[e].at = "free" /\ exchange'[e].number = 0 /\ ~Carries(e)'
        /\ \A z \in Exchanges \ {e} : exchange'[z] = exchange[z] /\ (Carries(z)' <=> Carries(z))
    BY <1>2, OpenIsTyped DEF Moved, Carries
  <2>2. x.number # 0 => Carries(e) /\ x.number \in valid BY <1>1 DEF Carries, TokensInv, x
  <2>3. token'.number <= issued' /\ \A z \in Exchanges : exchange'[z].number <= issued'
    <3>1. x.number <= issued /\ token.number <= issued /\ 0 <= issued BY DEF TokensInv, OAuthTyped, x
    <3> QED BY <1>3, <1>4, <2>1, <3>1 DEF TokensInv
  <2>4. \A z \in Exchanges : exchange'[z].at = "granted" /\ exchange'[z].link # Nothing => exchange'[z].number # 0
    BY <2>1 DEF TokensInv
  <2>5. ASSUME NEW z \in Exchanges, Carries(z)'
        PROVE  /\ exchange'[z].number \in valid' /\ exchange'[z].number # token'.number
               /\ \A w \in Exchanges \ {z} :
                    exchange'[w].at \in {"posted", "granted"} => exchange'[w].number # exchange'[z].number
    <3>1. z # e /\ Carries(z) /\ exchange'[z] = exchange[z] BY <2>1, <2>5
    <3>2. exchange[z].number # x.number BY <1>1, <3>1 DEF TokensInv, x
    <3> QED BY <1>3, <1>4, <2>1, <3>1, <3>2 DEF TokensInv
  <2>6. granted' /\ ~lost' => token'.number \in valid' \/ \E z \in Exchanges : Carries(z)'
    <3>1. CASE x.number # 0 BY <1>3, <1>4, <2>2, <3>1
    <3>2. CASE x.number = 0
      <4>1. x.link = Nothing /\ ~Carries(e) BY <1>1, <3>2 DEF TokensInv, Carries, x
      <4> QED BY <1>3, <1>4, <2>1, <3>2, <4>1 DEF TokensInv
    <3> QED BY <3>1, <3>2
  <2> QED BY <2>3, <2>4, <2>5, <2>6 DEF TokensInv, Carries
<1> QED BY <1>5, <1>6

LEMMA OAuthStep == OAuthInv /\ [OAuthNext]_oauthVars => OAuthInv'
<1> SUFFICES ASSUME OAuthInv, [OAuthNext]_oauthVars PROVE OAuthInv'
  OBVIOUS
<1> USE DEF OAuthInv
<1>1. ASSUME UNCHANGED <<exchange, valid, issued, granted, lost>>, token' \in TokenType, token'.number = token.number,
             verifier' \in Links \cup {Nothing}
      PROVE  OAuthInv'
  BY <1>1 DEF OAuthTyped, TokensInv, Carries
<1>2. ASSUME NEW l \in Links, Begin(l) \/ StateLapses(l) \/ Consent(l) PROVE OAuthInv'
  BY <1>1, <1>2 DEF Begin, StateLapses, Consent, vault, server, OAuthTyped
<1>3. ASSUME NEW e \in Exchanges, NEW x \in ExchangeType, exchange' = [exchange EXCEPT ![e] = x],
             ~Carries(e) \/ lost', x.number <= issued,
             x.at # "granted", x.at = "posted" => x.number \in {0, token.number},
             UNCHANGED <<token, verifier, issued, valid, granted>>, lost' \in BOOLEAN, lost => lost'
      PROVE  OAuthInv'
  <2>1. Moved(e, x) BY <1>3, MovedTo
  <2>2. TokensInv' BY <1>3, <2>1, Uneventful
  <2> QED BY <1>3, <2>1, <2>2 DEF OAuthTyped, Moved
<1>4. ASSUME NEW e \in Exchanges, NEW l \in Links, Callback(e, l) PROVE OAuthInv'
  <2>1. CASE UNCHANGED exchange
    BY <1>1, <1>4, <2>1 DEF Callback, server, OAuthTyped
  <2>2. CASE verifier # Nothing
    <3> DEFINE x == [at |-> "posted", link |-> l, verifier |-> verifier, number |-> 0]
    <3>1. exchange' = [exchange EXCEPT ![e] = x]
      BY <1>4, <2>2 DEF Callback, Open
    <3>2. x \in ExchangeType /\ x.at = "posted" /\ x.number = 0 BY DEF OAuthTyped, ExchangeType
    <3>3. ~Carries(e) /\ 0 <= issued BY <1>4 DEF Callback, Carries, OAuthTyped
    <3>4. UNCHANGED <<token, verifier, issued, valid, granted, lost>> /\ lost \in BOOLEAN
      BY <1>4 DEF Callback, server, OAuthTyped
    <3> HIDE DEF x
    <3> QED BY <1>3, <3>1, <3>2, <3>3, <3>4
  <2> QED BY <1>4, <2>1, <2>2 DEF Callback
<1>5. ASSUME NEW e \in Exchanges, Renew(e) PROVE OAuthInv'
  <2> DEFINE x == [at |-> "posted", link |-> Nothing, verifier |-> Nothing, number |-> token.number]
  <2>1. exchange' = [exchange EXCEPT ![e] = x]
    <3> DEFINE y == [Open EXCEPT !.at = "posted"]
    <3>1. exchange' = [exchange EXCEPT ![e] = [y EXCEPT !.number = token.number]]
      BY <1>5 DEF Renew
    <3>2. y = [at |-> "posted", link |-> Nothing, verifier |-> Nothing, number |-> 0]
      BY DEF Open
    <3> HIDE DEF y
    <3>3. [y EXCEPT !.number = token.number] =
            [at |-> "posted", link |-> Nothing, verifier |-> Nothing, number |-> token.number]
      BY <3>2
    <3> QED BY <3>1, <3>3
  <2>2. token.number \in Nat BY DEF OAuthTyped, TokenType
  <2>3. x \in ExchangeType /\ x.at = "posted" /\ x.number = token.number BY <2>2 DEF ExchangeType
  <2>4. ~Carries(e) /\ token.number <= issued BY <1>5 DEF Renew, Carries, TokensInv
  <2>5. UNCHANGED <<token, verifier, issued, valid, granted, lost>> /\ lost \in BOOLEAN
    BY <1>5 DEF Renew, vault, server, OAuthTyped
  <2> HIDE DEF x
  <2> QED BY <1>3, <2>1, <2>3, <2>4, <2>5
<1>6. ASSUME NEW e \in Exchanges, Refused(e) PROVE OAuthInv'
  <2>1. ~Carries(e) /\ 0 <= issued BY <1>6 DEF Refused, Carries, OAuthTyped
  <2>2. UNCHANGED <<token, verifier, issued, valid, granted, lost>> /\ lost \in BOOLEAN
        /\ exchange' = [exchange EXCEPT ![e] = Open]
    BY <1>6 DEF Refused, server, OAuthTyped
  <2> QED BY <1>3, <2>1, <2>2, OpenIsTyped
<1>7. ASSUME NEW e \in Exchanges, AnswerIsLost(e) PROVE OAuthInv'
  <2>1. 0 <= issued BY DEF OAuthTyped
  <2>2. /\ UNCHANGED <<token, verifier, issued, valid, granted>>
        /\ exchange' = [exchange EXCEPT ![e] = Open]
        /\ lost' = (lost \/ exchange[e].at = "granted")
    BY <1>7 DEF AnswerIsLost, vault, server
  <2>3. (~Carries(e) \/ lost') /\ lost' \in BOOLEAN /\ (lost => lost') BY <2>2 DEF Carries, OAuthTyped
  <2> QED BY <1>3, <2>1, <2>2, <2>3, OpenIsTyped
<1>8. CASE TokenAges
  <2>1. token' \in TokenType /\ token'.number = token.number
    BY <1>8 DEF TokenAges, OAuthTyped, TokenType
  <2> QED BY <1>1, <1>8, <2>1 DEF TokenAges, server, OAuthTyped
<1>9. CASE Revoke
  <2>1. token' \in TokenType /\ token'.number = 0 BY <1>9 DEF Revoke, NoToken, TokenType
  <2>2. UNCHANGED <<exchange, valid, issued, lost>> /\ granted' = FALSE /\ verifier' = Nothing
    BY <1>9 DEF Revoke, server
  <2>3. OAuthTyped' BY <2>1, <2>2 DEF OAuthTyped
  <2>4. \A y \in Exchanges : Carries(y)' <=> Carries(y) BY <2>2 DEF Carries
  <2>5. \A y \in Exchanges : Carries(y) => exchange[y].number # 0 BY DEF Carries
  <2>6. 0 <= issued BY DEF OAuthTyped
  <2>7. TokensInv' BY <2>1, <2>2, <2>4, <2>5, <2>6 DEF TokensInv
  <2> QED BY <2>3, <2>7
<1>10. CASE UNCHANGED oauthVars
  BY <1>1, <1>10 DEF oauthVars, vault, server, OAuthTyped
<1> QED
  BY <1>2, <1>4, <1>5, <1>6, <1>7, <1>8, <1>9, <1>10, ServesKeeps, GrantedKeeps DEF OAuthNext

\* However renewals, authorizations and refusals interleave, for any number
\* of them, the vault is left with a token the server still takes, unless an
\* answer was lost.
THEOREM ATokenIsLeft == OAuthSpec => []RenewalsLeaveAToken
<1>1. OAuthInit => OAuthInv
  <2> SUFFICES ASSUME OAuthInit PROVE OAuthInv
    OBVIOUS
  <2>1. \A e \in Exchanges : exchange[e] = Open BY DEF OAuthInit
  <2>2. NoToken \in TokenType /\ NoToken.number = 0 BY DEF NoToken, TokenType
  <2>3. OAuthTyped BY <2>2, OpenIsTyped DEF OAuthInit, OAuthTyped
  <2>4. TokensInv BY <2>1, <2>2, OpenIsTyped DEF OAuthInit, TokensInv, Carries
  <2> QED BY <2>3, <2>4 DEF OAuthInv
<1>2. OAuthInv => RenewalsLeaveAToken
  BY DEF OAuthInv, TokensInv, RenewalsLeaveAToken, Carries
<1> QED BY <1>1, <1>2, OAuthStep, PTL DEF OAuthSpec

-----------------------------------------------------------------------------
(* Updates: the exchange directory *)

Holding == {"write", "publish", "judge", "clear", "again", "won", "lost"}
Steps == {"unasked", "claim", "held", "sweep", "swing", "gone", "accepted", "refused"} \cup Holding

\* Until a lock is swept, whoever works on the request holds the lock, has
\* written its file before it publishes, and clears only what is not there.
LockInv ==
    /\ step \in [Requests -> Steps]
    /\ written \subseteq Requests
    /\ \A r \in Requests : step[r] = "swing" => swept
    /\ ~swept =>
         /\ \A r \in Requests : step[r] \in Holding => lockFile = r
         /\ \A r \in Requests : step[r] \in Holding \ {"write"} => r \in written
         /\ \A r \in Requests : step[r] \in {"clear", "again"} => request = NoFile
         /\ request # NoFile => request \in written

\* What the property asks of one step.
HostTakes == ~swept' /\ Readable(request) /\ request' # request => host.at = "read"

LEMMA GoesEach ==
    ASSUME LockInv, NEW r \in Requests, NEW from, NEW to \in Steps, Goes(r, from, to)
    PROVE  /\ step' \in [Requests -> Steps]
           /\ step[r] = from /\ step'[r] = to /\ \A q \in Requests \ {r} : step'[q] = step[q]
BY DEF LockInv, Goes

\* Two requests never hold the lock.
LEMMA OneHolder ==
    ASSUME LockInv, ~swept, NEW r \in Requests, step[r] \in Holding, NEW q \in Requests, step[q] \in Holding
    PROVE  q = r
BY DEF LockInv

LEMMA UpdatesStep == LockInv /\ [UpdatesNext]_updatesVars => LockInv' /\ HostTakes
<1> SUFFICES ASSUME LockInv, [UpdatesNext]_updatesVars PROVE LockInv' /\ HostTakes
  OBVIOUS
<1> USE DEF Steps, Holding
<1>0. NoFile \notin written BY UpdatesAssumption DEF LockInv
<1>1. ASSUME NEW r \in Requests, Asks(r) PROVE LockInv' /\ HostTakes
  <2>1. PICK to \in {"refused", "claim"} : Goes(r, "unasked", to) BY <1>1 DEF Asks
  <2> QED BY <1>1, <2>1, GoesEach DEF Asks, LockInv, HostTakes
<1>2. ASSUME NEW r \in Requests, Claims(r) PROVE LockInv' /\ HostTakes
  <2>1. /\ UNCHANGED <<written, request, swept>>
        /\ lockFile' = IF lockFile = NoFile THEN r ELSE lockFile
    BY <1>2 DEF Claims
  <2>2. PICK from \in {"claim", "swing"}, to \in {"write", "held", "refused"} :
          Goes(r, from, to) /\ (to = "write" => lockFile = NoFile)
    BY <1>2 DEF Claims
  <2>3. /\ step' \in [Requests -> Steps] /\ step[r] = from /\ step'[r] = to
        /\ \A q \in Requests \ {r} : step'[q] = step[q]
    BY <2>2, GoesEach
  <2>4. ASSUME ~swept, NEW q \in Requests, step'[q] \in Holding PROVE lockFile' = q
    <3>1. CASE q = r BY <2>1, <2>2, <2>3, <2>4, <3>1
    <3>2. CASE q # r
      <4>1. step[q] \in Holding /\ lockFile = q BY <2>3, <2>4, <3>2 DEF LockInv
      <4> QED BY <2>1, <4>1, UpdatesAssumption
    <3> QED BY <3>1, <3>2
  <2>5. \A q \in Requests : step'[q] = "swing" => swept' BY <2>1, <2>2, <2>3 DEF LockInv
  <2>6. ASSUME ~swept PROVE /\ \A q \in Requests : step'[q] \in Holding \ {"write"} => q \in written'
                            /\ \A q \in Requests : step'[q] \in {"clear", "again"} => request' = NoFile
                            /\ request' # NoFile => request' \in written'
    BY <2>1, <2>2, <2>3, <2>6 DEF LockInv
  <2> QED BY <2>1, <2>3, <2>4, <2>5, <2>6 DEF LockInv, HostTakes
<1>3. ASSUME NEW r \in Requests, JudgesLock(r) PROVE LockInv' /\ HostTakes
  <2>1. PICK to \in {"sweep", "refused"} : Goes(r, "held", to) BY <1>3 DEF JudgesLock
  <2> QED BY <1>3, <2>1, GoesEach DEF JudgesLock, LockInv, HostTakes
<1>4. ASSUME NEW r \in Requests, Sweeps(r) PROVE LockInv' /\ HostTakes
  <2>1. Goes(r, "sweep", "swing") /\ swept' = TRUE /\ written' = written BY <1>4 DEF Sweeps
  <2> QED BY <2>1, GoesEach DEF LockInv, HostTakes
<1>5. ASSUME NEW r \in Requests, Writes(r) PROVE LockInv' /\ HostTakes
  <2>1. Goes(r, "write", "publish") /\ UNCHANGED <<lockFile, request, swept>> /\ written' = written \cup {r}
    BY <1>5 DEF Writes
  <2>2. /\ step' \in [Requests -> Steps] /\ step[r] = "write" /\ step'[r] = "publish"
        /\ \A q \in Requests \ {r} : step'[q] = step[q]
    BY <2>1, GoesEach
  <2> QED BY <2>1, <2>2 DEF LockInv, HostTakes
<1>6. ASSUME NEW r \in Requests, Publishes(r) PROVE LockInv' /\ HostTakes
  <2>1. PICK from \in {"publish", "again"}, taken \in {"judge", "lost"} :
          Goes(r, from, Linked(r, taken).step) /\ request' = Linked(r, taken).request
    BY <1>6 DEF Publishes, Arrives
  <2>2. UNCHANGED <<written, lockFile, swept>> BY <1>6 DEF Publishes, Arrives
  <2>3. PICK to \in {"lost", "won", "judge"} :
          Goes(r, from, to) /\ (request' = request \/ (request = NoFile /\ request' = lockFile))
    BY <2>1 DEF Linked
  <2>4. /\ step' \in [Requests -> Steps] /\ step[r] = from /\ step'[r] = to
        /\ \A q \in Requests \ {r} : step'[q] = step[q]
    BY <2>3, GoesEach
  <2>5. HostTakes BY <1>0, <2>3 DEF HostTakes, Readable
  <2>6. ASSUME ~swept
        PROVE  /\ \A q \in Requests : step'[q] \in Holding => lockFile' = q
               /\ \A q \in Requests : step'[q] \in Holding \ {"write"} => q \in written'
               /\ \A q \in Requests : step'[q] \in {"clear", "again"} => request' = NoFile
               /\ request' # NoFile => request' \in written'
    <3>1. lockFile = r /\ r \in written BY <2>4, <2>6 DEF LockInv
    <3>2. \A q \in Requests \ {r} : step[q] \notin Holding BY <2>4, <2>6, OneHolder
    <3>3. request' # NoFile => request' \in written BY <2>3, <2>6, <3>1 DEF LockInv
    <3> QED BY <2>2, <2>4, <3>1, <3>2, <3>3
  <2>7. \A q \in Requests : step'[q] = "swing" => swept' BY <2>2, <2>4 DEF LockInv
  <2> QED BY <2>2, <2>4, <2>5, <2>6, <2>7 DEF LockInv
<1>7. ASSUME NEW r \in Requests, JudgesRequest(r) PROVE LockInv' /\ HostTakes
  <2>1. UNCHANGED <<written, lockFile, request, swept>> BY <1>7 DEF JudgesRequest
  <2>2. PICK to \in {"lost", "clear"} : Goes(r, "judge", to) /\ (to = "clear" => request \notin written)
    BY <1>7 DEF JudgesRequest, Readable
  <2>3. /\ step' \in [Requests -> Steps] /\ step[r] = "judge" /\ step'[r] = to
        /\ \A q \in Requests \ {r} : step'[q] = step[q]
    BY <2>2, GoesEach
  <2> QED BY <2>1, <2>2, <2>3 DEF LockInv, HostTakes
<1>8. ASSUME NEW r \in Requests, Clears(r) PROVE LockInv' /\ HostTakes
  <2>1. UNCHANGED <<written, lockFile, swept>> /\ request' = NoFile /\ Goes(r, "clear", "again")
    BY <1>8 DEF Clears
  <2>2. /\ step' \in [Requests -> Steps] /\ step[r] = "clear" /\ step'[r] = "again"
        /\ \A q \in Requests \ {r} : step'[q] = step[q]
    BY <2>1, GoesEach
  <2>3. HostTakes BY <2>1, <2>2 DEF LockInv, HostTakes
  <2> QED BY <2>1, <2>2, <2>3 DEF LockInv
<1>9. ASSUME NEW r \in Requests, Drops(r) PROVE LockInv' /\ HostTakes
  <2>1. UNCHANGED <<written, request, swept>> /\ lockFile' = NoFile BY <1>9 DEF Drops
  <2>2. PICK from \in {"won", "lost"}, to \in {"accepted", "refused"} : Goes(r, from, to) BY <1>9 DEF Drops
  <2>3. /\ step' \in [Requests -> Steps] /\ step[r] = from /\ step'[r] = to
        /\ \A q \in Requests \ {r} : step'[q] = step[q]
    BY <2>2, GoesEach
  <2>4. ~swept => \A q \in Requests : step'[q] \notin Holding
    BY <2>3, OneHolder
  <2> QED BY <2>1, <2>3, <2>4 DEF LockInv, HostTakes
<1>10. CASE AppDies
  <2>1. /\ UNCHANGED <<written, lockFile, request, swept>> /\ step' \in [Requests -> Steps]
        /\ \A r \in Requests : step'[r] \in {"gone", "accepted", "refused", "unasked"}
    BY <1>10 DEF AppDies, Ended, LockInv
  <2> QED BY <2>1 DEF LockInv, HostTakes
<1>11. CASE HostReads BY <1>11 DEF HostReads, LockInv, HostTakes
<1>12. CASE HostRemoves BY <1>12 DEF HostRemoves, LockInv, HostTakes
<1>13. CASE HostDeploys BY <1>13 DEF HostDeploys, LockInv, HostTakes
<1>14. ASSUME NEW result, HostEnds(result) PROVE LockInv' /\ HostTakes
  BY <1>14 DEF HostEnds, LockInv, HostTakes
<1>15. CASE UNCHANGED updatesVars BY <1>15 DEF updatesVars, LockInv, HostTakes
<1> HIDE DEF Steps, Holding
<1> QED
  BY <1>1, <1>2, <1>3, <1>4, <1>5, <1>6, <1>7, <1>8, <1>9, <1>10, <1>11, <1>12, <1>13, <1>14, <1>15 DEF UpdatesNext

\* For any number of presses, and whatever dies in between, a readable request
\* is taken by nobody but the host until a lock is swept as stale.
THEOREM OnlyTheHostTakesRequests == UpdatesSpec => OnlyTheHostTakesIt
<1>1. UpdatesInit => LockInv BY DEF UpdatesInit, LockInv, Steps, Holding
<1>2. LockInv /\ [UpdatesNext]_updatesVars => LockInv' BY UpdatesStep
<1>3. LockInv /\ [UpdatesNext]_updatesVars =>
        [~swept' /\ Readable(request) /\ request' # request => host.at = "read"]_updatesVars
  BY UpdatesStep DEF HostTakes
<1> QED BY <1>1, <1>2, <1>3, PTL DEF UpdatesSpec, OnlyTheHostTakesIt

-----------------------------------------------------------------------------
(* Attachments: files follow their rows *)

UploadType == [content : Contents \cup {Absent}, run : Messages \cup {"pending", Absent}]
SavingType == [content : Contents \cup {Absent}, wrote : BOOLEAN]
JobType ==
    [kind : {"none", "remove", "orphans", "retention"}, left : SUBSET [id : Uploads, content : Contents],
     run : Messages \cup {Absent}, unlinks : Contents \cup {Absent}]

\* A listing says of each row what it holds, or the row is gone; and a run
\* that is being deleted has no row but those listed.
JobInv(job) ==
    /\ \A x \in job.left : /\ upload[x.id] = NoUpload \/ upload[x.id].content = x.content
                           /\ saving[x.id].content = Absent
    /\ job.run \in Messages => \A u \in Uploads : upload[u].run = job.run => \E x \in job.left : x.id = u

\* A file that nothing raced is there for its rows and for the upload that
\* wrote it, and for none but them once it is unlinked.
FileInv(c) ==
    c \notin raced \cup forsaken =>
        /\ IsNamed(c, upload) => c \in disk
        /\ \A u \in Uploads : saving[u].content = c /\ saving[u].wrote => c \in disk
        /\ c \in disk => \/ IsNamed(c, upload)
                         \/ \E u \in Uploads : saving[u].content = c /\ saving[u].wrote
                         \/ \E d \in Deleters : deleter[d].unlinks = c

AttachmentsTyped ==
    /\ upload \in [Uploads -> UploadType]
    /\ \A u \in Uploads : upload[u] = NoUpload \/ (upload[u].content \in Contents /\ upload[u].run # Absent)
    /\ saving \in [Uploads -> SavingType]
    /\ \A u \in Uploads : IF saving[u].content = Absent THEN saving[u] = NotSaving ELSE upload[u] = NoUpload
    /\ deleter \in [Deleters -> JobType]

AttachmentsInv ==
    /\ AttachmentsTyped
    /\ \A d \in Deleters : JobInv(deleter[d])
    /\ \A c \in Contents : FileInv(c)

LEMMA NothingIsTyped ==
    /\ NoUpload \in UploadType /\ NoUpload.content = Absent /\ NoUpload.run = Absent
    /\ NotSaving \in SavingType /\ NotSaving.content = Absent /\ ~NotSaving.wrote
    /\ AtRest \in JobType /\ AtRest.left = {} /\ AtRest.run = Absent /\ AtRest.unlinks = Absent
BY DEF NoUpload, UploadType, NotSaving, SavingType, AtRest, JobType

\* A row goes, and its file is left to the flow that deleted it.
LEMMA DeletesKeeps ==
    ASSUME AttachmentsInv, NEW d \in Deleters, deleter[d].unlinks = Absent,
           NEW job \in JobType, JobInv(job), Deletes(d, job), UNCHANGED <<disk, saving, raced, forsaken>>
    PROVE  AttachmentsInv'
<1>1. PICK x \in job.left :
        LET found == job.kind = "retention" => upload[x.id] # NoUpload
        IN  /\ upload' = [upload EXCEPT ![x.id] = NoUpload]
            /\ deleter' = [deleter EXCEPT ![d] =
                 [job EXCEPT !.left = @ \ {x},
                             !.unlinks = IF found /\ ~IsNamed(x.content, upload') THEN x.content ELSE Absent]]
  BY DEF Deletes
<1>2. x \in [id : Uploads, content : Contents] BY DEF JobType
<1>3. x.id \in Uploads /\ x.content \in Contents BY <1>2
<1> DEFINE found == job.kind = "retention" => upload[x.id] # NoUpload
           unlinks == IF found /\ ~IsNamed(x.content, upload') THEN x.content ELSE Absent
           rest == [job EXCEPT !.left = @ \ {x}]
           next == [rest EXCEPT !.unlinks = unlinks]
<1>4. deleter' = [deleter EXCEPT ![d] = next] BY <1>1 DEF JobType
<1>5. unlinks \in {x.content, Absent} /\ (found /\ ~IsNamed(x.content, upload') => unlinks = x.content) OBVIOUS
<1>6. rest \in JobType /\ rest.left = job.left \ {x} /\ rest.run = job.run BY DEF JobType
<1>7. next \in JobType /\ next.left = job.left \ {x} /\ next.run = job.run /\ next.unlinks = unlinks
  <2> HIDE DEF unlinks, rest
  <2> QED BY <1>3, <1>5, <1>6 DEF JobType
<1> HIDE DEF next, unlinks, rest
<1>8. deleter' \in [Deleters -> JobType] /\ deleter'[d] = next /\ \A y \in Deleters \ {d} : deleter'[y] = deleter[y]
  BY <1>4, <1>7 DEF AttachmentsInv, AttachmentsTyped
<1>9. /\ upload' \in [Uploads -> UploadType] /\ upload'[x.id] = NoUpload
      /\ \A u \in Uploads \ {x.id} : upload'[u] = upload[u]
  BY <1>1, <1>3, NothingIsTyped DEF AttachmentsInv, AttachmentsTyped
<1>10. AttachmentsTyped' BY <1>8, <1>9 DEF AttachmentsInv, AttachmentsTyped
<1>11. ASSUME NEW j, JobInv(j)
       PROVE  /\ \A y \in j.left : (upload'[y.id] = NoUpload \/ upload'[y.id].content = y.content) /\ saving'[y.id].content = Absent
              /\ j.run \in Messages => \A u \in Uploads : upload'[u].run = j.run => \E y \in j.left : y.id = u /\ u # x.id
  <2>1. ASSUME NEW y \in j.left
        PROVE  (upload'[y.id] = NoUpload \/ upload'[y.id].content = y.content) /\ saving'[y.id].content = Absent
    BY <1>1, <1>11 DEF JobInv, AttachmentsInv, AttachmentsTyped
  <2>2. ASSUME j.run \in Messages, NEW u \in Uploads, upload'[u].run = j.run
        PROVE  \E y \in j.left : y.id = u /\ u # x.id
    <3>1. u # x.id BY <1>9, <2>2, NothingIsTyped, AttachmentsAssumption
    <3> QED BY <1>9, <1>11, <2>2, <3>1 DEF JobInv
  <2> QED BY <2>1, <2>2
<1>12. ASSUME NEW y \in Deleters PROVE JobInv(deleter[y])'
  <2>1. CASE y = d
    BY <1>7, <1>8, <1>11, <2>1 DEF JobInv
  <2>2. CASE y # d
    <3>1. JobInv(deleter[y]) BY DEF AttachmentsInv
    <3>2. deleter'[y] = deleter[y] BY <1>8, <2>2
    <3> QED BY <1>11, <3>1, <3>2 DEF JobInv
  <2> QED BY <2>1, <2>2
<1>13. ASSUME NEW c \in Contents, c \notin raced' \cup forsaken'
       PROVE  /\ IsNamed(c, upload') => c \in disk'
              /\ \A u \in Uploads : saving'[u].content = c /\ saving'[u].wrote => c \in disk'
              /\ c \in disk' => \/ IsNamed(c, upload')
                                \/ \E u \in Uploads : saving'[u].content = c /\ saving'[u].wrote
                                \/ \E y \in Deleters : deleter'[y].unlinks = c
  <2>1. FileInv(c) /\ c \notin raced \cup forsaken BY <1>13 DEF AttachmentsInv
  <2>2. c # Absent BY AttachmentsAssumption
  <2>3. IsNamed(c, upload') => IsNamed(c, upload) BY <1>3, <1>9, <2>2, NothingIsTyped DEF IsNamed
  <2>4. ASSUME IsNamed(c, upload), ~IsNamed(c, upload') PROVE \E y \in Deleters : deleter'[y].unlinks = c
    <3>1. upload[x.id].content = c BY <1>3, <1>9, <2>4 DEF IsNamed
    <3>2. upload[x.id] # NoUpload BY <2>2, <3>1, NothingIsTyped
    <3>3. x.content = c BY <3>1, <3>2 DEF JobInv
    <3> QED BY <1>5, <1>7, <1>8, <2>4, <3>2, <3>3
  <2>5. \A y \in Deleters : deleter[y].unlinks = c => deleter'[y].unlinks = c BY <1>8, <2>2
  <2> QED BY <2>1, <2>3, <2>4, <2>5 DEF FileInv
<1>14. \A c \in Contents : FileInv(c)' BY <1>13 DEF FileInv
<1> QED BY <1>10, <1>12, <1>14 DEF AttachmentsInv

\* What a flow sets out with.
LEMMA BeginsKeeps ==
    ASSUME AttachmentsInv, NEW d \in Deleters, Begins(d)
    PROVE  AttachmentsInv'
<1>1. deleter[d] = AtRest /\ deleter[d].unlinks = Absent /\ UNCHANGED <<disk, saving, message, raced, forsaken>>
  BY NothingIsTyped DEF Begins
<1>2. ASSUME NEW us \in SUBSET Uploads, \A u \in us : upload[u].run # Absent
      PROVE  /\ Listed(us) \in SUBSET [id : Uploads, content : Contents]
             /\ \A x \in Listed(us) : upload[x.id].content = x.content /\ saving[x.id].content = Absent
             /\ \A u \in us : \E x \in Listed(us) : x.id = u
  <2>1. \A u \in us : upload[u] # NoUpload /\ upload[u].content \in Contents /\ saving[u].content = Absent
    BY <1>2, NothingIsTyped DEF AttachmentsInv, AttachmentsTyped
  <2>2. ASSUME NEW x \in Listed(us)
        PROVE  /\ x \in [id : Uploads, content : Contents]
               /\ upload[x.id].content = x.content /\ saving[x.id].content = Absent
    <3>1. PICK u \in us : x = [id |-> u, content |-> upload[u].content] BY <2>2 DEF Listed
    <3>2. x.id = u /\ x.content = upload[u].content /\ u \in Uploads BY <3>1
    <3> QED BY <2>1, <3>1, <3>2
  <2>3. ASSUME NEW u \in us PROVE \E x \in Listed(us) : x.id = u
    <3>1. [id |-> u, content |-> upload[u].content] \in Listed(us) BY DEF Listed
    <3> QED BY <3>1
  <2> QED BY <2>2, <2>3
<1>3. ASSUME NEW u \in Uploads, RemoveUpload(d, u) PROVE AttachmentsInv'
  <2> DEFINE job == [AtRest EXCEPT !.kind = "remove", !.left = Listed({u})]
  <2>1. upload[u].run # Absent BY <1>3, AttachmentsAssumption DEF RemoveUpload
  <2>2. job = [kind |-> "remove", left |-> Listed({u}), run |-> Absent, unlinks |-> Absent]
    <3> DEFINE named == [AtRest EXCEPT !.kind = "remove"]
    <3>1. named = [kind |-> "remove", left |-> {}, run |-> Absent, unlinks |-> Absent] BY DEF AtRest
    <3>2. job = [named EXCEPT !.left = Listed({u})] OBVIOUS
    <3> HIDE DEF named, job
    <3> QED BY <3>1, <3>2
  <2>3. Deletes(d, job) BY <1>3 DEF RemoveUpload
  <2> HIDE DEF job
  <2>4. job \in JobType /\ JobInv(job) BY <1>2, <2>1, <2>2, AttachmentsAssumption DEF JobType, JobInv
  <2> QED BY <1>1, <2>3, <2>4, DeletesKeeps
<1>4. ASSUME NEW old \in SUBSET Uploads, CollectOrphans(d, old) PROVE AttachmentsInv'
  <2> DEFINE job == [AtRest EXCEPT !.kind = "orphans", !.left = Listed(old)]
  <2>1. \A u \in old : upload[u].run # Absent BY <1>4, AttachmentsAssumption DEF CollectOrphans
  <2>2. job = [kind |-> "orphans", left |-> Listed(old), run |-> Absent, unlinks |-> Absent]
    <3> DEFINE named == [AtRest EXCEPT !.kind = "orphans"]
    <3>1. named = [kind |-> "orphans", left |-> {}, run |-> Absent, unlinks |-> Absent] BY DEF AtRest
    <3>2. job = [named EXCEPT !.left = Listed(old)] OBVIOUS
    <3> HIDE DEF named, job
    <3> QED BY <3>1, <3>2
  <2>3. Deletes(d, job) BY <1>4 DEF CollectOrphans
  <2> HIDE DEF job
  <2>4. job \in JobType /\ JobInv(job) BY <1>2, <2>1, <2>2, AttachmentsAssumption DEF JobType, JobInv
  <2> QED BY <1>1, <2>3, <2>4, DeletesKeeps
<1>5. ASSUME NEW m \in Messages, Retain(d, m) PROVE AttachmentsInv'
  <2> DEFINE job == [AtRest EXCEPT !.kind = "retention", !.run = m, !.left = DoomedFiles(m)]
  <2>1. OfRun(m) \in SUBSET Uploads /\ \A u \in OfRun(m) : upload[u].run # Absent
    BY AttachmentsAssumption DEF OfRun
  <2>2. job = [kind |-> "retention", left |-> Listed(OfRun(m)), run |-> m, unlinks |-> Absent]
    <3> DEFINE named == [AtRest EXCEPT !.kind = "retention"]
               sent == [named EXCEPT !.run = m]
    <3>1. named = [kind |-> "retention", left |-> {}, run |-> Absent, unlinks |-> Absent] BY DEF AtRest
    <3>2. job = [sent EXCEPT !.left = DoomedFiles(m)] OBVIOUS
    <3> HIDE DEF named, job
    <3>3. sent = [kind |-> "retention", left |-> {}, run |-> m, unlinks |-> Absent] BY <3>1
    <3> HIDE DEF sent
    <3> QED BY <3>2, <3>3 DEF DoomedFiles
  <2>3. IF job.left = {} THEN deleter' = [deleter EXCEPT ![d] = job] /\ UNCHANGED upload ELSE Deletes(d, job)
    BY <1>5 DEF Retain
  <2> HIDE DEF job
  <2>4. \A u \in Uploads : upload[u].run = m => u \in OfRun(m) BY DEF OfRun
  <2>5. job \in JobType /\ JobInv(job) BY <1>2, <2>1, <2>2, <2>4 DEF JobType, JobInv
  <2>6. CASE job.left # {} BY <1>1, <2>3, <2>5, <2>6, DeletesKeeps
  <2>7. CASE job.left = {}
    <3>1. /\ deleter' \in [Deleters -> JobType] /\ deleter'[d] = job
          /\ \A y \in Deleters \ {d} : deleter'[y] = deleter[y]
      BY <2>3, <2>5, <2>7 DEF AttachmentsInv, AttachmentsTyped
    <3>2. UNCHANGED <<upload, disk, saving, raced, forsaken>> BY <1>1, <2>3, <2>7
    <3>3. AttachmentsTyped' BY <3>1, <3>2 DEF AttachmentsInv, AttachmentsTyped
    <3>4. \A y \in Deleters : JobInv(deleter[y])' BY <2>5, <3>1, <3>2 DEF AttachmentsInv, JobInv
    <3>5. \A y \in Deleters : deleter'[y].unlinks = deleter[y].unlinks BY <1>1, <2>2, <3>1
    <3>6. \A c \in Contents : FileInv(c)' BY <3>2, <3>5 DEF AttachmentsInv, FileInv
    <3> QED BY <3>3, <3>4, <3>6 DEF AttachmentsInv
  <2> QED BY <2>6, <2>7
<1> QED BY <1>3, <1>4, <1>5 DEF Begins

LEMMA SaveKeeps ==
    ASSUME AttachmentsInv, NEW u \in Uploads,
           (\E c \in Contents : Save(u, c)) \/ FileWritten(u) \/ Saved(u)
    PROVE  AttachmentsInv'
<1>1. UNCHANGED <<message, deleter, raced, forsaken>> BY DEF Save, FileWritten, Saved
<1>2. ASSUME NEW row \in UploadType, upload' = [upload EXCEPT ![u] = row], row.run = "pending", row.content \in Contents,
             saving' = saving \/ saving' = [saving EXCEPT ![u] = NotSaving],
             saving'[u].content = Absent, upload[u] = NoUpload, disk' = disk,
             row.content \notin raced \cup forsaken => row.content \in disk,
             saving[u].wrote => saving[u].content = row.content,
             \A d \in Deleters : \A x \in deleter[d].left : x.id # u
      PROVE  AttachmentsInv'
  <2>1. upload'[u] = row /\ \A v \in Uploads \ {u} : upload'[v] = upload[v] /\ saving'[v] = saving[v]
    BY <1>2 DEF AttachmentsInv, AttachmentsTyped
  <2>2. upload' \in [Uploads -> UploadType] /\ saving' \in [Uploads -> SavingType] /\ saving'[u] = NotSaving
    BY <1>2, NothingIsTyped DEF AttachmentsInv, AttachmentsTyped
  <2>3. AttachmentsTyped'
    BY <1>1, <1>2, <2>1, <2>2, AttachmentsAssumption DEF AttachmentsInv, AttachmentsTyped
  <2>4. ASSUME NEW d \in Deleters PROVE JobInv(deleter[d])'
    <3>1. JobInv(deleter[d]) BY DEF AttachmentsInv
    <3>2. deleter[d] \in JobType BY DEF AttachmentsInv, AttachmentsTyped
    <3>3. ASSUME NEW x \in deleter[d].left
          PROVE  (upload'[x.id] = NoUpload \/ upload'[x.id].content = x.content) /\ saving'[x.id].content = Absent
      <4>1. x.id \in Uploads \ {u} BY <1>2, <3>2, <3>3 DEF JobType
      <4> QED BY <2>1, <3>1, <4>1 DEF JobInv
    <3>4. ASSUME deleter[d].run \in Messages, NEW v \in Uploads, upload'[v].run = deleter[d].run
          PROVE  \E x \in deleter[d].left : x.id = v
      <4>1. v # u BY <1>2, <2>1, <3>4, AttachmentsAssumption
      <4> QED BY <2>1, <3>1, <3>4, <4>1 DEF JobInv
    <3> QED BY <1>1, <3>3, <3>4 DEF JobInv
  <2>5. ASSUME NEW c \in Contents PROVE FileInv(c)'
    <3>1. FileInv(c) BY DEF AttachmentsInv
    <3>2. IsNamed(c, upload') <=> IsNamed(c, upload) \/ row.content = c
      BY <1>2, <2>1, NothingIsTyped, AttachmentsAssumption DEF IsNamed
    <3>3. \A v \in Uploads : saving'[v].content = c /\ saving'[v].wrote => saving[v].content = c /\ saving[v].wrote
      BY <2>1, <2>2, NothingIsTyped
    <3>4. \A v \in Uploads : saving[v].content = c /\ saving[v].wrote /\ v # u => saving'[v].content = c /\ saving'[v].wrote
      BY <2>1
    <3> QED BY <1>1, <1>2, <3>1, <3>2, <3>3, <3>4 DEF FileInv
  <2> QED BY <2>3, <2>4, <2>5 DEF AttachmentsInv
<1>3. ASSUME NEW s \in SavingType, saving' = [saving EXCEPT ![u] = s], upload' = upload, s.content \in Contents,
             upload[u] = NoUpload, \A d \in Deleters : \A x \in deleter[d].left : x.id # u,
             s.wrote \in BOOLEAN, disk' = IF s.wrote THEN disk \cup {s.content} ELSE disk, ~saving[u].wrote
      PROVE  AttachmentsInv'
  <2>1. saving'[u] = s /\ saving' \in [Uploads -> SavingType] /\ \A v \in Uploads \ {u} : saving'[v] = saving[v]
    BY <1>3 DEF AttachmentsInv, AttachmentsTyped
  <2>2. AttachmentsTyped' BY <1>1, <1>3, <2>1, AttachmentsAssumption DEF AttachmentsInv, AttachmentsTyped
  <2>3. ASSUME NEW d \in Deleters PROVE JobInv(deleter[d])'
    <3>1. JobInv(deleter[d]) BY DEF AttachmentsInv
    <3>2. deleter[d] \in JobType BY DEF AttachmentsInv, AttachmentsTyped
    <3>3. ASSUME NEW x \in deleter[d].left PROVE saving'[x.id] = saving[x.id]
      <4>1. x.id \in Uploads \ {u} BY <1>3, <3>2, <3>3 DEF JobType
      <4> QED BY <2>1, <4>1
    <3> QED BY <1>1, <1>3, <3>1, <3>3 DEF JobInv
  <2>4. ASSUME NEW c \in Contents PROVE FileInv(c)'
    <3>1. FileInv(c) BY DEF AttachmentsInv
    <3>2. \A v \in Uploads : saving[v].content = c /\ saving[v].wrote => saving'[v].content = c /\ saving'[v].wrote
      BY <1>3, <2>1
    <3>3. \A v \in Uploads : saving'[v].content = c /\ saving'[v].wrote =>
                               (saving[v].content = c /\ saving[v].wrote) \/ (s.content = c /\ s.wrote)
      BY <2>1
    <3>4. s.wrote => saving'[u].content = s.content /\ saving'[u].wrote BY <2>1
    <3> QED BY <1>1, <1>3, <3>1, <3>2, <3>3, <3>4 DEF FileInv
  <2> QED BY <2>2, <2>3, <2>4 DEF AttachmentsInv
<1>4. \A d \in Deleters : \A x \in deleter[d].left : saving[x.id].content = Absent
  BY DEF AttachmentsInv, JobInv
<1>5. saving[u] \in SavingType BY DEF AttachmentsInv, AttachmentsTyped
<1>6. ASSUME NEW c \in Contents, Save(u, c) PROVE AttachmentsInv'
  <2>1. /\ upload[u] = NoUpload /\ saving[u] = NotSaving /\ disk' = disk
        /\ \A d \in Deleters : \A x \in deleter[d].left : x.id # u
    BY <1>6 DEF Save
  <2>2. CASE IsNamed(c, upload)
    <3> DEFINE row == [content |-> c, run |-> "pending"]
    <3>1. row \in UploadType /\ row.run = "pending" /\ row.content = c BY DEF UploadType
    <3>2. upload' = [upload EXCEPT ![u] = row] /\ saving' = saving BY <1>6, <2>2 DEF Save
    <3>3. c \notin raced \cup forsaken => c \in disk BY <2>2 DEF AttachmentsInv, FileInv
    <3> HIDE DEF row
    <3> QED BY <1>2, <2>1, <3>1, <3>2, <3>3, NothingIsTyped
  <2>3. CASE ~IsNamed(c, upload)
    <3> DEFINE s == [saving[u] EXCEPT !.content = c]
    <3>1. s \in SavingType /\ s.content = c /\ s.wrote = saving[u].wrote
      <4>1. s.content = c /\ s.wrote = saving[u].wrote BY <1>5 DEF SavingType
      <4>2. s \in SavingType BY <1>5 DEF SavingType
      <4> QED BY <4>1, <4>2
    <3>2. saving' = [saving EXCEPT ![u] = s] /\ upload' = upload BY <1>6, <2>3 DEF Save
    <3> HIDE DEF s
    <3>3. ~saving[u].wrote BY <2>1, NothingIsTyped
    <3>4. disk' = IF s.wrote THEN disk \cup {s.content} ELSE disk BY <2>1, <3>1, <3>3
    <3>5. s.wrote \in BOOLEAN BY <3>1 DEF SavingType
    <3> QED BY <1>3, <2>1, <3>1, <3>2, <3>3, <3>4, <3>5
  <2> QED BY <2>2, <2>3
<1>7. ASSUME FileWritten(u) PROVE AttachmentsInv'
  <2> DEFINE s == [saving[u] EXCEPT !.wrote = TRUE]
  <2>1. saving[u].content # Absent /\ ~saving[u].wrote BY <1>7 DEF FileWritten
  <2>2. s \in SavingType /\ s.content = saving[u].content /\ s.wrote = TRUE /\ s.content \in Contents
    BY <1>5, <2>1 DEF SavingType
  <2>3. saving' = [saving EXCEPT ![u] = s] /\ upload' = upload /\ disk' = disk \cup {saving[u].content}
    BY <1>7 DEF FileWritten
  <2>4. upload[u] = NoUpload BY <2>1 DEF AttachmentsInv, AttachmentsTyped
  <2>5. \A d \in Deleters : \A x \in deleter[d].left : x.id # u BY <1>4, <2>1
  <2> HIDE DEF s
  <2> QED BY <1>3, <2>1, <2>2, <2>3, <2>4, <2>5
<1>8. ASSUME Saved(u) PROVE AttachmentsInv'
  <2> DEFINE row == [content |-> saving[u].content, run |-> "pending"]
  <2>1. saving[u].wrote /\ saving[u].content # Absent
    BY <1>8, NothingIsTyped DEF Saved, AttachmentsInv, AttachmentsTyped
  <2>2. row \in UploadType /\ row.run = "pending" /\ row.content = saving[u].content /\ row.content \in Contents
    BY <1>5, <2>1 DEF UploadType, SavingType
  <2>3. upload' = [upload EXCEPT ![u] = row] /\ saving' = [saving EXCEPT ![u] = NotSaving] /\ disk' = disk
    BY <1>8 DEF Saved
  <2>4. upload[u] = NoUpload BY <2>1 DEF AttachmentsInv, AttachmentsTyped
  <2>5. \A d \in Deleters : \A x \in deleter[d].left : x.id # u BY <1>4, <2>1
  <2>6. saving'[u].content = Absent BY <2>3, NothingIsTyped DEF AttachmentsInv, AttachmentsTyped
  <2>7. row.content \notin raced \cup forsaken => row.content \in disk BY <2>1, <2>2 DEF AttachmentsInv, FileInv
  <2> HIDE DEF row
  <2> QED BY <1>2, <2>1, <2>2, <2>3, <2>4, <2>5, <2>6, <2>7
<1> QED BY <1>6, <1>7, <1>8

\* Rows change their run or go, and nothing else.
LEMMA RowsKeep ==
    ASSUME AttachmentsInv, UNCHANGED <<disk, saving, deleter, raced>>, forsaken \subseteq forsaken',
           upload' \in [Uploads -> UploadType],
           \A u \in Uploads : \/ upload'[u] = upload[u]
                              \/ /\ upload'[u] = NoUpload
                                 /\ upload[u].content \in Contents => upload[u].content \in forsaken'
                              \/ /\ upload'[u].content = upload[u].content /\ upload[u].content \in Contents
                                 /\ upload'[u].run # Absent /\ \A d \in Deleters : deleter[d].run # upload'[u].run
    PROVE  AttachmentsInv'
<1>1. ASSUME NEW u \in Uploads PROVE upload'[u] = NoUpload \/ (upload'[u].content \in Contents /\ upload'[u].run # Absent)
  BY DEF AttachmentsInv, AttachmentsTyped
<1>2. ASSUME NEW u \in Uploads, upload[u] = NoUpload PROVE upload'[u] = NoUpload
  BY <1>2, NothingIsTyped, AttachmentsAssumption
<1>3. AttachmentsTyped' BY <1>1, <1>2 DEF AttachmentsInv, AttachmentsTyped
<1>4. ASSUME NEW d \in Deleters PROVE JobInv(deleter[d])'
  <2>1. JobInv(deleter[d]) /\ deleter[d] \in JobType BY DEF AttachmentsInv, AttachmentsTyped
  <2>2. ASSUME NEW x \in deleter[d].left PROVE upload'[x.id] = NoUpload \/ upload'[x.id].content = x.content
    <3>1. x.id \in Uploads BY <2>1, <2>2 DEF JobType
    <3>2. upload[x.id] = NoUpload \/ upload[x.id].content = x.content BY <2>1, <2>2 DEF JobInv
    <3> QED BY <1>2, <3>1, <3>2
  <2>3. ASSUME deleter[d].run \in Messages, NEW u \in Uploads, upload'[u].run = deleter[d].run
        PROVE  \E x \in deleter[d].left : x.id = u
    <3>1. upload'[u] # NoUpload BY <2>3, NothingIsTyped, AttachmentsAssumption
    <3>2. upload'[u] = upload[u] BY <2>3, <3>1
    <3> QED BY <2>1, <2>3, <3>2 DEF JobInv
  <2> QED BY <2>1, <2>2, <2>3 DEF JobInv
<1>5. ASSUME NEW c \in Contents PROVE FileInv(c)'
  <2>1. FileInv(c) BY DEF AttachmentsInv
  <2>2. c \notin forsaken' => (IsNamed(c, upload') <=> IsNamed(c, upload))
    BY NothingIsTyped, AttachmentsAssumption DEF IsNamed
  <2> QED BY <2>1, <2>2 DEF FileInv
<1> QED BY <1>3, <1>4, <1>5 DEF AttachmentsInv

LEMMA AttachmentsStep == AttachmentsInv /\ [AttachmentsNext]_attachmentVars => AttachmentsInv'
<1> SUFFICES ASSUME AttachmentsInv, [AttachmentsNext]_attachmentVars PROVE AttachmentsInv'
  OBVIOUS
<1>1. upload \in [Uploads -> UploadType] BY DEF AttachmentsInv, AttachmentsTyped
<1>2. ASSUME NEW m \in Messages, NEW us \in SUBSET Uploads, NEW bound \in SUBSET Uploads, Send(m, us, bound)
      PROVE  AttachmentsInv'
  <2>1. /\ \A u \in Uploads : upload'[u] = IF u \in bound THEN [upload[u] EXCEPT !.run = m] ELSE upload[u]
        /\ upload' = [u \in Uploads |-> IF u \in bound THEN [upload[u] EXCEPT !.run = m] ELSE upload[u]]
        /\ \A u \in bound : upload[u].run = "pending"
        /\ \A d \in Deleters : deleter[d].run # m
        /\ UNCHANGED <<disk, saving, deleter, raced, forsaken>>
    BY <1>2 DEF Send, Sent
  <2>2. ASSUME NEW u \in bound
        PROVE  /\ upload'[u] \in UploadType /\ upload'[u].run = m /\ upload'[u].content = upload[u].content
               /\ upload[u].content \in Contents /\ m # Absent
    <3>1. upload'[u] = [upload[u] EXCEPT !.run = m] BY <2>1, <2>2
    <3>2. upload[u] \in UploadType BY <1>1
    <3>3. [upload[u] EXCEPT !.run = m] \in UploadType BY <3>2 DEF UploadType
    <3>4. /\ [upload[u] EXCEPT !.run = m].run = m
          /\ [upload[u] EXCEPT !.run = m].content = upload[u].content
      BY <3>2 DEF UploadType
    <3>5. upload[u].content \in Contents
      BY <2>1, NothingIsTyped, AttachmentsAssumption DEF AttachmentsInv, AttachmentsTyped
    <3> QED BY <3>1, <3>3, <3>4, <3>5, AttachmentsAssumption
  <2>3. upload' \in [Uploads -> UploadType] BY <1>1, <2>1, <2>2
  <2> QED BY <2>1, <2>2, <2>3, RowsKeep
<1>3. ASSUME NEW us \in SUBSET Uploads, DropSession(us) PROVE AttachmentsInv'
  <2>1. /\ upload' = [u \in Uploads |-> IF u \in us THEN NoUpload ELSE upload[u]]
        /\ forsaken' = forsaken \cup {upload[u].content : u \in us}
        /\ UNCHANGED <<disk, saving, deleter, raced>>
    BY <1>3 DEF DropSession
  <2>2. upload' \in [Uploads -> UploadType] BY <1>1, <2>1, NothingIsTyped
  <2> QED BY <2>1, <2>2, RowsKeep
<1>4. ASSUME NEW m \in Messages, MessageEnds(m) PROVE AttachmentsInv'
  BY <1>4, <1>1, RowsKeep DEF MessageEnds
<1>5. ASSUME NEW d \in Deleters, GoesOn(d) PROVE AttachmentsInv'
  BY <1>5, DeletesKeeps DEF GoesOn, AttachmentsInv, AttachmentsTyped
<1>6. ASSUME NEW d \in Deleters, Unlinks(d) PROVE AttachmentsInv'
  <2> DEFINE c == deleter[d].unlinks
             job == [deleter[d] EXCEPT !.unlinks = Absent]
  <2>1. /\ c # Absent /\ disk' = disk \ {c} /\ deleter' = [deleter EXCEPT ![d] = job]
        /\ raced' = IF (\E u \in Uploads : saving[u].content = c) \/ IsNamed(c, upload) THEN raced \cup {c} ELSE raced
        /\ UNCHANGED <<upload, saving, forsaken>>
    BY <1>6 DEF Unlinks
  <2>2. job \in JobType /\ job.left = deleter[d].left /\ job.run = deleter[d].run /\ job.unlinks = Absent
    BY DEF AttachmentsInv, AttachmentsTyped, JobType
  <2> HIDE DEF job
  <2>3. deleter' \in [Deleters -> JobType] /\ deleter'[d] = job /\ \A y \in Deleters \ {d} : deleter'[y] = deleter[y]
    BY <2>1, <2>2 DEF AttachmentsInv, AttachmentsTyped
  <2>4. AttachmentsTyped' BY <2>1, <2>3 DEF AttachmentsInv, AttachmentsTyped
  <2>5. ASSUME NEW y \in Deleters PROVE JobInv(deleter[y])'
    <3>1. deleter'[y].left = deleter[y].left /\ deleter'[y].run = deleter[y].run BY <2>2, <2>3
    <3> QED BY <2>1, <3>1 DEF AttachmentsInv, JobInv
  <2>6. ASSUME NEW k \in Contents PROVE FileInv(k)'
    <3>1. FileInv(k) BY DEF AttachmentsInv
    <3>2. CASE k = c
      BY <2>1, <3>2 DEF FileInv
    <3>3. CASE k # c
      <4>1. \A y \in Deleters : deleter[y].unlinks = k => deleter'[y].unlinks = k BY <2>3, <3>3
      <4> QED BY <2>1, <3>1, <3>3, <4>1 DEF FileInv
    <3> QED BY <3>2, <3>3
  <2> QED BY <2>4, <2>5, <2>6 DEF AttachmentsInv
<1>7. ASSUME NEW d \in Deleters, Finishes(d) PROVE AttachmentsInv'
  <2>1. /\ deleter[d].left = {} /\ deleter[d].unlinks = Absent
        /\ deleter' = [deleter EXCEPT ![d] = AtRest] /\ UNCHANGED <<disk, saving, raced, forsaken>>
        /\ \/ upload' = upload
           \/ /\ deleter[d].run \in Messages
              /\ upload' = [u \in Uploads |-> IF upload[u].run = deleter[d].run THEN NoUpload ELSE upload[u]]
    BY <1>7 DEF Finishes
  <2>2. deleter[d].run \in Messages => \A u \in Uploads : upload[u].run # deleter[d].run
    BY <2>1 DEF AttachmentsInv, JobInv
  <2>3. upload' = upload BY <1>1, <2>1, <2>2
  <2>4. /\ deleter' \in [Deleters -> JobType] /\ deleter'[d] = AtRest
        /\ \A y \in Deleters \ {d} : deleter'[y] = deleter[y]
    BY <2>1, NothingIsTyped DEF AttachmentsInv, AttachmentsTyped
  <2>5. AttachmentsTyped' BY <2>1, <2>3, <2>4 DEF AttachmentsInv, AttachmentsTyped
  <2>6. \A y \in Deleters : JobInv(deleter[y])'
    BY <2>1, <2>3, <2>4, NothingIsTyped, AttachmentsAssumption DEF AttachmentsInv, JobInv
  <2>7. \A y \in Deleters : deleter'[y].unlinks = deleter[y].unlinks BY <2>1, <2>4, NothingIsTyped
  <2>8. \A c \in Contents : FileInv(c)' BY <2>1, <2>3, <2>7 DEF AttachmentsInv, FileInv
  <2> QED BY <2>5, <2>6, <2>8 DEF AttachmentsInv
<1>8. CASE Dies
  <2>1. /\ saving' = [u \in Uploads |-> NotSaving] /\ deleter' = [d \in Deleters |-> AtRest]
        /\ raced' = raced \cup {saving[u].content : u \in Uploads} \cup {deleter[d].unlinks : d \in Deleters}
        /\ UNCHANGED <<upload, disk, forsaken>>
    BY <1>8 DEF Dies
  <2>2. AttachmentsTyped' BY <2>1, NothingIsTyped DEF AttachmentsInv, AttachmentsTyped
  <2>3. \A d \in Deleters : JobInv(deleter[d])' BY <2>1, NothingIsTyped, AttachmentsAssumption DEF JobInv
  <2>4. ASSUME NEW c \in Contents PROVE FileInv(c)'
    <3>1. FileInv(c) BY DEF AttachmentsInv
    <3>2. c \notin raced' => /\ c \notin raced /\ \A u \in Uploads : saving[u].content # c
                             /\ \A d \in Deleters : deleter[d].unlinks # c
      BY <2>1
    <3> QED BY <2>1, <3>1, <3>2, NothingIsTyped DEF FileInv
  <2> QED BY <2>2, <2>3, <2>4 DEF AttachmentsInv
<1>9. CASE UNCHANGED attachmentVars
  BY <1>9, <1>1, RowsKeep DEF attachmentVars
<1>10. ASSUME NEW u \in Uploads, NEW c \in Contents, Save(u, c) PROVE AttachmentsInv'
  BY <1>10, SaveKeeps
<1>11. ASSUME NEW u \in Uploads, FileWritten(u) \/ Saved(u) PROVE AttachmentsInv'
  BY <1>11, SaveKeeps
<1>12. ASSUME NEW d \in Deleters, Begins(d) PROVE AttachmentsInv'
  BY <1>12, BeginsKeeps
<1> QED
  BY <1>2, <1>3, <1>4, <1>5, <1>6, <1>7, <1>8, <1>9, <1>10, <1>11, <1>12 DEF AttachmentsNext

\* For any number of uploads, contents and flows that delete, a file is there
\* as long as a row names it and goes with the last one, save where the code
\* races or leaves it.
THEOREM FilesAlwaysFollowRows == AttachmentsSpec => []FilesFollowRows
<1>1. AttachmentsInit => AttachmentsInv
  <2> SUFFICES ASSUME AttachmentsInit PROVE AttachmentsInv
    OBVIOUS
  <2>1. /\ \A u \in Uploads : upload[u] = NoUpload /\ saving[u] = NotSaving
        /\ \A d \in Deleters : deleter[d] = AtRest
        /\ disk = {}
    BY DEF AttachmentsInit
  <2>2. AttachmentsTyped BY <2>1, NothingIsTyped DEF AttachmentsInit, AttachmentsTyped
  <2>3. \A d \in Deleters : JobInv(deleter[d]) BY <2>1, NothingIsTyped, AttachmentsAssumption DEF JobInv
  <2>4. \A c \in Contents : FileInv(c)
    BY <2>1, NothingIsTyped, AttachmentsAssumption DEF FileInv, IsNamed
  <2> QED BY <2>2, <2>3, <2>4 DEF AttachmentsInv
<1>2. AttachmentsInv => FilesFollowRows
  BY DEF AttachmentsInv, FileInv, FilesFollowRows
<1> QED BY <1>1, <1>2, AttachmentsStep, PTL DEF AttachmentsSpec

-----------------------------------------------------------------------------
(* BoardOrder: a card lands where it is dropped *)

Keys == {k \in Seq(Digit) : k # <<>> /\ k[Len(k)] # 0}
Bounds == Keys \cup {<<>>}

\* A bound is a sequence of digits, the empty one included.
LEMMA BoundsAreSeqs ==
    ASSUME NEW a \in Bounds
    PROVE  a \in Seq(Digit) /\ Len(a) \in Nat
<1>1. CASE a \in Keys BY <1>1 DEF Keys
<1>2. CASE a = <<>>
  <2>1. <<>> \in Seq(Digit) OBVIOUS
  <2> QED BY <1>2, <2>1
<1> QED BY <1>1, <1>2 DEF Bounds

\* The digits of a key as the walk reads them, those past its end included.
LEMMA DigitsOf ==
    ASSUME NEW k \in Seq(Digit), NEW i \in Nat \ {0}
    PROVE  /\ Low(k, i) \in Digit /\ Roof(k, i) \in 0..Base
           /\ Len(k) \in Nat
           /\ i <= Len(k) => k[i] \in Digit /\ Low(k, i) = k[i] /\ Roof(k, i) = k[i]
           /\ i > Len(k) => Low(k, i) = 0 /\ Roof(k, i) = Base
<1>1. Len(k) \in Nat OBVIOUS
<1>2. ASSUME i <= Len(k) PROVE k[i] \in Digit
  <2>1. i \in 1..Len(k) BY <1>1, <1>2
  <2> QED BY <2>1
<1> QED BY <1>1, <1>2, BaseAssumption DEF Digit, Low, Roof

\* The walk stops at the first place with room.
LEMMA StopIsFirst ==
    ASSUME NEW a \in Seq(Digit), NEW b \in Seq(Digit)
    PROVE  /\ Stop(a, b) \in Ends(a, b)
           /\ \A j \in 1..(Stop(a, b) - 1) : High(a, b, j) <= Low(a, j) + 1
           /\ Stop(a, b) \in Nat \ {0}
<1> DEFINE top == Len(a) + Len(b) + 1
           E == Ends(a, b)
<1>1. Len(a) \in Nat /\ Len(b) \in Nat /\ top \in Nat \ {0} /\ top > Len(a) /\ top > Len(b) OBVIOUS
<1>2. Low(a, top) = 0 /\ Roof(b, top) = Base BY <1>1, DigitsOf
<1>3. High(a, b, top) = Base BY <1>2 DEF High
<1>4. top \in E BY <1>1, <1>2, <1>3, BaseAssumption DEF Ends
<1>5. E \in SUBSET Nat /\ \A i \in E : i \in 1..top BY <1>1 DEF Ends
<1> HIDE DEF E, top
<1>6. PICK m \in E : \A j \in E : m <= j BY <1>4, <1>5, LeastNatural
<1>7. Stop(a, b) \in E /\ \A j \in E : Stop(a, b) <= j
  BY <1>6 DEF Stop, E
<1>8. ASSUME NEW j \in 1..(Stop(a, b) - 1) PROVE High(a, b, j) <= Low(a, j) + 1
  <2>0. Stop(a, b) \in 1..top BY <1>5, <1>7
  <2> DEFINE st == Stop(a, b)
  <2>10. j \in 1..(st - 1) /\ st \in 1..top /\ \A i \in E : st <= i BY <1>7, <2>0
  <2> HIDE DEF st
  <2>1. j \in Nat \ {0} /\ j \in 1..top /\ j \notin E
    BY <1>1, <2>10
  <2>2. Low(a, j) \in Digit /\ Roof(b, j) \in 0..Base BY <2>1, DigitsOf
  <2>3. High(a, b, j) \in 0..Base BY <2>2, BaseAssumption DEF High
  <2>4. ~(High(a, b, j) > Low(a, j) + 1) BY <2>1 DEF E, Ends, top
  <2> QED BY <2>2, <2>3, <2>4, BaseAssumption DEF Digit
<1> QED BY <1>1, <1>5, <1>7, <1>8 DEF E

\* As long as the walk is bounded from above, it walks along both bounds.
LEMMA WalksAlong ==
    ASSUME NEW a \in Bounds, NEW b \in Keys, Precedes(a, b),
           NEW i \in 1..Stop(a, b), ~Opened(a, b, i)
    PROVE  /\ \A h \in 1..(i - 1) : h <= Len(b) /\ b[h] = Low(a, h)
           /\ i <= Len(b)
<1>01. a \in Seq(Digit) /\ b \in Seq(Digit) BY BoundsAreSeqs DEF Bounds
<1>02. Stop(a, b) \in Nat BY <1>01, StopIsFirst
<1>0. a \in Seq(Digit) /\ b \in Seq(Digit) /\ Stop(a, b) \in Nat /\ i \in Nat \ {0}
  BY <1>01, <1>02
<1>1. Len(a) \in Nat /\ Len(b) \in Nat \ {0} /\ b[Len(b)] # 0 BY <1>0 DEF Keys
<1>2. PICK n \in 0..Len(a) : n < Len(b) /\ (\A h \in 1..n : a[h] = b[h]) /\ (n = Len(a) \/ a[n + 1] < b[n + 1])
  BY DEF Precedes
<1>3. ASSUME NEW h \in 1..(i - 1) PROVE h <= Len(b) /\ b[h] <= Low(a, h) /\ b[h] \in Digit /\ Low(a, h) \in Digit
  <2>1. h \in 1..(Stop(a, b) - 1) /\ h \in Nat \ {0} BY <1>0, <1>3
  <2>2. High(a, b, h) <= Low(a, h) + 1 BY <1>0, <2>1, StopIsFirst
  <2>3. ~Opened(a, b, h) /\ Roof(b, h) # Low(a, h) + 1 BY <1>0, <1>3 DEF Opened
  <2>4. Low(a, h) \in Digit /\ Roof(b, h) \in 0..Base BY <1>0, <2>1, DigitsOf
  <2>5. Roof(b, h) <= Low(a, h) BY <2>2, <2>3, <2>4, BaseAssumption DEF High, Digit
  <2>6. h <= Len(b)
    <3> SUFFICES ASSUME h > Len(b) PROVE FALSE BY <1>1, <2>1
    <3>1. Roof(b, h) = Base BY <1>0, <2>1, DigitsOf
    <3> QED BY <2>4, <2>5, <3>1, BaseAssumption DEF Digit
  <2> QED BY <1>0, <2>1, <2>4, <2>5, <2>6, DigitsOf
<1>4. ASSUME NEW h \in 1..(i - 1) PROVE b[h] = Low(a, h)
  <2>1. h \in Nat \ {0} BY <1>0
  <2>2. CASE h <= n
    <3>1. h <= Len(a) /\ h \in 1..n BY <1>1, <1>2, <2>1, <2>2
    <3>2. Low(a, h) = a[h] BY <1>0, <2>1, <3>1, DigitsOf
    <3> QED BY <1>2, <3>1, <3>2
  <2>3. CASE h > n /\ n = Len(a)
    <3>1. Low(a, h) = 0 BY <1>0, <2>1, <2>3, DigitsOf
    <3> QED BY <1>3, <3>1, BaseAssumption DEF Digit
  <2>4. CASE h > n /\ n # Len(a)
    <3>1. n + 1 \in 1..(i - 1) /\ n + 1 <= Len(a) /\ n + 1 \in Nat \ {0} BY <1>0, <1>1, <2>1, <2>4
    <3>2. b[n + 1] <= Low(a, n + 1) /\ b[n + 1] \in Digit BY <1>3, <3>1
    <3>3. Low(a, n + 1) = a[n + 1] /\ a[n + 1] \in Digit BY <1>0, <3>1, DigitsOf
    <3> QED BY <1>2, <2>4, <3>2, <3>3, BaseAssumption DEF Digit
  <2> QED BY <1>1, <2>1, <2>2, <2>3, <2>4
<1>5. i <= Len(b)
  <2> SUFFICES ASSUME i > Len(b) PROVE FALSE
    BY <1>0, <1>1
  <2>1. \A h \in 1..Len(b) : b[h] = Low(a, h) BY <1>0, <1>1, <1>4
  <2>2. n + 1 \in 1..Len(b) /\ n + 1 \in Nat \ {0} BY <1>1, <1>2
  <2>3. CASE n # Len(a)
    <3>1. n + 1 <= Len(a) BY <1>1, <2>3
    <3>2. Low(a, n + 1) = a[n + 1] /\ a[n + 1] \in Digit BY <1>0, <2>2, <3>1, DigitsOf
    <3>3. a[n + 1] < b[n + 1] /\ b[n + 1] = Low(a, n + 1) BY <1>2, <2>1, <2>2, <2>3
    <3> QED BY <3>2, <3>3, BaseAssumption DEF Digit
  <2>4. CASE n = Len(a)
    <3>1. Len(b) > Len(a) BY <1>1, <1>2, <2>4
    <3>2. Low(a, Len(b)) = 0 BY <1>0, <1>1, <3>1, DigitsOf
    <3> QED BY <1>1, <2>1, <3>2
  <2> QED BY <2>3, <2>4
<1> QED BY <1>3, <1>4, <1>5

\* The key the walk writes.
LEMMA WalkedKey ==
    ASSUME NEW a \in Bounds, NEW b \in Bounds
    PROVE  LET k == Walked(a, b)
               s == Stop(a, b)
           IN  /\ k \in Keys /\ Len(k) = s /\ s \in Nat \ {0}
               /\ \A i \in 1..(s - 1) : k[i] = Low(a, i)
               /\ Low(a, s) < k[s] /\ k[s] < High(a, b, s)
<1> DEFINE k == Walked(a, b)
           s == Stop(a, b)
           mid == (Low(a, s) + High(a, b, s)) \div 2
<1>0. a \in Seq(Digit) /\ b \in Seq(Digit) BY BoundsAreSeqs
<1>1. s \in Nat \ {0} /\ s \in Ends(a, b) BY <1>0, StopIsFirst
<1>2. Low(a, s) \in Digit /\ Roof(b, s) \in 0..Base BY <1>0, <1>1, DigitsOf
<1>3. High(a, b, s) \in 0..Base /\ High(a, b, s) > Low(a, s) + 1 BY <1>1, <1>2, BaseAssumption DEF High, Ends
<1>4. Low(a, s) < mid /\ mid < High(a, b, s) /\ mid \in Digit /\ mid # 0
  <2>1. \A x, y \in Nat : y > x + 1 => x < (x + y) \div 2 /\ (x + y) \div 2 < y /\ (x + y) \div 2 \in Nat
    BY Z3
  <2> QED BY <1>2, <1>3, <2>1, BaseAssumption DEF Digit
<1>5. k = [i \in 1..s |-> IF i < s THEN Low(a, i) ELSE (Low(a, i) + High(a, b, i)) \div 2] BY DEF Walked
<1>6. \A i \in 1..(s - 1) : i \in Nat \ {0} /\ Low(a, i) \in Digit BY <1>0, <1>1, DigitsOf
<1> HIDE DEF s, k, mid
<1>7. \A i \in 1..s : k[i] = IF i < s THEN Low(a, i) ELSE mid BY <1>1, <1>5 DEF mid
<1>8. \A i \in 1..s : k[i] \in Digit BY <1>1, <1>4, <1>6, <1>7
<1>9. k \in Seq(Digit) /\ Len(k) = s BY <1>1, <1>5, <1>8
<1>10. k[s] = mid BY <1>1, <1>7
<1>11. k \in Keys BY <1>1, <1>4, <1>9, <1>10 DEF Keys
<1> QED BY <1>1, <1>4, <1>7, <1>9, <1>10, <1>11 DEF s, k

\* The walk lands strictly between its bounds, on a key that leaves room.
LEMMA LandsBetween ==
    ASSUME NEW a \in Bounds, NEW b \in Bounds, b # <<>> => Precedes(a, b)
    PROVE  /\ Walked(a, b) \in Keys
           /\ Precedes(a, Walked(a, b))
           /\ b # <<>> => Precedes(Walked(a, b), b)
<1> DEFINE k == Walked(a, b)
           s == Stop(a, b)
<1>0. a \in Seq(Digit) /\ b \in Seq(Digit) /\ Len(a) \in Nat /\ Len(b) \in Nat BY BoundsAreSeqs
<1>1. /\ k \in Keys /\ Len(k) = s /\ s \in Nat \ {0}
      /\ \A i \in 1..(s - 1) : k[i] = Low(a, i)
      /\ Low(a, s) < k[s] /\ k[s] < High(a, b, s)
  BY WalkedKey
<1> HIDE DEF k, s
<1>2. Precedes(a, k)
  <2>1. CASE s <= Len(a)
    <3>1. s - 1 \in 0..Len(a) /\ s - 1 < Len(k) BY <1>0, <1>1, <2>1
    <3>2. \A i \in 1..(s - 1) : a[i] = k[i]
      <4> TAKE i \in 1..(s - 1)
      <4>1. i \in Nat \ {0} /\ i <= Len(a) BY <1>1, <1>0, <2>1
      <4> QED BY <1>0, <1>1, <4>1, DigitsOf
    <3>3. a[s] < k[s] BY <1>0, <1>1, <2>1, DigitsOf
    <3> QED BY <1>1, <3>1, <3>2, <3>3 DEF Precedes
  <2>2. CASE s > Len(a)
    <3>1. \A i \in 1..Len(a) : a[i] = k[i]
      <4> TAKE i \in 1..Len(a)
      <4>1. i \in 1..(s - 1) /\ i \in Nat \ {0} /\ i <= Len(a) BY <1>0, <1>1, <2>2
      <4> QED BY <1>0, <1>1, <4>1, DigitsOf
    <3> QED BY <1>0, <1>1, <2>2, <3>1 DEF Precedes
  <2> QED BY <1>0, <1>1, <2>1, <2>2
<1>3. ASSUME b # <<>> PROVE Precedes(k, b)
  <2>0. b \in Keys /\ Precedes(a, b) BY <1>3 DEF Bounds
  <2>1. CASE ~Opened(a, b, s)
    <3>1. s \in 1..s BY <1>1
    <3>2. (\A h \in 1..(s - 1) : h <= Len(b) /\ b[h] = Low(a, h)) /\ s <= Len(b)
      BY <2>0, <2>1, <3>1, WalksAlong DEF s
    <3>3. k[s] < b[s] BY <1>0, <1>1, <2>1, <3>2, DigitsOf DEF High
    <3>4. s - 1 \in 0..Len(k) /\ s - 1 < Len(b) /\ \A i \in 1..(s - 1) : k[i] = b[i] BY <1>0, <1>1, <3>2
    <3> QED BY <1>1, <3>3, <3>4 DEF Precedes
  <2>2. CASE Opened(a, b, s)
    <3> DEFINE X == {h \in 1..(s - 1) : Roof(b, h) = Low(a, h) + 1}
    <3>1. X \in SUBSET Nat /\ X # {} BY <1>1, <2>2 DEF Opened
    <3>2. PICK h \in X : \A j \in X : h <= j
      <4> HIDE DEF X
      <4> QED BY <3>1, LeastNatural
    <3>3. h \in 1..(s - 1) /\ h \in Nat \ {0} /\ Roof(b, h) = Low(a, h) + 1 BY <1>1, <3>2
    <3>4. ~Opened(a, b, h)
      <4> SUFFICES ASSUME NEW j \in 1..(h - 1), Roof(b, j) = Low(a, j) + 1 PROVE FALSE
        BY DEF Opened
      <4>1. j \in X BY <1>1, <3>3
      <4> QED BY <3>2, <3>3, <4>1
    <3>5. (\A j \in 1..(h - 1) : j <= Len(b) /\ b[j] = Low(a, j)) /\ h <= Len(b)
      <4>1. h \in 1..s BY <1>1, <3>3
      <4> QED BY <2>0, <3>4, <4>1, WalksAlong DEF s
    <3>6. k[h] < b[h]
      <4>1. b[h] = Low(a, h) + 1 BY <1>0, <3>3, <3>5, DigitsOf
      <4>2. Low(a, h) \in Digit BY <1>0, <3>3, DigitsOf
      <4> QED BY <1>1, <3>3, <4>1, <4>2, BaseAssumption DEF Digit
    <3>7. \A j \in 1..(h - 1) : k[j] = b[j]
      <4> TAKE j \in 1..(h - 1)
      <4>1. j \in 1..(s - 1) BY <1>1, <3>3
      <4> QED BY <1>1, <3>5, <4>1
    <3>8. h - 1 \in 0..Len(k) /\ h - 1 < Len(b) BY <1>0, <1>1, <3>3, <3>5
    <3> QED BY <3>3, <3>6, <3>7, <3>8 DEF Precedes
  <2> QED BY <2>1, <2>2
<1> QED BY <1>1, <1>2, <1>3 DEF k

-----------------------------------------------------------------------------
\* The order of the keys.
LEMMA OrderIsStrict ==
    ASSUME NEW a \in Seq(Digit)
    PROVE  ~Precedes(a, a)
<1> SUFFICES ASSUME Precedes(a, a) PROVE FALSE
  OBVIOUS
<1>1. PICK n \in 0..Len(a) : n < Len(a) /\ (n = Len(a) \/ a[n + 1] < a[n + 1]) BY DEF Precedes
<1>2. Len(a) \in Nat OBVIOUS
<1>3. n + 1 \in 1..Len(a) /\ a[n + 1] < a[n + 1] BY <1>1, <1>2
<1>4. a[n + 1] \in Digit BY <1>3
<1> QED BY <1>3, <1>4, BaseAssumption DEF Digit

\* The order of keys is transitive.
LEMMA OrderIsTransitive ==
    ASSUME NEW a \in Seq(Digit), NEW b \in Seq(Digit), NEW c \in Seq(Digit), Precedes(a, b), Precedes(b, c)
    PROVE  Precedes(a, c)
<1>1. PICK n \in 0..Len(a) : n < Len(b) /\ (\A i \in 1..n : a[i] = b[i]) /\ (n = Len(a) \/ a[n + 1] < b[n + 1])
  BY DEF Precedes
<1>2. PICK m \in 0..Len(b) : m < Len(c) /\ (\A i \in 1..m : b[i] = c[i]) /\ (m = Len(b) \/ b[m + 1] < c[m + 1])
  BY DEF Precedes
<1>3. Len(a) \in Nat /\ Len(b) \in Nat /\ Len(c) \in Nat OBVIOUS
<1>4. CASE n < m
  <2>1. n < Len(c) /\ \A i \in 1..n : a[i] = c[i] BY <1>1, <1>2, <1>3, <1>4
  <2>2. n = Len(a) \/ a[n + 1] < c[n + 1] BY <1>1, <1>2, <1>3, <1>4
  <2> QED BY <2>1, <2>2 DEF Precedes
<1>5. CASE m <= n
  <2>1. m \in 0..Len(a) /\ m < Len(c) /\ \A i \in 1..m : a[i] = c[i] BY <1>1, <1>2, <1>3, <1>5
  <2>2. b[m + 1] < c[m + 1] BY <1>1, <1>2, <1>3, <1>5
  <2>3. CASE m < n
    <3>1. a[m + 1] = b[m + 1] BY <1>1, <1>3, <2>3
    <3> QED BY <2>1, <2>2, <3>1 DEF Precedes
  <2>4. CASE m = n /\ n # Len(a)
    <3>1. n + 1 \in 1..Len(a) /\ n + 1 \in 1..Len(b) /\ n + 1 \in 1..Len(c) BY <1>1, <1>2, <1>3, <2>4
    <3>2. a[n + 1] \in Digit /\ b[n + 1] \in Digit /\ c[n + 1] \in Digit BY <3>1
    <3>3. a[n + 1] < b[n + 1] BY <1>1, <2>4
    <3>4. b[n + 1] < c[n + 1] BY <2>2, <2>4
    <3>5. \A x, y, z \in Digit : x < y /\ y < z => x < z BY BaseAssumption DEF Digit
    <3>6. a[n + 1] < c[n + 1] BY <3>2, <3>3, <3>4, <3>5
    <3> QED BY <2>1, <2>4, <3>6 DEF Precedes
  <2>5. CASE m = n /\ n = Len(a) BY <2>1, <2>5 DEF Precedes
  <2> QED BY <1>5, <2>3, <2>4, <2>5
<1> QED BY <1>3, <1>4, <1>5

\* Two different keys stand one before the other.
LEMMA OrderIsTotal ==
    ASSUME NEW a \in Seq(Digit), NEW b \in Seq(Digit), a # b
    PROVE  Precedes(a, b) \/ Precedes(b, a)
<1>1. Len(a) \in Nat /\ Len(b) \in Nat OBVIOUS
<1> DEFINE X == {i \in Nat : i \in 1..Len(a) /\ i \in 1..Len(b) /\ a[i] # b[i]}
<1>2. CASE X = {}
  <2>1. \A i \in Nat : i \in 1..Len(a) /\ i \in 1..Len(b) => a[i] = b[i] BY <1>2
  <2>2. CASE Len(a) = Len(b)
    <3>1. \A i \in 1..Len(a) : a[i] = b[i] BY <1>1, <2>1, <2>2
    <3> QED BY <2>2, <3>1, SeqEqual
  <2>3. CASE Len(a) < Len(b)
    <3>1. \A i \in 1..Len(a) : a[i] = b[i] BY <1>1, <2>1, <2>3
    <3> QED BY <1>1, <2>3, <3>1 DEF Precedes
  <2>4. CASE Len(b) < Len(a)
    <3>1. \A i \in 1..Len(b) : b[i] = a[i] BY <1>1, <2>1, <2>4
    <3> QED BY <1>1, <2>4, <3>1 DEF Precedes
  <2> QED BY <1>1, <2>2, <2>3, <2>4
<1>3. CASE X # {}
  <2>1. PICK m \in X : \A k \in X : m <= k
    <3>1. X \in SUBSET Nat OBVIOUS
    <3> HIDE DEF X
    <3> QED BY <1>3, <3>1, LeastNatural
  <2>2. m \in 1..Len(a) /\ m \in 1..Len(b) /\ a[m] # b[m] BY <2>1
  <2>3. ASSUME NEW i \in 1..(m - 1) PROVE a[i] = b[i]
    <3>1. i \in Nat /\ i \in 1..Len(a) /\ i \in 1..Len(b) /\ ~(m <= i) BY <1>1, <2>2
    <3> QED BY <2>1, <3>1
  <2>4. a[m] \in Digit /\ b[m] \in Digit BY <2>2
  <2>5. a[m] < b[m] \/ b[m] < a[m] BY <2>2, <2>4, BaseAssumption DEF Digit
  <2>6. m - 1 \in 0..Len(a) /\ m - 1 \in 0..Len(b) /\ m - 1 < Len(a) /\ m - 1 < Len(b) /\ (m - 1) + 1 = m
    BY <1>1, <2>2
  <2> QED BY <2>3, <2>5, <2>6 DEF Precedes
<1> QED BY <1>2, <1>3

\* A finite set of cards with keys has a first one.
LEMMA FirstIsLeast ==
    ASSUME NEW cards \in SUBSET Tickets, cards # {}, \A t \in cards : key[t] \in Seq(Digit)
    PROVE  /\ \E t \in cards : First(cards) = key[t]
           /\ \A u \in cards : First(cards) = key[u] \/ Precedes(First(cards), key[u])
<1> DEFINE Below(t) == {u \in cards : Precedes(key[u], key[t])}
           F == {Below(t) : t \in cards}
<1>1. IsFiniteSet(cards) BY TicketsAssumption, FS_Subset
<1>2. F \in SUBSET SUBSET cards /\ F # {} OBVIOUS
<1>3. PICK T \in F : \A U \in F : U \subseteq T => U = T
  <2> HIDE DEF F
  <2> QED BY <1>1, <1>2, FiniteLeast
<1>4. PICK t \in cards : T = Below(t) BY <1>3
<1>5. ~\E u \in cards : Precedes(key[u], key[t])
  <2> SUFFICES ASSUME NEW u \in cards, Precedes(key[u], key[t]) PROVE FALSE
    OBVIOUS
  <2>1. \A v \in cards : Precedes(key[v], key[u]) => Precedes(key[v], key[t]) BY OrderIsTransitive
  <2>2. Below(u) \subseteq T BY <1>4, <2>1
  <2>3. Below(u) = T BY <1>3, <2>2
  <2>4. u \in Below(u) BY <1>4, <2>3
  <2> QED BY <2>4, OrderIsStrict
<1> DEFINE f == CHOOSE v \in cards : ~\E u \in cards : Precedes(key[u], key[v])
<1>6. f \in cards /\ ~\E u \in cards : Precedes(key[u], key[f]) BY <1>5
<1>7. First(cards) = key[f] BY DEF First
<1> HIDE DEF f
<1>8. ASSUME NEW u \in cards PROVE key[f] = key[u] \/ Precedes(key[f], key[u]) BY <1>6, OrderIsTotal
<1> QED BY <1>6, <1>7, <1>8

-----------------------------------------------------------------------------
OrderInv ==
    /\ column \in [Tickets -> Columns \cup {Nobody}]
    /\ key \in [Tickets -> Seq(Digit)]
    /\ \A t \in Tickets : column[t] # Nobody => key[t] \in Keys

\* Where a card goes: above the lower bound, under the upper one.
Fits(k, lower, upper) ==
    /\ k \in Keys
    /\ lower # Nobody => Precedes(lower, k)
    /\ upper # Nobody => Precedes(k, upper)

\* Keys are sequences of digits, and nobody is none of them.
LEMMA KeysAreKeys == <<>> \in Seq(Digit) /\ Keys \subseteq Seq(Digit) /\ Nobody \notin Seq(Digit) /\ <<>> \notin Keys
<1>1. <<>> \in Seq(Digit) OBVIOUS
<1> QED BY <1>1, TicketsAssumption DEF Keys

\* The key made for a place lies between its bounds.
THEOREM KeyFits ==
    ASSUME NEW lower \in Keys \cup {Nobody}, NEW upper \in Keys \cup {Nobody},
           lower # Nobody /\ upper # Nobody => Precedes(lower, upper)
    PROVE  Fits(OrderKeyBetween(lower, upper), lower, upper)
<1> DEFINE a == IF lower = Nobody THEN <<>> ELSE lower
           b == IF upper = Nobody THEN <<>> ELSE upper
<1>1. a \in Bounds /\ b \in Bounds BY DEF Bounds
<1>2. b # <<>> => Precedes(a, b)
  <2>1. CASE lower = Nobody /\ upper # Nobody
    <3>1. upper \in Keys /\ Len(upper) \in Nat \ {0} BY <2>1 DEF Keys
    <3>2. Len(<<>>) = 0 OBVIOUS
    <3>3. Precedes(<<>>, upper) BY <3>1, <3>2 DEF Precedes
    <3> QED BY <2>1, <3>3
  <2> QED BY <2>1, KeysAreKeys
<1> HIDE DEF a, b
<1>3. /\ Walked(a, b) \in Keys
      /\ Precedes(a, Walked(a, b))
      /\ b # <<>> => Precedes(Walked(a, b), b)
  BY <1>1, <1>2, LandsBetween
<1>4. OrderKeyBetween(lower, upper) = Walked(a, b) BY DEF OrderKeyBetween, a, b
<1>5. /\ lower # Nobody => a = lower
      /\ upper # Nobody => b = upper /\ b # <<>>
  BY KeysAreKeys DEF a, b
<1> QED BY <1>3, <1>4, <1>5 DEF Fits

\* A card put at a place keeps the board keyed and the other cards where they were.
LEMMA PlaceKeeps ==
    ASSUME OrderInv, NEW t \in Tickets, NEW col \in Columns, NEW lower, NEW upper,
           Fits(OrderKeyBetween(lower, upper), lower, upper), Place(t, col, lower, upper)
    PROVE  /\ OrderInv' /\ Fits(key'[t], lower, upper)
           /\ \A u \in Tickets \ {t} : key'[u] = key[u]
<1> DEFINE k == OrderKeyBetween(lower, upper)
<1>1. key' = [key EXCEPT ![t] = k] /\ column' = [column EXCEPT ![t] = col] BY DEF Place
<1>2. k \in Keys /\ k \in Seq(Digit) BY KeysAreKeys DEF Fits
<1> HIDE DEF k
<1>3. key'[t] = k /\ (\A u \in Tickets \ {t} : key'[u] = key[u])
      /\ column'[t] = col /\ (\A u \in Tickets \ {t} : column'[u] = column[u])
  BY <1>1 DEF OrderInv
<1>4. OrderInv' BY <1>1, <1>2, <1>3 DEF OrderInv
<1> QED BY <1>3, <1>4 DEF k

\* The first key of a set of a column's cards, where there is one.
LEMMA ShownKeys ==
    ASSUME OrderInv, NEW col \in Columns, NEW t, NEW S \in SUBSET (Shown(col) \ {t})
    PROVE  /\ S \in SUBSET Tickets
           /\ \A u \in S : key[u] \in Keys
           /\ S = {} => First(S) = Nobody
           /\ S # {} => First(S) \in Keys /\ \A u \in S : First(S) = key[u] \/ Precedes(First(S), key[u])
<1>1. S \in SUBSET Tickets /\ \A u \in S : column[u] # Nobody BY TicketsAssumption DEF Shown
<1>2. \A u \in S : key[u] \in Keys /\ key[u] \in Seq(Digit) BY <1>1, KeysAreKeys DEF OrderInv
<1>3. ASSUME S # {}
      PROVE  First(S) \in Keys /\ \A u \in S : First(S) = key[u] \/ Precedes(First(S), key[u])
  <2>1. (\E u \in S : First(S) = key[u]) /\ \A u \in S : First(S) = key[u] \/ Precedes(First(S), key[u])
    BY <1>1, <1>2, <1>3, FirstIsLeast
  <2> QED BY <1>2, <2>1
<1> QED BY <1>1, <1>2, <1>3 DEF First

\* On top: under every card that is shown.
LEMMA TopKeeps ==
    ASSUME OrderInv, NEW t \in Tickets, NEW col \in Columns, NEW S, S = Shown(col) \/ S = Shown(col) \ {t},
           t \notin S, Place(t, col, Nobody, First(S))
    PROVE  OrderInv' /\ \A x \in S : Precedes(key'[t], key[x])
<1>1. S \in SUBSET (Shown(col) \ {t}) OBVIOUS
<1>2. /\ S \in SUBSET Tickets
      /\ \A u \in S : key[u] \in Keys
      /\ S = {} => First(S) = Nobody
      /\ S # {} => First(S) \in Keys /\ \A u \in S : First(S) = key[u] \/ Precedes(First(S), key[u])
  BY <1>1, ShownKeys
<1>3. Fits(OrderKeyBetween(Nobody, First(S)), Nobody, First(S)) BY <1>2, KeyFits
<1>4. OrderInv' /\ Fits(key'[t], Nobody, First(S)) BY <1>3, PlaceKeeps
<1>5. ASSUME NEW x \in S PROVE Precedes(key'[t], key[x])
  <2>1. First(S) # Nobody /\ First(S) \in Seq(Digit) /\ key[x] \in Seq(Digit) BY <1>2, KeysAreKeys
  <2>2. Precedes(key'[t], First(S)) /\ key'[t] \in Seq(Digit) BY <1>4, <2>1, KeysAreKeys DEF Fits
  <2> QED BY <1>2, <2>1, <2>2, OrderIsTransitive
<1> QED BY <1>4, <1>5

\* After a card: above it and whatever is not above it, under the rest.
LEMMA AfterKeeps ==
    ASSUME OrderInv, NEW t \in Tickets, NEW col \in Columns, NEW after, MoveAfter(t, col, after)
    PROVE  OrderInv' /\ \A x \in Shown(col) \ {t} : IF Precedes(key[after], key[x]) THEN Precedes(key'[t], key[x])
                                                    ELSE Precedes(key[x], key'[t])
<1> DEFINE S == Shown(col) \ {t}
           A == Above(S, key[after])
<1>1. PICK upper \in Uppers(S, after) : upper # key[after] /\ Place(t, col, key[after], upper)
  BY DEF MoveAfter
<1>2. after \in S BY DEF MoveAfter
<1>3. upper = First(A) BY <1>1 DEF Uppers
<1>4. A \in SUBSET S /\ A = {u \in S : Precedes(key[after], key[u])} BY DEF Above
<1> HIDE DEF S, A
<1>50. S \in SUBSET (Shown(col) \ {t}) BY DEF S
<1>51. S \in SUBSET Tickets /\ \A u \in S : key[u] \in Keys BY <1>50, ShownKeys
<1>5. \A u \in S : key[u] \in Keys /\ key[u] \in Seq(Digit) BY <1>51, KeysAreKeys
<1>6. /\ A = {} => First(A) = Nobody
      /\ A # {} => First(A) \in Keys /\ \A u \in A : First(A) = key[u] \/ Precedes(First(A), key[u])
  BY <1>4, ShownKeys DEF S
<1>7. A # {} => Precedes(key[after], First(A))
  <2>1. SUFFICES ASSUME A # {} PROVE Precedes(key[after], First(A)) OBVIOUS
  <2>2. \A u \in A : key[u] \in Seq(Digit) BY <1>4, <1>5
  <2>3. A \in SUBSET Tickets BY <1>4, <1>51
  <2>4. PICK u \in A : First(A) = key[u] BY <2>1, <2>2, <2>3, FirstIsLeast
  <2> QED BY <1>4, <2>4
<1>8. Fits(OrderKeyBetween(key[after], upper), key[after], upper) BY <1>2, <1>3, <1>5, <1>6, <1>7, KeyFits, KeysAreKeys
<1>9. OrderInv' /\ Fits(key'[t], key[after], upper) BY <1>1, <1>8, PlaceKeeps
<1>10. key'[t] \in Seq(Digit) /\ Precedes(key[after], key'[t]) BY <1>2, <1>5, <1>9, KeysAreKeys DEF Fits
<1>11. ASSUME NEW x \in S, Precedes(key[after], key[x]) PROVE Precedes(key'[t], key[x])
  <2>1. x \in A /\ First(A) \in Keys BY <1>4, <1>6, <1>11
  <2>2. Precedes(key'[t], First(A)) /\ First(A) \in Seq(Digit) BY <1>3, <1>9, <2>1, KeysAreKeys DEF Fits
  <2> QED BY <1>5, <1>6, <1>10, <2>1, <2>2, OrderIsTransitive
<1>12. ASSUME NEW x \in S, ~Precedes(key[after], key[x]) PROVE Precedes(key[x], key'[t])
  <2>1. key[x] = key[after] \/ Precedes(key[x], key[after]) BY <1>2, <1>5, <1>12, OrderIsTotal
  <2> QED BY <1>2, <1>5, <1>10, <2>1, OrderIsTransitive
<1> QED BY <1>9, <1>11, <1>12 DEF S

\* Every step keeps the cards of the board keyed.
LEMMA OrderStep == OrderInv /\ [OrderNext]_orderVars => OrderInv'
<1> SUFFICES ASSUME OrderInv, [OrderNext]_orderVars PROVE OrderInv'
  OBVIOUS
<1>1. ASSUME NEW t \in Tickets, NEW col \in Columns, CreateTicket(t, col) PROVE OrderInv'
  <2>1. t \notin Shown(col) BY <1>1, TicketsAssumption DEF CreateTicket, Shown
  <2> QED BY <1>1, <2>1, TopKeeps DEF CreateTicket
<1>2. ASSUME NEW t \in Tickets, NEW col \in Columns, MoveOnTop(t, col) PROVE OrderInv'
  <2> DEFINE S == Shown(col) \ {t}
  <2>1. t \notin S /\ Place(t, col, Nobody, First(S)) BY <1>2 DEF MoveOnTop
  <2> QED BY <2>1, TopKeeps
<1>3. ASSUME NEW t \in Tickets, NEW u \in Tickets, NEW col \in Columns, MoveAfter(t, col, u) PROVE OrderInv'
  BY <1>3, AfterKeeps
<1>4. ASSUME NEW t \in Tickets, ArchiveTicket(t) \/ RestoreTicket(t) PROVE OrderInv'
  BY <1>4 DEF ArchiveTicket, RestoreTicket, OrderInv
<1>5. ASSUME NEW t \in Tickets, DeleteTicket(t) PROVE OrderInv'
  BY <1>5, KeysAreKeys DEF DeleteTicket, OrderInv
<1>6. CASE UNCHANGED orderVars BY <1>6 DEF orderVars, OrderInv
<1> QED BY <1>1, <1>2, <1>3, <1>4, <1>5, <1>6 DEF OrderNext

\* The board is empty at first.
LEMMA OrderStart == OrderInit => OrderInv
BY KeysAreKeys DEF OrderInit, OrderInv

\* No history of creations, moves, archivings and returns makes a key that
\* leaves no room under it, for any finite number of cards and any base.
THEOREM KeysLeaveRoom == OrderSpec => []EveryKeyLeavesRoom
<1>1. OrderInv => EveryKeyLeavesRoom BY DEF OrderInv, Keys, EveryKeyLeavesRoom
<1> QED BY <1>1, OrderStart, OrderStep, PTL DEF OrderSpec

\* A card the board takes is shown where it was dropped: above what stood at
\* or below that place and under what stood above it, whatever keys the
\* column has come to hold.
THEOREM DropsLand == OrderSpec => DropsLandWhereAimed
<1> DEFINE Landed(t, col) ==
         LET siblings == Shown(col) \ {t}
         IN  /\ MoveOnTop(t, col) => \A x \in siblings : Precedes(key'[t], key[x])
             /\ \A u \in siblings : MoveAfter(t, col, u) =>
                  \A x \in siblings : IF Precedes(key[u], key[x]) THEN Precedes(key'[t], key[x])
                                                              ELSE Precedes(key[x], key'[t])
<1>1. ASSUME OrderInv, NEW t \in Tickets, NEW col \in Columns PROVE Landed(t, col)
  <2> DEFINE S == Shown(col) \ {t}
  <2>1. ASSUME MoveOnTop(t, col) PROVE \A x \in S : Precedes(key'[t], key[x])
    <3>1. t \notin S /\ Place(t, col, Nobody, First(S)) BY <2>1 DEF MoveOnTop
    <3> QED BY <1>1, <3>1, TopKeeps
  <2>2. ASSUME NEW u \in S, MoveAfter(t, col, u)
        PROVE  \A x \in S : IF Precedes(key[u], key[x]) THEN Precedes(key'[t], key[x])
                                                    ELSE Precedes(key[x], key'[t])
    BY <1>1, <2>2, AfterKeeps
  <2> QED BY <2>1, <2>2
<1>2. OrderInv => [\A t \in Tickets, col \in Columns : Landed(t, col)]_orderVars BY <1>1
<1> QED BY <1>2, OrderStart, OrderStep, PTL DEF OrderSpec, DropsLandWhereAimed
=============================================================================
