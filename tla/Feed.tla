-------------------------------- MODULE Feed --------------------------------
(***************************************************************************)
(* How a session page stays live: the bus numbers and keeps the frames of  *)
(* each topic (kernel/bus.ts), a socket replays and forwards them          *)
(* (routes/ws.ts), the client keeps one cursor for all its topics          *)
(* (web/src/lib/socket.ts), and the store merges the frames with the HTTP  *)
(* fetch of the session (lib/store.ts, App.tsx, pages/SessionPage.tsx).    *)
(*                                                                         *)
(* Abstracted: of all frames, those that carry a run's status; the two     *)
(* connections of one page, mounted once; backoff, heartbeat and rights.   *)
(* A round trip is shorter than the minute the bus keeps a frame.          *)
(***************************************************************************)
EXTENDS Naturals, Sequences, FiniteSets

CONSTANTS Turns,        \* the runs of the session
          MaxDrops,     \* bound: lost connections and restarts
          NoCursor

\* Runs are published to the session's topic, then to its workspace's.
Topics == {"session", "workspace"}
Status == {"none", "active", "ended"}

ASSUME DropsAssumption == MaxDrops \in Nat
ASSUME CursorAssumption == NoCursor \notin Nat

VARIABLES
    row,        \* runs.status
    serial,     \* seqCounter
    ring,       \* the replay buffer of each topic
    greeted,    \* the server has taken the hello of this socket
    watched,    \* the server's subscriptions of this socket
    inbound, outbound,  \* frames on their way to the server, to the client
    linked,     \* the socket is open
    live,       \* the client has read "ready"
    cursor,
    page,       \* "away", "mounted", or "loaded": the store holds the session
    connected,  \* wasConnected
    fetch,      \* the HTTP request, and its answer
    view,       \* the runs of the store
    drops,
    \* What the properties remember:
    last,       \* highest sequence applied of each topic, of this process
    resumed,    \* this connection resumed an earlier one to this process
    overtaken   \* news was read while an older answer was on its way

bus == <<row, serial, ring>>
socket == <<greeted, watched, inbound, outbound, linked>>
client == <<live, cursor, page, connected, view>>
remembered == <<last, resumed, overtaken>>
feedVars == <<bus, socket, client, fetch, drops, remembered>>

Idle == [at |-> "idle", rows |-> [r \in Turns |-> "none"]]
Asked == [Idle EXCEPT !.at = "asked"]
Mounted == page # "away"

-----------------------------------------------------------------------------
FeedInit ==
    /\ row = [r \in Turns |-> "none"]
    /\ serial = 0
    /\ ring = [t \in Topics |-> <<>>]
    /\ greeted = FALSE /\ watched = {}
    /\ inbound = <<>> /\ outbound = <<>>
    /\ linked = FALSE /\ live = FALSE
    /\ cursor = NoCursor
    /\ page = "away" /\ connected = FALSE
    /\ fetch = Idle
    /\ view = [r \in Turns |-> "none"]
    /\ drops = 0
    /\ last = [t \in Topics |-> 0]
    /\ resumed = FALSE /\ overtaken = FALSE

-----------------------------------------------------------------------------
(* The server *)

StatusFrame(t, n, r, status) == [type |-> "frame", topic |-> t, seq |-> n, run |-> r, status |-> status]

\* The listener of this socket, if the topic has it.
Forwarded(f) == IF f.topic \in watched THEN <<f>> ELSE <<>>

\* publish: buffered, then handed to the listeners in turn.
RunMoves(r, status) ==
    /\ <<row[r], status>> \in {<<"none", "active">>, <<"active", "ended">>}
    /\ row' = [row EXCEPT ![r] = status]
    /\ LET first == StatusFrame("session", serial + 1, r, status)
           second == StatusFrame("workspace", serial + 2, r, status)
       IN  /\ ring' = [t \in Topics |-> Append(ring[t], IF t = "session" THEN first ELSE second)]
           /\ outbound' = outbound \o Forwarded(first) \o Forwarded(second)
    /\ serial' = serial + 2
    /\ UNCHANGED <<greeted, watched, inbound, linked, client, fetch, drops, remembered>>

\* replay and sweep: a frame past REPLAY_MAX_AGE_MS is never replayed.
FramesAge ==
    /\ ~linked
    /\ ring # [t \in Topics |-> <<>>]
    /\ ring' = [t \in Topics |-> <<>>]
    /\ UNCHANGED <<row, serial, socket, client, fetch, drops, remembered>>

ReadHello ==
    /\ inbound # <<>> /\ Head(inbound).type = "hello"
    /\ inbound' = Tail(inbound)
    /\ greeted' = TRUE
    /\ outbound' = Append(outbound, [type |-> "ready", seq |-> serial])
    /\ UNCHANGED <<bus, watched, linked, client, fetch, drops, remembered>>

\* replay's filter, seq > since: a buffer is in the order it was filled, so what
\* the filter leaves is its end.
Missed(t, since) ==
    LET seen == {i \in 1..Len(ring[t]) : ring[t][i].seq <= since}
    IN  IF since = NoCursor THEN <<>>
        ELSE SubSeq(ring[t], Cardinality(seen) + 1, Len(ring[t]))

Accepted_Again(topics) == topics

\* subscribe: a topic already subscribed is left as it is.
Accepted(topics) == topics \ watched

\* subscribe: the gap of each topic, and then its listener.
ReadSubscribe ==
    /\ greeted
    /\ inbound # <<>> /\ Head(inbound).type = "subscribe"
    /\ inbound' = Tail(inbound)
    /\ LET m == Head(inbound)
           gap(t) == IF t \in Accepted(m.topics) THEN Missed(t, m.since) ELSE <<>>
       IN  /\ outbound' = outbound \o gap("session") \o gap("workspace")
           /\ watched' = watched \cup m.topics
    /\ UNCHANGED <<bus, greeted, linked, client, fetch, drops, remembered>>

AnswerFetch ==
    /\ fetch = Asked
    /\ fetch' = [at |-> "answered", rows |-> row]
    /\ UNCHANGED <<bus, socket, client, drops, remembered>>

-----------------------------------------------------------------------------
(* The client *)

Connect ==
    /\ ~linked
    /\ linked' = TRUE
    /\ inbound' = <<[type |-> "hello"]>>
    /\ outbound' = <<>> /\ watched' = {} /\ greeted' = FALSE
    /\ UNCHANGED <<bus, client, fetch, drops, remembered>>

\* SessionPage mounts: a new interest in both topics, and the fetch.
Mount ==
    /\ page = "away"
    /\ page' = "mounted"
    /\ connected' = live
    /\ fetch' = Asked
    /\ inbound' = IF linked THEN inbound \o <<[type |-> "subscribe", topics |-> {"session"}, since |-> NoCursor],
                                              [type |-> "subscribe", topics |-> {"workspace"}, since |-> NoCursor]>>
                  ELSE inbound
    /\ UNCHANGED <<bus, greeted, watched, outbound, linked, live, cursor, view, drops, remembered>>

Refetched_Never == FALSE

\* SessionPage: every open after the first is a reconnection.
Refetched == Mounted /\ connected

\* "ready": every subscription is asserted again, from the cursor.
ReadReady ==
    /\ outbound # <<>> /\ Head(outbound).type = "ready"
    /\ outbound' = Tail(outbound)
    /\ live' = TRUE
    /\ cursor' = IF cursor = NoCursor THEN Head(outbound).seq ELSE cursor
    /\ inbound' = IF Mounted THEN Append(inbound, [type |-> "subscribe", topics |-> Topics, since |-> cursor'])
                  ELSE inbound
    /\ connected' = (Mounted \/ connected)
    /\ IF Refetched THEN fetch' = Asked /\ overtaken' = FALSE ELSE UNCHANGED <<fetch, overtaken>>
    /\ resumed' = (Mounted /\ connected /\ cursor <= Head(outbound).seq)
    /\ UNCHANGED <<bus, greeted, watched, linked, page, view, drops, last>>

\* applyRun: a run's status never goes back from its end.
Merged(known, status) == IF known = "ended" THEN known ELSE status

\* A frame moves the cursor forward, never back.
ReadFrame ==
    /\ outbound # <<>> /\ Head(outbound).type = "frame"
    /\ outbound' = Tail(outbound)
    /\ LET f == Head(outbound)
       IN  /\ cursor' = IF cursor = NoCursor \/ f.seq > cursor THEN f.seq ELSE cursor
           /\ view' = IF page = "loaded" THEN [view EXCEPT ![f.run] = Merged(@, f.status)] ELSE view
           /\ last' = [last EXCEPT ![f.topic] = f.seq]
           /\ overtaken' = (overtaken \/ /\ fetch.at = "answered"
                                         /\ fetch.rows[f.run] \notin {"ended", f.status})
    /\ UNCHANGED <<bus, greeted, watched, inbound, linked, live, page, connected, fetch, drops, resumed>>

\* load: the answer replaces the store.
Load ==
    /\ fetch.at = "answered"
    /\ fetch' = Idle
    /\ view' = fetch.rows
    /\ page' = "loaded"
    /\ UNCHANGED <<bus, socket, live, cursor, connected, drops, remembered>>

-----------------------------------------------------------------------------
(* Faults *)

Cut ==
    /\ linked' = FALSE /\ live' = FALSE
    /\ greeted' = FALSE /\ watched' = {}
    /\ inbound' = <<>> /\ outbound' = <<>>
    /\ resumed' = FALSE
    /\ UNCHANGED <<cursor, page, connected, view, overtaken>>

\* The frames on their way are lost with the connection.
Drop ==
    /\ linked /\ drops < MaxDrops
    /\ drops' = drops + 1
    /\ Cut
    /\ UNCHANGED <<bus, fetch, last>>

\* A restarted process counts from zero and has interrupted its runs.
Restart ==
    /\ drops < MaxDrops
    /\ drops' = drops + 1
    /\ Cut
    /\ serial' = 0
    /\ ring' = [t \in Topics |-> <<>>]
    /\ row' = [r \in Turns |-> IF row[r] = "active" THEN "ended" ELSE row[r]]
    /\ last' = [t \in Topics |-> 0]
    /\ UNCHANGED fetch

FeedNext ==
    \/ \E r \in Turns, status \in Status : RunMoves(r, status)
    \/ FramesAge
    \/ ReadHello \/ ReadSubscribe \/ AnswerFetch
    \/ Connect \/ Mount \/ ReadReady \/ ReadFrame \/ Load
    \/ Drop \/ Restart

FeedSpec == FeedInit /\ [][FeedNext]_feedVars

-----------------------------------------------------------------------------
(* Properties *)

\* subscribe and the cursor: through reconnections, replays and a topic
\* subscribed twice, a page applies the frames of a topic in the order they
\* were published, and none twice.
FramesInOrder ==
    [][\A t \in Topics : last'[t] # last[t] /\ serial' >= serial /\ last'[t] # 0 => last'[t] > last[t]]_feedVars

Settled == page = "loaded" /\ live /\ inbound = <<>> /\ outbound = <<>> /\ fetch = Idle

\* ws.ts, "the client refetches on reconnect anyway": frames lost in a cut
\* replay or too old to be replayed are made up for, and a page that comes
\* back to the same process shows every run as it is, unless the news
\* overtook the answer.
ResumedViewIsCurrent == Settled /\ resumed /\ ~overtaken => view = row

\* store.ts: "A run's status only ever moves forward."
StatusMovesForward ==
    [][\A r \in Turns : view[r] = "ended" => view'[r] = "ended"]_feedVars
=============================================================================
