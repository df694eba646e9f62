------------------------------ MODULE MonitorFeed ------------------------------
(***************************************************************************)
(* What the operator's monitor page shows: the rows and events the service *)
(* keeps in memory (src/kiwi/message_monitor.py), the loop that pushes new *)
(* events to the page's websockets (src/kiwi/web_admin.py), and the page   *)
(* (src/kiwi/webui/app.js), which applies events to the rows it has and    *)
(* loads the rows anew when a socket says so and it is free to.            *)
(*                                                                         *)
(* A row is what its last event says of it. A restart begins another run   *)
(* with sequence numbers from 1; the page does not know of runs. Sessions  *)
(* and the tickets that open sockets are kept in memory: a page whose      *)
(* session is gone is refused everything until the operator opens it anew  *)
(* and logs in.                                                            *)
(***************************************************************************)
EXTENDS Naturals, FiniteSets, Sequences, SequencesExt

CONSTANTS
  Watched,  \* the messages
  Sockets,  \* the page's websockets, one for each scope
  Kept,     \* max_messages
  RingSize, \* max_events
  Batch,    \* limit of one push
  Page,     \* limit of one load
  WireCap,  \* bound: messages under way on one socket
  Budgets   \* bound: how many events, clears, restarts, ends of a session, lost sockets,
            \* failed loads, busy spells and reloads by hand there are

ASSUME MonitorAssumption ==
  /\ Kept \in Nat \ {0} /\ RingSize \in Nat \ {0} /\ Batch \in Nat \ {0} /\ WireCap \in Nat \ {0}
  /\ Page \in Nat \ {0}

NoRow == [seq |-> 0]
NoRows == [k \in Watched |-> NoRow]
Hint == <<>>  \* hello and refresh_hint: a message without events

VARIABLES
  tracked,    \* tracked[k]: the last event of its row, or NoRow
  ring,       \* the events kept
  seq,        \* the last number given
  pushed,     \* last_seq of the push loop
  wire,       \* wire[s]: the messages under way to the page
  session,    \* the page's session: "valid", "expired", or "unknown" to this run
  connected,  \* the sockets that are open
  view,       \* the page's rows
  noticed,       \* monitorEventSeen
  scopeTimer, \* the sockets whose reloadDebounceTimer runs
  pageTimer,  \* pageReloadDebounceTimer runs
  running,    \* autoRefreshRunning
  busy,       \* a dialog is open, the page is hidden, a field is being edited
  loads,      \* loads[l]: a load of the page: "none", "asked", or the answer
  left        \* what is left of the bounds

monitorVars == <<tracked, ring, seq, pushed, wire, session, connected, view, noticed, scopeTimer,
                 pageTimer, running, busy, loads, left>>
serverVars == <<tracked, ring, seq>>
pageVars == <<view, noticed, scopeTimer, pageTimer, running, busy, loads>>

Loaders == {"auto", "hand"}
NoLoad == [at |-> "none"]
Asked == [at |-> "asked"]
Answer(rows) == [at |-> "answered", rows |-> rows]

MonitorInit ==
  /\ tracked = NoRows /\ ring = <<>> /\ seq = 0 /\ pushed = 0
  /\ wire = [s \in Sockets |-> <<>>] /\ session = "valid" /\ connected = {}
  /\ view = NoRows /\ noticed = {} /\ scopeTimer = {} /\ pageTimer = FALSE
  /\ running = FALSE /\ busy = FALSE /\ loads = [l \in Loaders |-> NoLoad]
  /\ left \in Budgets

Costs(what) == left[what] > 0 /\ left' = [left EXCEPT ![what] = @ - 1]

Newest(s, n) == IF Len(s) <= n THEN s ELSE SubSeq(s, Len(s) - n + 1, Len(s))

-----------------------------------------------------------------------------
\* _emit_event_locked
EmitEvent(k) ==
  /\ Costs("event")
  /\ seq' = seq + 1
  /\ ring' = Newest(Append(ring, [seq |-> seq + 1, key |-> k]), RingSize)

\* The n rows touched last.
LastTouched(rows, n) ==
  [k \in Watched |-> IF Cardinality({l \in Watched : rows[l].seq > rows[k].seq}) < n
                     THEN rows[k] ELSE NoRow]

\* _prune_messages_locked: the rows that were touched longest ago go.
Pruned(rows) == LastTouched(rows, Kept)

RegisterMessage(k) ==
  /\ EmitEvent(k)
  /\ tracked' = Pruned([tracked EXCEPT ![k] = [seq |-> seq + 1]])
  /\ UNCHANGED <<pushed, wire, session, connected, pageVars>>

\* note_stage, note_status: nothing for a message that is not there any more.
NoteStage(k) ==
  /\ tracked[k] # NoRow
  /\ EmitEvent(k)
  /\ tracked' = [tracked EXCEPT ![k] = [seq |-> seq + 1]]
  /\ UNCHANGED <<pushed, wire, session, connected, pageVars>>

\* clear_route: a forced re-sync removes the route's rows and events.
ClearRoute(S) ==
  /\ Costs("clear")
  /\ tracked' = [k \in Watched |-> IF k \in S THEN NoRow ELSE tracked[k]]
  /\ ring' = SelectSeq(ring, LAMBDA e : e.key \notin S)
  /\ UNCHANGED <<seq, pushed, wire, session, connected, pageVars>>

\* What is in memory is gone, the sessions and tickets with it.
RestartService ==
  /\ Costs("restart")
  /\ session' = "unknown"
  /\ tracked' = NoRows /\ ring' = <<>> /\ seq' = 0 /\ pushed' = 0
  /\ connected' = {} /\ wire' = [s \in Sockets |-> <<>>]
  /\ loads' = [l \in Loaders |-> IF loads[l] = Asked THEN NoLoad ELSE loads[l]]
  /\ running' = (running /\ loads["auto"] # Asked)
  /\ UNCHANGED <<view, noticed, scopeTimer, pageTimer, busy>>

-----------------------------------------------------------------------------
Broadcast(msg) == wire' = [s \in Sockets |-> IF s \in connected THEN Append(wire[s], msg) ELSE wire[s]]

HasRoom == \A s \in connected : Len(wire[s]) < WireCap

\* push_loop: of the events since the last push the newest go to every socket.
PushEvents ==
  /\ HasRoom /\ pushed # seq
  /\ LET fresh == SelectSeq(ring, LAMBDA e : e.seq > pushed)
     IN IF fresh = <<>> THEN UNCHANGED wire ELSE Broadcast(Newest(fresh, Batch))
  /\ pushed' = seq
  /\ UNCHANGED <<serverVars, session, connected, pageVars, left>>

\* Mutant: a page is told only of what is pushed.
NoHint == FALSE /\ UNCHANGED monitorVars

\* Every other second each socket gets a refresh_hint.
PushHint ==
  /\ HasRoom /\ connected # {} /\ \A s \in connected : wire[s] = <<>>
  /\ Broadcast(Hint)
  /\ UNCHANGED <<serverVars, pushed, session, connected, pageVars, left>>

\* connectScopeSocket and the server's hello. It takes a ticket of this run, which
\* may still do for a while when the session's time is over.
Connect(s) ==
  /\ s \notin connected /\ session # "unknown"
  /\ connected' = connected \cup {s}
  /\ wire' = [wire EXCEPT ![s] = <<Hint>>]
  /\ UNCHANGED <<serverVars, pushed, session, pageVars, left>>

LoseSocket(s) ==
  /\ s \in connected /\ Costs("loss")
  /\ connected' = connected \ {s}
  /\ wire' = [wire EXCEPT ![s] = <<>>]
  /\ UNCHANGED <<serverVars, pushed, session, pageVars>>

-----------------------------------------------------------------------------
\* applyMonitorEvents: an event whose number was noticed before, be it of an earlier run, is
\* passed over; the others change the rows the page has, in the order they come.
Applied(rows, events) ==
  [k \in Watched |->
     LET of == SelectSeq(events, LAMBDA e : e.key = k /\ e.seq \notin noticed)
     IN IF rows[k] = NoRow \/ of = <<>> THEN rows[k] ELSE [seq |-> Last(of).seq]]

\* handleRealtimeMessage
Receive(s) ==
  /\ s \in connected /\ wire[s] # <<>>
  /\ LET events == Head(wire[s]) IN
     /\ view' = Applied(view, events)
     /\ noticed' = noticed \cup {e.seq : e \in ToSet(events)}
  /\ wire' = [wire EXCEPT ![s] = Tail(@)]
  /\ scopeTimer' = scopeTimer \cup {s}
  /\ UNCHANGED <<serverVars, pushed, session, connected, pageTimer, running, busy, loads, left>>

CanAutoRefresh == ~busy /\ ~running

\* The timer of a socket, then that of the page; each is dropped while the page is
\* not free to reload.
FireScopeTimer(s) ==
  /\ s \in scopeTimer
  /\ scopeTimer' = scopeTimer \ {s}
  /\ pageTimer' = (pageTimer \/ CanAutoRefresh)
  /\ UNCHANGED <<serverVars, pushed, wire, session, connected, view, noticed, running, busy, loads, left>>

FirePageTimer ==
  /\ pageTimer
  /\ pageTimer' = FALSE
  /\ IF CanAutoRefresh
     THEN running' = TRUE /\ loads' = [loads EXCEPT !["auto"] = Asked]
     ELSE UNCHANGED <<running, loads>>
  /\ UNCHANGED <<serverVars, pushed, wire, session, connected, view, noticed, scopeTimer, busy, left>>

\* The operator's own reload takes no notice of one that is running.
ReloadByHand ==
  /\ loads["hand"] = NoLoad /\ Costs("hand")
  /\ loads' = [loads EXCEPT !["hand"] = Asked]
  /\ UNCHANGED <<serverVars, pushed, wire, session, connected, view, noticed, scopeTimer, pageTimer, running, busy>>

\* While no socket is open a timer reloads the page.
PollWithoutSockets ==
  /\ connected = {} /\ CanAutoRefresh
  /\ running' = TRUE /\ loads' = [loads EXCEPT !["auto"] = Asked]
  /\ UNCHANGED <<serverVars, pushed, wire, session, connected, view, noticed, scopeTimer, pageTimer, busy, left>>

\* list_messages: the rows the page has room for.
AnswerLoad(l) ==
  /\ loads[l] = Asked /\ session = "valid"
  /\ loads' = [loads EXCEPT ![l] = Answer(LastTouched(tracked, Page))]
  /\ UNCHANGED <<serverVars, pushed, wire, session, connected, view, noticed, scopeTimer, pageTimer, running, busy, left>>

\* Mutant: after a load that failed the page believes that it still reloads.
StillRunning(l) == running

\* What reloadPageData and its caller do when the load is over, however it ended.
RunningAfter(l) == IF l = "auto" THEN FALSE ELSE running

\* loadMonitor
FinishLoad(l) ==
  /\ loads[l].at = "answered"
  /\ view' = loads[l].rows
  /\ loads' = [loads EXCEPT ![l] = NoLoad]
  /\ running' = RunningAfter(l)
  /\ UNCHANGED <<serverVars, pushed, wire, session, connected, noticed, scopeTimer, pageTimer, busy, left>>

LoadIsLost(l) ==
  /\ loads[l] = Asked
  /\ loads' = [loads EXCEPT ![l] = NoLoad]
  /\ running' = RunningAfter(l)
  /\ UNCHANGED <<serverVars, pushed, wire, session, connected, view, noticed, scopeTimer, pageTimer, busy>>

FailLoad(l) == LoadIsLost(l) /\ Costs("failure")

\* The answer is 401, which the page takes for a failed load.
RefuseLoad(l) == LoadIsLost(l) /\ session # "valid" /\ UNCHANGED left

ExpireSession ==
  /\ session = "valid" /\ Costs("expiry")
  /\ session' = "expired"
  /\ UNCHANGED <<serverVars, pushed, wire, connected, pageVars>>

\* The operator opens the page anew and logs in: its first loads, before which it has
\* neither sockets nor timers, were answered.
SignIn ==
  /\ session # "valid" /\ session' = "valid"
  /\ connected' = {} /\ wire' = [s \in Sockets |-> <<>>]
  /\ view' = LastTouched(tracked, Page) /\ noticed' = {} /\ scopeTimer' = {} /\ pageTimer' = FALSE
  /\ running' = FALSE /\ busy' = FALSE /\ loads' = [l \in Loaders |-> NoLoad]
  /\ UNCHANGED <<serverVars, pushed, left>>

GetBusy ==
  /\ ~busy /\ Costs("busy") /\ busy' = TRUE
  /\ UNCHANGED <<serverVars, pushed, wire, session, connected, view, noticed, scopeTimer, pageTimer, running, loads>>

GetFree ==
  /\ busy /\ busy' = FALSE
  /\ UNCHANGED <<serverVars, pushed, wire, session, connected, view, noticed, scopeTimer, pageTimer, running, loads, left>>

MonitorNext ==
  \/ (\E k \in Watched : RegisterMessage(k) \/ NoteStage(k)) \/ ClearRoute(Watched) \/ RestartService
  \/ PushEvents \/ PushHint \/ (\E s \in Sockets : Connect(s) \/ LoseSocket(s) \/ Receive(s))
  \/ (\E s \in Sockets : FireScopeTimer(s)) \/ FirePageTimer \/ PollWithoutSockets \/ ReloadByHand
  \/ (\E l \in Loaders : AnswerLoad(l) \/ FinishLoad(l) \/ FailLoad(l) \/ RefuseLoad(l))
  \/ ExpireSession \/ SignIn \/ GetBusy \/ GetFree

\* The push loop and the browser's event loop run on, sockets are opened again while
\* the server lets them, loads are answered, and the operator is not busy for ever;
\* nothing makes him log in.
MonitorFairness ==
  /\ WF_monitorVars(PushEvents) /\ WF_monitorVars(PushHint)
  /\ \A s \in Sockets : WF_monitorVars(Connect(s)) /\ WF_monitorVars(Receive(s))
                          /\ WF_monitorVars(FireScopeTimer(s))
  /\ WF_monitorVars(FirePageTimer) /\ WF_monitorVars(PollWithoutSockets) /\ WF_monitorVars(GetFree)
  /\ \A l \in Loaders : WF_monitorVars(AnswerLoad(l) \/ RefuseLoad(l)) /\ WF_monitorVars(FinishLoad(l))

MonitorSpec == MonitorInit /\ [][MonitorNext]_monitorVars /\ MonitorFairness

-----------------------------------------------------------------------------
\* Whatever was lost, cut off, passed over, overwritten by an older answer or shown
\* from an earlier run, the page shows the rows the service touched last in the end, as
\* many as one load brings, if its session is good: reloads are asked for again and
\* again and none is believed to be running for ever (scheduleScopePageReload,
\* scheduleRealtimePageReload, refresh_hint). A page whose session ended or is of the
\* run before a restart shows what it had until the operator logs in.
PageCatchesUp == <>[](session = "valid" => view = LastTouched(tracked, Page))
================================================================================
