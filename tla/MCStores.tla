------------------------------- MODULE MCStores -------------------------------
(***************************************************************************)
(* Small instances of what deliveries share beside the ledger: the Redis   *)
(* queue, the Redis route lock, the working files, and the monitor they    *)
(* report to. These do not touch each other, so a behaviour runs one of    *)
(* them and leaves the others alone.                                       *)
(***************************************************************************)
EXTENDS RedisQueue, RedisLock, Workspace, MonitorFeed, TLC

CONSTANTS k1, k2, route

VARIABLE part \* the store that runs

MCRoute == [k \in Entries |-> route]

\* Two events, and one or two of the things that can happen to the page.
Troubles ==
  {{"hand", "clear"}, {"hand", "failure"}, {"hand", "busy"}, {"restart"}, {"expiry"},
   {"loss", "busy"}}
MCFeedBudgets ==
  {[what \in {"event"} \cup UNION Troubles |->
      IF what = "event" THEN 2 ELSE IF what \in together THEN 1 ELSE 0] : together \in Troubles}
AnyBudget == CHOOSE b \in MCFeedBudgets : TRUE

QueueStep == part = "queue" /\ RedisQueueNext /\ UNCHANGED <<redisLockVars, workspaceVars, monitorVars>>
LockStep  == part = "lock"  /\ RedisLockNext  /\ UNCHANGED <<redisQueueVars, workspaceVars, monitorVars>>
FileStep  == part = "files" /\ WorkspaceNext  /\ UNCHANGED <<redisQueueVars, redisLockVars, monitorVars>>
FeedStep  == part = "feed"  /\ MonitorNext   /\ UNCHANGED <<redisQueueVars, redisLockVars, workspaceVars>>

StoresInit ==
  /\ RedisQueueInit /\ RedisLockInit
  /\ part \in {"queue", "lock", "files", "feed"}
  /\ IF part = "files" THEN WorkspaceInit
                       ELSE WorkspaceInit /\ \A d \in Deliveries : place[d] = 1
  /\ MonitorInit /\ (part # "feed" => left = AnyBudget)

StoresNext == UNCHANGED part /\ (QueueStep \/ LockStep \/ FileStep \/ FeedStep)

\* RedisQueueFairness and MonitorFairness, each for the behaviours of its own part.
QueueRuns ==
  /\ WF_redisQueueVars(part = "queue" /\ StartPop)
  /\ WF_redisQueueVars(part = "queue" /\ ((\E k \in Entries : PopMin(k)) \/ PutBack \/ TakeOut \/ ReturnDue))
  /\ WF_redisQueueVars(part = "queue" /\ Tick)

FeedRuns ==
  /\ WF_monitorVars(part = "feed" /\ PushEvents) /\ WF_monitorVars(part = "feed" /\ PushHint)
  /\ \A s \in Sockets : /\ WF_monitorVars(part = "feed" /\ Connect(s))
                        /\ WF_monitorVars(part = "feed" /\ Receive(s))
                        /\ WF_monitorVars(part = "feed" /\ FireScopeTimer(s))
  /\ WF_monitorVars(part = "feed" /\ FirePageTimer)
  /\ WF_monitorVars(part = "feed" /\ PollWithoutSockets) /\ WF_monitorVars(part = "feed" /\ GetFree)
  /\ \A l \in Loaders : /\ WF_monitorVars(part = "feed" /\ (AnswerLoad(l) \/ RefuseLoad(l)))
                        /\ WF_monitorVars(part = "feed" /\ FinishLoad(l))

StoresSpec ==
  /\ StoresInit /\ [][StoresNext]_<<part, redisQueueVars, redisLockVars, workspaceVars, monitorVars>>
  /\ QueueRuns /\ FeedRuns
===============================================================================
