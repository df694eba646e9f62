------------------------------ MODULE RouteConfig -----------------------------
(***************************************************************************)
(* The routes, kept twice: in the channels file, which every management    *)
(* call reads, changes and replaces (src/kiwi/management_api.py), and as   *)
(* the registry of route objects the service works with.                   *)
(*                                                                         *)
(* A call is four steps: read the file and compute the new contents,       *)
(* replace the file, read it again, install the new registry. Only the     *)
(* second takes the file lock, and it writes all routes back as the first  *)
(* found them: calls about different routes undo one another as well.      *)
(* Calls come from the web administration's threads and from the service's *)
(* own loop, which also changes the route object it holds, perhaps across  *)
(* an await and a reload.                                                  *)
(***************************************************************************)
EXTENDS Integers

CONSTANTS
  Routes,
  Clients,   \* threads of the web administration
  Loop,      \* the event loop: the service, the admin bot, sync/start
  Settings   \* values the operator gives retry_attempts

ASSUME RouteConfigAssumption == Loop \notin Clients /\ Settings \subseteq Nat

Callers == Clients \cup {Loop}
Gone == [status |-> "gone"]
NoObject == [route |-> "none"]
NoFile == [r \in Routes |-> Gone]
NoCall == [kind |-> "none", by |-> "operator", with |-> <<>>]
DefaultRetries == 2  \* int(out.get("retry_attempts", 2) or 2)

VARIABLES
  file,      \* the channels file: an entry or Gone for each route
  registry,  \* service.routes
  pc, op, draft, fresh, \* of each caller: where it is, its call, what it writes, what it read
  held,      \* a route object of the loop: what it says and whether the registry has it
  seen,      \* seen[c]: the file as the call of c read it (a history)
  crossed    \* the registry was last set to what the file no longer is (a history)

configVars == <<file, registry, pc, op, draft, fresh, held, seen, crossed>>

Statuses == {"deactive", "syncing", "synced"}
Entries == [status : Statuses, retries : Nat, valid : BOOLEAN] \cup {Gone}

ConfigTypeOK ==
  /\ \A r \in Routes : file[r] \in Entries /\ registry[r] \in Entries
  /\ \A r \in Routes : file[r] # Gone => file[r].retries # 0
  /\ \A r \in Routes : registry[r] # Gone => registry[r].valid
  /\ pc \in [Callers -> {"idle", "loaded", "written", "read"}]

ConfigInit ==
  /\ \E s \in Statuses : file = [r \in Routes |-> [status |-> s, retries |-> 1, valid |-> TRUE]]
  /\ registry = file
  /\ pc = [c \in Callers |-> "idle"]
  /\ op = [c \in Callers |-> NoCall]
  /\ draft = [c \in Callers |-> NoFile] /\ fresh = draft /\ seen = draft
  /\ held = NoObject
  /\ crossed = FALSE

-----------------------------------------------------------------------------
\* A call: of some kind, with a patch or an entry for each route it names.
Call(kind, by, with) == [kind |-> kind, by |-> by, with |-> with]

\* _canonicalize_route_obj and _normalize_route_payload, of the fields the model
\* has: a setting of 0 is taken for a missing one.
Canonical(e) == IF e # Gone /\ e.retries = 0 THEN [e EXCEPT !.retries = DefaultRetries] ELSE e

Patched(e, patch) == [f \in DOMAIN e |-> IF f \in DOMAIN patch THEN patch[f] ELSE e[f]]

Applied(call, f) ==
  [r \in Routes |-> Canonical(
     IF r \notin DOMAIN call.with THEN f[r]
     ELSE IF call.kind = "patch" THEN (IF f[r] = Gone THEN Gone ELSE Patched(f[r], call.with[r]))
     ELSE call.with[r])]

\* "route not found", "route name already exists"
Accepts(call, f) ==
  CASE call.kind = "add" -> \A r \in DOMAIN call.with : f[r] = Gone
    [] call.kind = "delete" -> \A r \in DOMAIN call.with : f[r] # Gone
    [] OTHER -> \E r \in DOMAIN call.with : f[r] # Gone

For(r, x) == [q \in {r} |-> x]

\* add_route
AddRoute(r, valid) == Call("add", "operator", For(r, [status |-> "synced", retries |-> 1, valid |-> valid]))

\* delete_route
DeleteRoute(r) == Call("delete", "operator", For(r, Gone))

\* update_route, with a setting (update_route_sync) or the end points.
UpdateRoute(r, patch) == Call("patch", "operator", For(r, patch))

\* stop_route_sync, stop_all_routes
StopRoutes(S) == Call("patch", "operator", [r \in S |-> [status |-> "deactive"]])

\* start_all_routes, with what _determine_start_status says of each route.
StartAllRoutes(s) == Call("patch", "operator", [r \in Routes |-> [status |-> s[r]]])

ThreadCalls ==
  {AddRoute(r, v) : r \in Routes, v \in BOOLEAN}
  \cup {DeleteRoute(r) : r \in Routes}
  \cup {UpdateRoute(r, [retries |-> n]) : r \in Routes, n \in Settings}
  \cup {UpdateRoute(r, [valid |-> TRUE]) : r \in Routes}
  \cup {StopRoutes(S) : S \in {{r} : r \in Routes} \cup {Routes}}
  \cup {StartAllRoutes(s) : s \in [Routes -> {"syncing", "synced"}]}

\* start_route_sync_async runs on the loop.
LoopCalls ==
  {Call("patch", "operator", For(r, [status |-> s])) : r \in Routes, s \in {"syncing", "synced"}}

\* Mutant: a call starts from what the service knows.
FromRegistry == registry

\* _load_routes_raw
Loaded == file

Load(c, call) ==
  /\ pc[c] = "idle" /\ Accepts(call, Loaded)
  /\ pc' = [pc EXCEPT ![c] = "loaded"]
  /\ op' = [op EXCEPT ![c] = call]
  /\ draft' = [draft EXCEPT ![c] = Applied(call, Loaded)]
  /\ seen' = [seen EXCEPT ![c] = file]

BeginCall(c) ==
  /\ \E call \in IF c = Loop THEN LoopCalls ELSE ThreadCalls : Load(c, call)
  /\ UNCHANGED <<file, registry, fresh, held, crossed>>

\* The file is replaced as a whole, under the lock.
Write(c) ==
  /\ pc[c] = "loaded"
  /\ file' = draft[c]
  /\ pc' = [pc EXCEPT ![c] = "written"]
  /\ draft' = [draft EXCEPT ![c] = NoFile] /\ seen' = [seen EXCEPT ![c] = NoFile]
  /\ op' = [op EXCEPT ![c] = NoCall]
  /\ UNCHANGED <<registry, fresh, held, crossed>>

\* Mutant: the file is saved and not read again.
ReadNothing(c) ==
  /\ pc[c] = "written"
  /\ pc' = [pc EXCEPT ![c] = "idle"]
  /\ UNCHANGED <<file, registry, op, draft, fresh, held, seen, crossed>>

Loadable(f) == \A r \in Routes : f[r] # Gone => f[r].valid

\* reload_routes: load_routes refuses the whole file for one entry without source
\* or destination, and the call fails though the file has been replaced.
Read(c) ==
  /\ pc[c] = "written"
  /\ IF Loadable(file)
     THEN pc' = [pc EXCEPT ![c] = "read"] /\ fresh' = [fresh EXCEPT ![c] = file]
     ELSE pc' = [pc EXCEPT ![c] = "idle"] /\ UNCHANGED fresh
  /\ UNCHANGED <<file, registry, op, draft, held, seen, crossed>>

\* KiwiService.set_routes: new route objects, whatever the loop holds.
Install(c) ==
  /\ pc[c] = "read"
  /\ registry' = fresh[c]
  /\ crossed' = (fresh[c] # file)
  /\ held' = IF held = NoObject THEN held ELSE [held EXCEPT !.linked = FALSE]
  /\ fresh' = [fresh EXCEPT ![c] = NoFile]
  /\ pc' = [pc EXCEPT ![c] = "idle"]
  /\ UNCHANGED <<file, op, draft, seen>>

-----------------------------------------------------------------------------
\* The loop takes a route object and awaits something: the source's latest message
\* (_maybe_auto_activate_route), or a poll whose messages it will register.
TakeRoute(r) ==
  /\ pc[Loop] = "idle" /\ held = NoObject /\ registry[r] # Gone
  /\ held' = [route |-> r, entry |-> registry[r], linked |-> TRUE]
  /\ UNCHANGED <<file, registry, pc, op, draft, fresh, seen, crossed>>

DropRoute ==
  /\ pc[Loop] = "idle" /\ held # NoObject
  /\ held' = NoObject
  /\ UNCHANGED <<file, registry, pc, op, draft, fresh, seen, crossed>>

\* The object's status changes and _persist_route_patch calls update_route, which may
\* not find the route any more.
ChangeHeld(status, patch) ==
  LET call == Call("patch", "service", For(held.route, patch)) IN
  /\ held' = NoObject
  /\ registry' = IF held.linked THEN [registry EXCEPT ![held.route].status = status] ELSE registry
  /\ IF Accepts(call, file)
     THEN Load(Loop, call)
     ELSE UNCHANGED <<pc, op, draft, seen>>
  /\ UNCHANGED <<file, fresh, crossed>>

\* Mutant: a stopped route that has caught up is activated.
MayActivateStopped == held.entry.status # "synced"

MayActivate == held.entry.status = "syncing"

\* The route has caught up: its settings are written back with the status.
AutoActivateRoute ==
  /\ pc[Loop] = "idle" /\ held # NoObject /\ MayActivate
  /\ ChangeHeld("synced", [status |-> "synced", retries |-> held.entry.retries])

\* A message of a synced route is registered.
MarkSyncing ==
  /\ pc[Loop] = "idle" /\ held # NoObject /\ held.entry.status = "synced"
  /\ ChangeHeld("syncing", [status |-> "syncing"])

ConfigNext ==
  \/ (\E c \in Callers : BeginCall(c) \/ Write(c) \/ Read(c) \/ Install(c))
  \/ (\E r \in Routes : TakeRoute(r)) \/ DropRoute \/ AutoActivateRoute \/ MarkSyncing

ConfigSpec == ConfigInit /\ [][ConfigNext]_configVars

-----------------------------------------------------------------------------
Writing(c) == pc[c] = "loaded" /\ pc'[c] = "written"

\* Each write leaves an entry as the call alone, done at that moment, would. The only
\* others are those that are not as the call had read them, of whatever route: these
\* lose what was written meanwhile, and become what the call makes of the old entry.
WritesWhatItMeant ==
  [][\A c \in Callers : Writing(c) =>
       \A r \in Routes :
         LET base == IF file[r] = seen[c][r] THEN file ELSE seen[c]
         IN file'[r] = Applied(op[c], base)[r]]_configVars

\* File and service say the same of r, and so does every call under way and the
\* object the loop holds: what was said of r before is forgotten everywhere.
Settled(r) ==
  /\ registry[r] = file[r]
  /\ \A c \in Callers : /\ pc[c] = "loaded" => draft[c][r] = file[r]
                        /\ pc[c] = "read" => fresh[c][r] = file[r]
  /\ held # NoObject /\ held.route = r => held.entry = file[r]

\* A call about r begins: the operator's, or the service's own on a live route.
Begins(r) ==
  \E c \in Callers :
    /\ pc[c] = "idle" /\ pc'[c] = "loaded" /\ r \in DOMAIN op'[c].with
    /\ op'[c].by = "operator" \/ file[r].status \in {"syncing", "synced"}

\* What is settled of a route stays, whatever is done to others and whatever the
\* service does on its own, until a call about this one begins: above all, a stopped
\* route stays stopped and a deleted one deleted until the operator says otherwise.
\* Before it is settled a stop may be undone, by a call that read the file before it or
\* by the service, with an object from before.
StopHolds ==
  [][\A r \in Routes : Settled(r) /\ ~Begins(r)
       => file'[r] = file[r] /\ Settled(r)']_configVars

\* With no call under way the service works with what the file says, unless one call
\* had read the file before another replaced it and installed it after, or the file
\* holds an entry that cannot be loaded.
RegistryCatchesUp ==
  (\A c \in Callers : pc[c] = "idle") /\ Loadable(file) /\ ~crossed => registry = file
===============================================================================
