--------------------------- MODULE RouteConfigProofs --------------------------
(***************************************************************************)
(* Theorems about RouteConfig for every set of routes, of calling threads  *)
(* and of settings, checked by TLAPS.                                      *)
(***************************************************************************)
EXTENDS RouteConfig, TLAPS

Entry == [status : Statuses, retries : Nat, valid : BOOLEAN]

\* What the file may hold for a route: Canonical has been applied to it.
Stored == {e \in Entry : e.retries # 0} \cup {Gone}

\* ConfigTypeOK strengthened to what it needs of the calls under way.
CallsTypeOK ==
  /\ pc \in [Callers -> {"idle", "loaded", "written", "read"}]
  /\ DOMAIN op = Callers
  /\ draft \in [Callers -> [Routes -> Stored]]
  /\ fresh \in [Callers -> [Routes -> Stored]]
  /\ seen \in [Callers -> [Routes -> Stored]]
  /\ \A c \in Callers : pc[c] = "read" => Loadable(fresh[c])

StoresTypeOK ==
  /\ file \in [Routes -> Stored]
  /\ registry \in [Routes -> Entry \cup {Gone}]
  /\ \A r \in Routes : registry[r] # Gone => registry[r].valid
  /\ crossed \in BOOLEAN

\* A held object has a route and an entry; the registry that still has the object
\* has its route.
HeldTypeOK ==
  /\ held # NoObject =>
       /\ held \in [route : Routes, entry : Entry, linked : BOOLEAN]
       /\ held.linked => registry[held.route] # Gone

ConfigShapeOK == CallsTypeOK /\ StoresTypeOK /\ HeldTypeOK

-------------------------------------------------------------------------------
(* What the calls compute. *)

LEMMA EntryIsNotGone == Gone \notin Entry
<1>1. DOMAIN Gone = {"status"}
  BY DEF Gone
<1>2. \A e \in Entry : DOMAIN e = {"status", "retries", "valid"}
  BY DEF Entry
<1>3. "retries" \notin {"status"}
  OBVIOUS
<1>. QED  BY <1>1, <1>2, <1>3

\* A call whose patches and entries are of the fields' types.
WellFormed(call) ==
  \A r \in DOMAIN call.with :
    IF call.kind = "patch"
    THEN /\ "status" \in DOMAIN call.with[r] => call.with[r]["status"] \in Statuses
         /\ "retries" \in DOMAIN call.with[r] => call.with[r]["retries"] \in Nat
         /\ "valid" \in DOMAIN call.with[r] => call.with[r]["valid"] \in BOOLEAN
    ELSE call.with[r] \in Entry \cup {Gone}

LEMMA CanonicalIsStored ==
  ASSUME NEW e \in Entry \cup {Gone} PROVE Canonical(e) \in Stored
<1>1. CASE e = Gone
  BY <1>1 DEF Canonical, Stored
<1>2. CASE e \in Entry
  BY <1>2, EntryIsNotGone DEF Canonical, Stored, Entry, DefaultRetries
<1>. QED  BY <1>1, <1>2

LEMMA StoredIsCanonical ==
  ASSUME NEW e \in Stored PROVE Canonical(e) = e
  BY DEF Canonical, Stored

LEMMA PatchedIsEntry ==
  ASSUME NEW e \in Entry, NEW p,
         "status" \in DOMAIN p => p["status"] \in Statuses,
         "retries" \in DOMAIN p => p["retries"] \in Nat,
         "valid" \in DOMAIN p => p["valid"] \in BOOLEAN
  PROVE  Patched(e, p) \in Entry
<1>1. DOMAIN e = {"status", "retries", "valid"}
  BY DEF Entry
<1>2. e["status"] \in Statuses /\ e["retries"] \in Nat /\ e["valid"] \in BOOLEAN
  BY DEF Entry
<1>3. Patched(e, p) = [f \in {"status", "retries", "valid"} |-> IF f \in DOMAIN p THEN p[f] ELSE e[f]]
  BY <1>1 DEF Patched
<1>. QED  BY <1>2, <1>3 DEF Entry

LEMMA AppliedIsStored ==
  ASSUME NEW call, WellFormed(call), NEW f \in [Routes -> Stored]
  PROVE  Applied(call, f) \in [Routes -> Stored]
<1>. SUFFICES ASSUME NEW r \in Routes PROVE Applied(call, f)[r] \in Stored
  BY DEF Applied
<1>0. f[r] \in Stored /\ f[r] \in Entry \cup {Gone}
  BY DEF Stored
<1>1. CASE r \notin DOMAIN call.with
  BY <1>0, <1>1, CanonicalIsStored DEF Applied
<1>2. CASE r \in DOMAIN call.with /\ call.kind # "patch"
  <2>1. call.with[r] \in Entry \cup {Gone}
    BY <1>2 DEF WellFormed
  <2>. QED  BY <1>2, <2>1, CanonicalIsStored DEF Applied
<1>3. CASE r \in DOMAIN call.with /\ call.kind = "patch"
  <2>1. CASE f[r] = Gone
    BY <1>3, <2>1, CanonicalIsStored DEF Applied
  <2>2. CASE f[r] \in Entry
    <3>1. Patched(f[r], call.with[r]) \in Entry
      BY <1>3, <2>2, PatchedIsEntry DEF WellFormed
    <3>. QED  BY <1>3, <2>2, <3>1, EntryIsNotGone, CanonicalIsStored DEF Applied
  <2>. QED  BY <1>0, <2>1, <2>2
<1>. QED  BY <1>1, <1>2, <1>3

\* An entry of the result depends on the same entry of the file alone.
LEMMA AppliedIsPointwise ==
  ASSUME NEW call, NEW f, NEW g, NEW r \in Routes, f[r] = g[r]
  PROVE  Applied(call, f)[r] = Applied(call, g)[r]
  BY DEF Applied

LEMMA ThreadCallKinds ==
  ASSUME NEW call \in ThreadCalls
  PROVE  \/ \E r \in Routes, v \in BOOLEAN : call = AddRoute(r, v)
         \/ \E r \in Routes : call = DeleteRoute(r)
         \/ \E r \in Routes, n \in Settings : call = UpdateRoute(r, [retries |-> n])
         \/ \E r \in Routes : call = UpdateRoute(r, [valid |-> TRUE])
         \/ \E S \in {{r} : r \in Routes} \cup {Routes} : call = StopRoutes(S)
         \/ \E s \in [Routes -> {"syncing", "synced"}] : call = StartAllRoutes(s)
  BY DEF ThreadCalls

LEMMA CallsAreWellFormed ==
  ASSUME NEW call \in ThreadCalls \cup LoopCalls
  PROVE  WellFormed(call)
<1>. USE DEF Call, For, WellFormed
<1>1. ASSUME NEW r \in Routes, NEW v \in BOOLEAN, call = AddRoute(r, v) PROVE WellFormed(call)
  BY <1>1 DEF AddRoute, Entry, Statuses
<1>2. ASSUME NEW r \in Routes, call = DeleteRoute(r) PROVE WellFormed(call)
  BY <1>2 DEF DeleteRoute
<1>3. ASSUME NEW r \in Routes, NEW n \in Settings, call = UpdateRoute(r, [retries |-> n])
      PROVE  WellFormed(call)
  BY <1>3, RouteConfigAssumption DEF UpdateRoute
<1>4. ASSUME NEW r \in Routes, call = UpdateRoute(r, [valid |-> TRUE]) PROVE WellFormed(call)
  BY <1>4 DEF UpdateRoute
<1>5. ASSUME NEW S, call = StopRoutes(S) PROVE WellFormed(call)
  BY <1>5 DEF StopRoutes, Statuses
<1>6. ASSUME NEW s \in [Routes -> {"syncing", "synced"}], call = StartAllRoutes(s)
      PROVE  WellFormed(call)
  BY <1>6 DEF StartAllRoutes, Statuses
<1>7. ASSUME NEW r \in Routes, NEW t \in {"syncing", "synced"},
             call = Call("patch", "operator", For(r, [status |-> t]))
      PROVE  WellFormed(call)
  BY <1>7 DEF Statuses
<1>8. CASE call \in LoopCalls
  <2>1. \E r \in Routes, t \in {"syncing", "synced"} :
          call = Call("patch", "operator", For(r, [status |-> t]))
    BY <1>8 DEF LoopCalls
  <2>. QED  BY <2>1, <1>7
<1>9. CASE call \in ThreadCalls
  BY <1>9, ThreadCallKinds, <1>1, <1>2, <1>3, <1>4, <1>5, <1>6
<1>. QED  BY <1>8, <1>9

LEMMA OperatorsCalls ==
  ASSUME NEW call \in ThreadCalls \cup LoopCalls
  PROVE  call.by = "operator"
<1>1. \A k, b, w : Call(k, b, w).by = b
  BY DEF Call
<1>2. CASE call \in LoopCalls
  BY <1>2 DEF LoopCalls, Call
<1>3. CASE call \in ThreadCalls
  <2>1. /\ \A r, v : AddRoute(r, v).by = "operator" /\ UpdateRoute(r, v).by = "operator"
        /\ \A r : DeleteRoute(r).by = "operator" /\ StopRoutes(r).by = "operator"
                  /\ StartAllRoutes(r).by = "operator"
    BY <1>1 DEF AddRoute, DeleteRoute, UpdateRoute, StopRoutes, StartAllRoutes
  <2>. QED  BY <1>3, <2>1, ThreadCallKinds
<1>. QED  BY <1>2, <1>3

-------------------------------------------------------------------------------
(* Type correctness, action by action. *)

LEMMA InitShapeOK == ConfigInit => ConfigShapeOK
<1>. SUFFICES ASSUME ConfigInit PROVE ConfigShapeOK
  OBVIOUS
<1>1. PICK s \in Statuses : file = [r \in Routes |-> [status |-> s, retries |-> 1, valid |-> TRUE]]
  BY DEF ConfigInit
<1>2. PICK e : e = [status |-> s, retries |-> 1, valid |-> TRUE]
  OBVIOUS
<1>. e \in Entry /\ e \in Stored /\ e.valid
  BY <1>2 DEF Entry, Stored
<1>3. StoresTypeOK
  <2>1. file = [r \in Routes |-> e] /\ registry = file /\ crossed = FALSE
    BY <1>1, <1>2 DEF ConfigInit
  <2>. QED  BY <2>1 DEF StoresTypeOK
<1>4. NoFile \in [Routes -> Stored]
  BY DEF NoFile, Stored
<1>5. CallsTypeOK /\ HeldTypeOK
  BY <1>4 DEF ConfigInit, CallsTypeOK, HeldTypeOK
<1>. QED  BY <1>3, <1>5 DEF ConfigShapeOK

\* A call that begins leaves its result where Write finds it.
LEMMA LoadShapeOK ==
  ASSUME ConfigShapeOK, NEW c \in Callers, NEW call, WellFormed(call),
         Load(c, call), UNCHANGED fresh
  PROVE  CallsTypeOK'
<1>1. Applied(call, file) \in [Routes -> Stored]
  BY AppliedIsStored DEF ConfigShapeOK, StoresTypeOK
<1>2. pc' = [pc EXCEPT ![c] = "loaded"] /\ op' = [op EXCEPT ![c] = call]
      /\ draft' = [draft EXCEPT ![c] = Applied(call, file)]
      /\ seen' = [seen EXCEPT ![c] = file]
  BY DEF Load, Loaded
<1>3. \A d \in Callers : pc'[d] = "read" => Loadable(fresh'[d])
  BY <1>2 DEF ConfigShapeOK, CallsTypeOK, Loadable
<1>. QED  BY <1>1, <1>2, <1>3 DEF ConfigShapeOK, CallsTypeOK, StoresTypeOK

LEMMA BeginShapeOK ==
  ASSUME ConfigShapeOK, NEW c \in Callers, BeginCall(c) PROVE ConfigShapeOK'
<1>1. PICK call \in ThreadCalls \cup LoopCalls : Load(c, call)
  BY DEF BeginCall
<1>2. CallsTypeOK'
  BY <1>1, LoadShapeOK, CallsAreWellFormed DEF BeginCall
<1>. QED
  BY <1>2 DEF BeginCall, ConfigShapeOK, StoresTypeOK, HeldTypeOK

LEMMA WriteShapeOK ==
  ASSUME ConfigShapeOK, NEW c \in Callers, Write(c) PROVE ConfigShapeOK'
<1>. USE DEF ConfigShapeOK
<1>1. NoFile \in [Routes -> Stored]
  BY DEF NoFile, Stored
<1>2. CallsTypeOK'
  BY <1>1 DEF Write, CallsTypeOK, Loadable
<1>3. StoresTypeOK'
  BY DEF Write, CallsTypeOK, StoresTypeOK
<1>4. HeldTypeOK'
  BY DEF Write, HeldTypeOK
<1>. QED  BY <1>2, <1>3, <1>4

LEMMA ReadShapeOK ==
  ASSUME ConfigShapeOK, NEW c \in Callers, Read(c) PROVE ConfigShapeOK'
<1>. USE DEF ConfigShapeOK
<1>1. CallsTypeOK'
  <2>1. CASE Loadable(file)
    BY <2>1 DEF Read, CallsTypeOK, StoresTypeOK, Loadable
  <2>2. CASE ~Loadable(file)
    BY <2>2 DEF Read, CallsTypeOK, Loadable
  <2>. QED  BY <2>1, <2>2
<1>. QED  BY <1>1 DEF Read, StoresTypeOK, HeldTypeOK

LEMMA InstallShapeOK ==
  ASSUME ConfigShapeOK, NEW c \in Callers, Install(c) PROVE ConfigShapeOK'
<1>. USE DEF ConfigShapeOK
<1>1. NoFile \in [Routes -> Stored]
  BY DEF NoFile, Stored
<1>2. CallsTypeOK'
  BY <1>1 DEF Install, CallsTypeOK, Loadable
<1>3. StoresTypeOK'
  BY DEF Install, CallsTypeOK, StoresTypeOK, Loadable, Stored
<1>4. held' # NoObject => held # NoObject /\ held' = [held EXCEPT !.linked = FALSE]
  BY DEF Install
<1>5. HeldTypeOK'
  BY <1>4 DEF Install, HeldTypeOK
<1>. QED  BY <1>2, <1>3, <1>5

LEMMA TakeShapeOK ==
  ASSUME ConfigShapeOK, NEW r \in Routes, TakeRoute(r) PROVE ConfigShapeOK'
<1>. USE DEF ConfigShapeOK
<1>1. CallsTypeOK' /\ StoresTypeOK'
  BY DEF TakeRoute, CallsTypeOK, StoresTypeOK, Loadable
<1>2. registry[r] \in Entry
  BY DEF TakeRoute, StoresTypeOK
<1>3. HeldTypeOK'
  BY <1>2 DEF TakeRoute, HeldTypeOK
<1>. QED  BY <1>1, <1>3

LEMMA ChangeShapeOK ==
  ASSUME ConfigShapeOK, NEW status \in Statuses, NEW patch, held # NoObject,
         WellFormed(Call("patch", "service", For(held.route, patch))), ChangeHeld(status, patch)
  PROVE  ConfigShapeOK'
<1>. USE DEF ConfigShapeOK
<1>1. PICK call : /\ call = Call("patch", "service", For(held.route, patch))
                  /\ IF Accepts(call, file)
                     THEN Load(Loop, call)
                     ELSE UNCHANGED <<pc, op, draft, seen>>
  BY DEF ChangeHeld
<1>2. held.route \in Routes
  BY DEF HeldTypeOK
<1>3. CallsTypeOK'
  <2>1. CASE Accepts(call, file)
    BY <1>1, <1>2, <2>1, LoadShapeOK DEF ChangeHeld, Callers
  <2>2. CASE ~Accepts(call, file)
    BY <1>1, <2>2 DEF ChangeHeld, CallsTypeOK, Loadable
  <2>. QED  BY <2>1, <2>2
<1>4. StoresTypeOK'
  <2>1. CASE held.linked
    <3>1. registry[held.route] \in Entry
      BY <1>2, <2>1 DEF HeldTypeOK, StoresTypeOK
    <3>2. [registry[held.route] EXCEPT !.status = status] \in Entry
          /\ [registry[held.route] EXCEPT !.status = status].valid = registry[held.route].valid
      BY <3>1 DEF Entry
    <3>3. registry' = [registry EXCEPT ![held.route] = [registry[held.route] EXCEPT !.status = status]]
      BY <2>1 DEF ChangeHeld
    <3>4. file' = file /\ crossed' = crossed
      BY DEF ChangeHeld
    <3>. QED  BY <1>2, <3>1, <3>2, <3>3, <3>4, EntryIsNotGone DEF StoresTypeOK
  <2>2. CASE ~held.linked
    BY <2>2 DEF ChangeHeld, StoresTypeOK
  <2>. QED  BY <2>1, <2>2
<1>5. HeldTypeOK'
  BY DEF ChangeHeld, HeldTypeOK
<1>. QED  BY <1>3, <1>4, <1>5

LEMMA PatchesOfTheServiceAreWellFormed ==
  ASSUME ConfigShapeOK, held # NoObject, NEW s \in Statuses
  PROVE  /\ WellFormed(Call("patch", "service", For(held.route, [status |-> s])))
         /\ WellFormed(Call("patch", "service",
               For(held.route, [status |-> s, retries |-> held.entry.retries])))
<1>1. held.entry.retries \in Nat
  BY DEF ConfigShapeOK, HeldTypeOK, Entry
<1>. QED  BY <1>1 DEF WellFormed, Call, For

LEMMA StepShapeOK ==
  ASSUME ConfigShapeOK, [ConfigNext]_configVars PROVE ConfigShapeOK'
<1>1. ASSUME NEW c \in Callers, BeginCall(c) \/ Write(c) \/ Read(c) \/ Install(c)
      PROVE  ConfigShapeOK'
  BY <1>1, BeginShapeOK, WriteShapeOK, ReadShapeOK, InstallShapeOK
<1>2. ASSUME NEW r \in Routes, TakeRoute(r) PROVE ConfigShapeOK'
  BY <1>2, TakeShapeOK
<1>3. CASE DropRoute
  BY <1>3 DEF DropRoute, ConfigShapeOK, CallsTypeOK, StoresTypeOK, HeldTypeOK, Loadable
<1>4. CASE AutoActivateRoute
  BY <1>4, ChangeShapeOK, PatchesOfTheServiceAreWellFormed DEF AutoActivateRoute, Statuses
<1>5. CASE MarkSyncing
  BY <1>5, ChangeShapeOK, PatchesOfTheServiceAreWellFormed DEF MarkSyncing, Statuses
<1>6. CASE UNCHANGED configVars
  BY <1>6 DEF configVars, ConfigShapeOK, CallsTypeOK, StoresTypeOK, HeldTypeOK, Loadable
<1>. QED  BY <1>1, <1>2, <1>3, <1>4, <1>5, <1>6 DEF ConfigNext

LEMMA ShapeIsInvariant == ConfigSpec => []ConfigShapeOK
<1>. QED  BY InitShapeOK, StepShapeOK, PTL DEF ConfigSpec

(* src/kiwi/management_api.py 596-715: the type invariant. The file never keeps a
   number of retries of 0 and the service never works with a route that has no
   source or destination, whatever calls overlap. *)
THEOREM ConfigTypeCorrect == ConfigSpec => []ConfigTypeOK
<1>1. ConfigShapeOK => ConfigTypeOK
  <2>. SUFFICES ASSUME ConfigShapeOK PROVE ConfigTypeOK
    OBVIOUS
  <2>1. \A r \in Routes : file[r] \in Stored /\ registry[r] \in Entry \cup {Gone}
    BY DEF ConfigShapeOK, StoresTypeOK
  <2>2. Entries = Entry \cup {Gone}
    BY DEF Entries, Entry
  <2>3. \A e \in Stored : e \in Entry \cup {Gone} /\ (e # Gone => e.retries # 0)
    BY DEF Stored
  <2>. QED  BY <2>1, <2>2, <2>3 DEF ConfigTypeOK, ConfigShapeOK, CallsTypeOK, StoresTypeOK
<1>. QED  BY <1>1, ShapeIsInvariant, PTL

-------------------------------------------------------------------------------
(* What a call writes is what it makes of the file as it read it. *)

DraftsAreOfTheSeen ==
  \A c \in Callers : pc[c] = "loaded" => draft[c] = Applied(op[c], seen[c])

LEMMA StepDrafts ==
  ASSUME ConfigShapeOK, DraftsAreOfTheSeen, [ConfigNext]_configVars
  PROVE  DraftsAreOfTheSeen'
<1>. USE DEF ConfigShapeOK, CallsTypeOK, DraftsAreOfTheSeen
<1>1. ASSUME NEW c \in Callers, NEW call, Load(c, call) PROVE DraftsAreOfTheSeen'
  BY <1>1 DEF Load, Loaded
<1>2. ASSUME NEW c \in Callers, BeginCall(c) PROVE DraftsAreOfTheSeen'
  BY <1>1, <1>2 DEF BeginCall
<1>3. ASSUME NEW c \in Callers, Write(c) PROVE DraftsAreOfTheSeen'
  BY <1>3 DEF Write
<1>4. ASSUME NEW c \in Callers, Read(c) \/ Install(c) PROVE DraftsAreOfTheSeen'
  BY <1>4 DEF Read, Install
<1>5. ASSUME NEW status, NEW patch, ChangeHeld(status, patch) PROVE DraftsAreOfTheSeen'
  <2>1. Loop \in Callers
    BY DEF Callers
  <2>2. (\E call : Load(Loop, call)) \/ UNCHANGED <<pc, op, draft, seen>>
    BY <1>5 DEF ChangeHeld
  <2>. QED  BY <1>1, <2>1, <2>2
<1>6. CASE AutoActivateRoute \/ MarkSyncing
  BY <1>5, <1>6 DEF AutoActivateRoute, MarkSyncing
<1>7. ASSUME NEW r \in Routes, TakeRoute(r) PROVE DraftsAreOfTheSeen'
  BY <1>7 DEF TakeRoute
<1>8. CASE DropRoute \/ UNCHANGED configVars
  BY <1>8 DEF DropRoute, configVars
<1>. QED  BY <1>2, <1>3, <1>4, <1>6, <1>7, <1>8 DEF ConfigNext

LEMMA DraftsInvariant == ConfigSpec => []DraftsAreOfTheSeen
<1>1. ConfigInit => DraftsAreOfTheSeen
  BY DEF ConfigInit, DraftsAreOfTheSeen
<1>. QED  BY <1>1, StepDrafts, ShapeIsInvariant, PTL DEF ConfigSpec

\* Only Write takes a caller from "loaded" to "written".
LEMMA WritingIsWrite ==
  ASSUME ConfigShapeOK, [ConfigNext]_configVars, NEW c \in Callers, Writing(c)
  PROVE  file' = draft[c]
<1>. USE DEF ConfigShapeOK, CallsTypeOK, Writing
<1>1. ASSUME NEW d \in Callers, BeginCall(d) PROVE FALSE
  BY <1>1 DEF BeginCall, Load
<1>2. ASSUME NEW d \in Callers, Read(d) \/ Install(d) PROVE FALSE
  BY <1>2 DEF Read, Install
<1>3. ASSUME NEW r \in Routes, TakeRoute(r) PROVE FALSE
  BY <1>3 DEF TakeRoute
<1>4. ASSUME DropRoute PROVE FALSE
  BY <1>4 DEF DropRoute
<1>5. ASSUME AutoActivateRoute \/ MarkSyncing PROVE FALSE
  BY <1>5 DEF AutoActivateRoute, MarkSyncing, ChangeHeld, Load
<1>6. ASSUME UNCHANGED configVars PROVE FALSE
  BY <1>6 DEF configVars
<1>7. ASSUME NEW d \in Callers, Write(d) PROVE file' = draft[c]
  BY <1>7 DEF Write
<1>. QED  BY <1>1, <1>2, <1>3, <1>4, <1>5, <1>6, <1>7 DEF ConfigNext

(* src/kiwi/management_api.py 111-180, 600-604, 739-795: the file lock covers only the
   replacement, so a call writes back every route as it read it, perhaps long before.
   An entry that is still as the call read it becomes what the call makes of it; one
   that another call replaced meanwhile, of whatever route, loses that. *)
THEOREM CallsWriteWhatTheyMeant == ConfigSpec => WritesWhatItMeant
<1>1. ASSUME ConfigShapeOK, DraftsAreOfTheSeen, [ConfigNext]_configVars,
             NEW c \in Callers, Writing(c), NEW r \in Routes
      PROVE  file'[r] = Applied(op[c], IF file[r] = seen[c][r] THEN file ELSE seen[c])[r]
  <2>1. file'[r] = Applied(op[c], seen[c])[r]
    BY <1>1, WritingIsWrite DEF DraftsAreOfTheSeen, Writing
  <2>2. CASE file[r] = seen[c][r]
    BY <2>1, <2>2, AppliedIsPointwise
  <2>3. CASE file[r] # seen[c][r]
    BY <2>1, <2>3
  <2>. QED  BY <2>2, <2>3
<1>2. ConfigShapeOK /\ DraftsAreOfTheSeen /\ [ConfigNext]_configVars
      => [\A c \in Callers : Writing(c) =>
            \A r \in Routes :
              LET base == IF file[r] = seen[c][r] THEN file ELSE seen[c]
              IN file'[r] = Applied(op[c], base)[r]]_configVars
  BY <1>1
<1>. QED  BY <1>2, ShapeIsInvariant, DraftsInvariant, PTL DEF ConfigSpec, WritesWhatItMeant

(* A call that is not about r leaves its entry as it found it. *)
LEMMA OthersAreKept ==
  ASSUME ConfigShapeOK, NEW call, NEW r \in Routes, r \notin DOMAIN call.with
  PROVE  Applied(call, file)[r] = file[r]
<1>1. Applied(call, file)[r] = Canonical(file[r])
  BY DEF Applied
<1>2. file[r] \in Stored
  BY DEF ConfigShapeOK, StoresTypeOK
<1>. QED  BY <1>1, <1>2, StoredIsCanonical

LEMMA LoadKeepsSettled ==
  ASSUME ConfigShapeOK, NEW r \in Routes, Settled(r), NEW c \in Callers, NEW call,
         Load(c, call), r \notin DOMAIN call.with,
         file' = file, registry'[r] = registry[r], fresh' = fresh,
         held' = held \/ held' = NoObject
  PROVE  Settled(r)'
<1>1. /\ pc' = [pc EXCEPT ![c] = "loaded"]
      /\ draft' = [draft EXCEPT ![c] = Applied(call, file)]
  BY DEF Load, Loaded
<1>2. \A d \in Callers : /\ pc'[d] = "loaded" => draft'[d][r] = file[r]
                         /\ pc'[d] = "read" => fresh'[d][r] = file[r]
  BY <1>1, OthersAreKept DEF Settled, ConfigShapeOK, CallsTypeOK
<1>. QED  BY <1>2 DEF Settled

LEMMA ChangeKeepsSettled ==
  ASSUME ConfigShapeOK, NEW r \in Routes, Settled(r), ~Begins(r),
         NEW status, NEW patch, pc[Loop] = "idle", held # NoObject,
         held.entry.status \in {"syncing", "synced"}, ChangeHeld(status, patch)
  PROVE  file'[r] = file[r] /\ Settled(r)'
<1>1. PICK call : /\ call = Call("patch", "service", For(held.route, patch))
                  /\ IF Accepts(call, file)
                     THEN Load(Loop, call)
                     ELSE UNCHANGED <<pc, op, draft, seen>>
  BY DEF ChangeHeld
<1>2. DOMAIN call.with = {held.route} /\ Loop \in Callers
  BY <1>1 DEF Call, For, Callers
<1>3. /\ file' = file /\ fresh' = fresh /\ held' = NoObject
      /\ registry' = IF held.linked THEN [registry EXCEPT ![held.route].status = status] ELSE registry
  BY DEF ChangeHeld
<1>4. held.route \in Routes /\ held.entry \in Entry
  BY DEF ConfigShapeOK, HeldTypeOK
(* Of a live route that is settled, the patch is a call about it. *)
<1>5. CASE held.route = r
  <2>1. file[r] = held.entry
    BY <1>5 DEF Settled
  <2>2. Accepts(call, file)
    BY <1>1, <1>2, <1>4, <1>5, <2>1, EntryIsNotGone DEF Accepts, Call
  <2>3. Load(Loop, call)
    BY <1>1, <2>2
  <2>4. pc'[Loop] = "loaded" /\ op'[Loop] = call
    BY <1>2, <2>3 DEF Load, ConfigShapeOK, CallsTypeOK
  <2>5. Begins(r)
    BY <1>2, <1>5, <2>1, <2>4 DEF Begins
  <2>. QED  BY <2>5
<1>6. CASE held.route # r
  <2>1. registry'[r] = registry[r]
    <3>1. registry \in [Routes -> Entry \cup {Gone}]
      BY DEF ConfigShapeOK, StoresTypeOK
    <3>. QED  BY <1>3, <1>4, <1>6, <3>1
  <2>2. CASE Load(Loop, call)
    BY <1>2, <1>3, <1>6, <2>1, <2>2, LoadKeepsSettled
  <2>3. CASE UNCHANGED <<pc, op, draft, seen>>
    BY <1>3, <2>1, <2>3 DEF Settled
  <2>. QED  BY <1>1, <1>3, <2>2, <2>3
<1>. QED  BY <1>5, <1>6

LEMMA StepKeepsSettled ==
  ASSUME ConfigShapeOK, [ConfigNext]_configVars, NEW r \in Routes, Settled(r), ~Begins(r)
  PROVE  file'[r] = file[r] /\ Settled(r)'
<1>. USE DEF ConfigShapeOK, CallsTypeOK
<1>1. ASSUME NEW c \in Callers, BeginCall(c) PROVE file'[r] = file[r] /\ Settled(r)'
  <2>1. PICK call \in ThreadCalls \cup LoopCalls : Load(c, call)
    BY <1>1 DEF BeginCall
  <2>2. call.by = "operator"
    BY OperatorsCalls
  <2>3. /\ pc[c] = "idle" /\ pc'[c] = "loaded" /\ op'[c] = call
        /\ UNCHANGED <<file, registry, fresh, held>>
    BY <1>1, <2>1 DEF Load, BeginCall
  <2>4. r \notin DOMAIN call.with
    BY <2>2, <2>3 DEF Begins
  <2>. QED  BY <2>1, <2>3, <2>4, LoadKeepsSettled
<1>2. ASSUME NEW c \in Callers, Write(c) PROVE file'[r] = file[r] /\ Settled(r)'
  <2>1. file'[r] = file[r]
    BY <1>2 DEF Write, Settled
  <2>. QED  BY <1>2, <2>1 DEF Write, Settled
<1>3. ASSUME NEW c \in Callers, Read(c) PROVE file'[r] = file[r] /\ Settled(r)'
  <2>1. CASE Loadable(file)
    BY <1>3, <2>1 DEF Read, Settled
  <2>2. CASE ~Loadable(file)
    BY <1>3, <2>2 DEF Read, Settled
  <2>. QED  BY <2>1, <2>2
<1>4. ASSUME NEW c \in Callers, Install(c) PROVE file'[r] = file[r] /\ Settled(r)'
  <2>1. file' = file /\ draft' = draft /\ registry' = fresh[c] /\ fresh[c][r] = file[r]
    BY <1>4 DEF Install, Settled
  <2>2. \A d \in Callers : /\ pc'[d] = "loaded" => draft[d][r] = file[r]
                           /\ pc'[d] = "read" => fresh'[d][r] = file[r]
    BY <1>4 DEF Install, Settled
  <2>3. held' # NoObject /\ held'.route = r => held'.entry = file[r]
    BY <1>4 DEF Install, Settled, HeldTypeOK
  <2>. QED  BY <2>1, <2>2, <2>3 DEF Settled
<1>5. ASSUME NEW q \in Routes, TakeRoute(q) PROVE file'[r] = file[r] /\ Settled(r)'
  BY <1>5 DEF TakeRoute, Settled
<1>6. CASE DropRoute \/ UNCHANGED configVars
  BY <1>6 DEF DropRoute, configVars, Settled
<1>7. CASE AutoActivateRoute
  BY <1>7, ChangeKeepsSettled DEF AutoActivateRoute, MayActivate
<1>8. CASE MarkSyncing
  BY <1>8, ChangeKeepsSettled DEF MarkSyncing
<1>. QED  BY <1>1, <1>2, <1>3, <1>4, <1>5, <1>6, <1>7, <1>8 DEF ConfigNext

(* src/kiwi/management_api.py 158-207, src/kiwi/service.py 467-534 and 568-570: what file,
   registry, the calls under way and the loop's object agree on stays, for each route,
   until the operator calls about it or the service patches a live one. So a stop or a
   deletion that is settled is undone by nobody's reload, by no call about another route,
   though it writes the whole file, and by no patch of the service. *)
THEOREM StopAlwaysHolds == ConfigSpec => StopHolds
<1>1. ConfigShapeOK /\ [ConfigNext]_configVars
      => [\A r \in Routes : Settled(r) /\ ~Begins(r)
            => file'[r] = file[r] /\ Settled(r)']_configVars
  BY StepKeepsSettled
<1>. QED  BY <1>1, ShapeIsInvariant, PTL DEF ConfigSpec, StopHolds

-------------------------------------------------------------------------------
(* The registry. RegistryCatchesUp says nothing while a call is under way, so it is
   not inductive: a change of the held object's status runs ahead of the file until
   the loop's own call is over. *)

RegistryRunsAhead ==
  (\A c \in Callers : pc[c] \in {"idle", "loaded"}) /\ Loadable(file) /\ ~crossed
    => registry = file \/ pc[Loop] = "loaded"

LEMMA StepRunsAhead ==
  ASSUME ConfigShapeOK, RegistryRunsAhead, [ConfigNext]_configVars
  PROVE  RegistryRunsAhead'
<1>. USE DEF ConfigShapeOK, CallsTypeOK, RegistryRunsAhead
<1>0. Loop \in Callers
  BY DEF Callers
<1>1. ASSUME NEW c \in Callers, BeginCall(c) PROVE RegistryRunsAhead'
  BY <1>0, <1>1 DEF BeginCall, Load, Loadable
<1>2. ASSUME NEW c \in Callers, Write(c) PROVE RegistryRunsAhead'
  <2>1. pc'[c] = "written"
    BY <1>2 DEF Write
  <2>. QED  BY <2>1
<1>3. ASSUME NEW c \in Callers, Read(c) PROVE RegistryRunsAhead'
  BY <1>3 DEF Read, Loadable
<1>4. ASSUME NEW c \in Callers, Install(c) PROVE RegistryRunsAhead'
  BY <1>4 DEF Install
<1>5. ASSUME NEW r \in Routes, TakeRoute(r) PROVE RegistryRunsAhead'
  BY <1>5 DEF TakeRoute, Loadable
<1>6. CASE DropRoute
  BY <1>6 DEF DropRoute, Loadable
<1>7. ASSUME NEW status, NEW patch, pc[Loop] = "idle", held # NoObject, ChangeHeld(status, patch)
      PROVE  RegistryRunsAhead'
  <2>1. PICK call : /\ call = Call("patch", "service", For(held.route, patch))
                    /\ IF Accepts(call, file)
                       THEN Load(Loop, call)
                       ELSE UNCHANGED <<pc, op, draft, seen>>
    BY <1>7 DEF ChangeHeld
  <2>2. CASE Accepts(call, file)
    BY <1>0, <2>1, <2>2 DEF Load
  (* A route that is not in the file is not in a registry that agrees with it, so
     the object is not the registry's. *)
  <2>3. CASE ~Accepts(call, file)
    <3>1. file[held.route] = Gone
      BY <2>1, <2>3 DEF Accepts, Call, For
    <3>2. held.linked => registry # file
      BY <1>7, <3>1 DEF HeldTypeOK
    <3>3. ~held.linked => registry' = registry
      BY <1>7 DEF ChangeHeld
    <3>4. UNCHANGED <<pc, file, crossed>>
      BY <1>7, <2>1, <2>3 DEF ChangeHeld
    <3>. QED  BY <1>7, <3>2, <3>3, <3>4 DEF Loadable
  <2>. QED  BY <2>2, <2>3
<1>8. CASE AutoActivateRoute
  BY <1>7, <1>8 DEF AutoActivateRoute
<1>9. CASE MarkSyncing
  BY <1>7, <1>9 DEF MarkSyncing
<1>10. CASE UNCHANGED configVars
  BY <1>10 DEF configVars, Loadable
<1>. QED  BY <1>1, <1>2, <1>3, <1>4, <1>5, <1>6, <1>8, <1>9, <1>10 DEF ConfigNext

(* src/kiwi/management_api.py 596-604, src/kiwi/service.py 2820-2821: when no call is
   under way the service works with what the file says, unless the last two calls
   crossed between reading the file and installing it, or the file has an entry
   that load_routes refuses. *)
THEOREM RegistryAlwaysCatchesUp == ConfigSpec => []RegistryCatchesUp
<1>1. ConfigInit => RegistryRunsAhead
  BY DEF ConfigInit, RegistryRunsAhead
<1>2. RegistryRunsAhead => RegistryCatchesUp
  BY DEF RegistryRunsAhead, RegistryCatchesUp, Callers
<1>. QED  BY <1>1, <1>2, StepRunsAhead, ShapeIsInvariant, PTL DEF ConfigSpec
===============================================================================
