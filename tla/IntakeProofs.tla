----------------------------- MODULE IntakeProofs -----------------------------
(***************************************************************************)
(* Theorems about SourceIntake for all routes, channels, albums, backfills *)
(* and poll sizes, and every number of restarts and faults, checked by     *)
(* TLAPS.                                                                  *)
(***************************************************************************)
EXTENDS SourceIntake, FiniteSetTheorems, WellFoundedInduction, TLAPS

-------------------------------------------------------------------------------
(* Greatest and least members. *)

LEMMA LeastOfNat ==
  ASSUME NEW S \in SUBSET Nat, S # {}
  PROVE  \E x \in S : \A y \in S : x <= y
<1>. DEFINE R == OpToRel(<, Nat)
<1>1. IsWellFoundedOn(R, Nat)
  BY NatLessThanWellFounded
<1>2. PICK x \in S : \A y \in S : ~ (<<y, x>> \in R)
  <2>. HIDE DEF R
  <2>. QED  BY <1>1, WFMin
<1>3. \A y \in S : ~(y < x)
  BY <1>2 DEF OpToRel
<1>. QED  BY <1>3

LEMMA MinOf ==
  ASSUME NEW S \in SUBSET Int, NEW low \in Int, \A x \in S : low <= x, S # {}
  PROVE  Min(S) \in S /\ \A y \in S : Min(S) <= y
<1>. DEFINE T == {n \in Nat : low + n \in S}
<1>1. PICK s \in S : TRUE
  OBVIOUS
<1>2. s - low \in T
  OBVIOUS
<1>3. PICK x \in T : \A y \in T : x <= y
  BY <1>2, LeastOfNat
<1>4. low + x \in S /\ \A y \in S : low + x <= y
  <2>1. \A y \in S : y - low \in T
    OBVIOUS
  <2>. QED  BY <1>3, <2>1
<1>. QED  BY <1>4 DEF Min

LEMMA MaxOf ==
  ASSUME NEW S \in SUBSET Int, NEW high \in Int, \A x \in S : x <= high, S # {}
  PROVE  Max(S) \in S /\ \A y \in S : y <= Max(S)
<1>. DEFINE T == {n \in Nat : high - n \in S}
<1>1. PICK s \in S : TRUE
  OBVIOUS
<1>2. high - s \in T
  OBVIOUS
<1>3. PICK x \in T : \A y \in T : x <= y
  BY <1>2, LeastOfNat
<1>4. high - x \in S /\ \A y \in S : y <= high - x
  <2>1. \A y \in S : high - y \in T
    OBVIOUS
  <2>. QED  BY <1>3, <2>1
<1>. QED  BY <1>4 DEF Max

LEMMA MessagesAreInts == Messages \subseteq Int /\ \A m \in Messages : 1 <= m /\ m <= LastMessage
BY SourceIntakeAssumption DEF Messages

LEMMA MessageIsInt ==
  ASSUME NEW m \in Messages
  PROVE  /\ m \in Int /\ 1 <= m /\ m <= LastMessage /\ LastMessage \in Int
         /\ m \in 0..LastMessage
BY SourceIntakeAssumption DEF Messages

Rows == (SUBSET Messages) \ {{}}

(* A row's id is its highest message. *)
LEMMA RowIdOf ==
  ASSUME NEW row \in Rows
  PROVE  RowId(row) \in row /\ RowId(row) \in Messages /\ \A m \in row : m <= RowId(row)
<1>1. row \in SUBSET Int /\ row # {} /\ row \subseteq Messages /\ LastMessage \in Int
  BY MessagesAreInts, SourceIntakeAssumption DEF Rows
<1>2. \A m \in row : m <= LastMessage
  BY <1>1, MessagesAreInts
<1>3. Max(row) \in row /\ \A m \in row : m <= Max(row)
  BY <1>1, <1>2, MaxOf
<1>. QED  BY <1>1, <1>3 DEF RowId

LEMMA MinOfRow ==
  ASSUME NEW row \in Rows
  PROVE  Min(row) \in row /\ Min(row) \in Messages /\ \A m \in row : Min(row) <= m
<1>1. row \in SUBSET Int /\ row # {} /\ row \subseteq Messages
  BY MessagesAreInts DEF Rows
<1>2. \A m \in row : 1 <= m
  BY <1>1, MessagesAreInts
<1>3. Min(row) \in row /\ \A m \in row : Min(row) <= m
  BY <1>1, <1>2, MinOf
<1>. QED  BY <1>1, <1>3

-------------------------------------------------------------------------------
(* Type correctness. *)

IntakeSteps == {"baseline", "poll", "register", "drain", "activate"}

(* IntakeTypeOK with the histories, no row without messages, and nothing to be
   registered but while run_once registers. *)
IntakeShape ==
  /\ published \in 0..LastMessage /\ cursor \in None..LastMessage
  /\ checkpoint \in [Routes -> None..LastMessage] /\ base \in [Routes -> None..LastMessage]
  /\ status \in [Routes -> {"syncing", "synced", "deactive"}]
  /\ rows \in [Routes -> SUBSET Rows] /\ sent \in [Routes -> SUBSET Rows]
  /\ \A r \in Routes : sent[r] \subseteq rows[r]
  /\ bucket \in [Routes -> SUBSET Album] /\ idle \subseteq Routes
  /\ ready \subseteq Routes \X Rows
  /\ pc \in IntakeSteps /\ (ready # {} => pc = "register")
  /\ missed \in [Routes -> SUBSET Messages]
  /\ calm \in BOOLEAN

LEMMA BoundIsInt ==
  /\ LastMessage \in Nat /\ None..LastMessage \subseteq Int /\ None \in None..LastMessage
  /\ 0..LastMessage \subseteq None..LastMessage /\ Messages \subseteq 0..LastMessage
BY SourceIntakeAssumption DEF None, Messages

LEMMA AtLeastIsOne == \A a, b : AtLeast(a, b) = a \/ AtLeast(a, b) = b
BY DEF AtLeast

LEMMA BetweenAreMessages == \A a, b : Between(a, b) \subseteq Messages
BY DEF Between

LEMMA InitIntakeShape == IntakeInit => IntakeShape
<1>. SUFFICES ASSUME IntakeInit PROVE IntakeShape
  OBVIOUS
<1>1. cursor \in None..LastMessage
  BY BoundIsInt DEF IntakeInit, None
<1>2. published \in 0..LastMessage
  BY SourceIntakeAssumption DEF IntakeInit
<1>3. /\ checkpoint \in [Routes -> None..LastMessage] /\ base \in [Routes -> None..LastMessage]
      /\ status \in [Routes -> {"syncing", "synced", "deactive"}]
      /\ rows \in [Routes -> SUBSET Rows] /\ sent \in [Routes -> SUBSET Rows]
      /\ bucket \in [Routes -> SUBSET Album] /\ missed \in [Routes -> SUBSET Messages]
  BY BoundIsInt DEF IntakeInit
<1>. QED  BY <1>1, <1>2, <1>3 DEF IntakeInit, IntakeShape, IntakeSteps

(* What a poll reads, and how it is sorted into buckets and what is ready. *)
LEMMA BatchIsUnread ==
  NextBatch \subseteq Messages /\ \A m \in NextBatch : cursor < m /\ m <= published
BY DEF NextBatch, Unread

Touched(batch) == {r \in InScope : batch \cap Album # {}}

Sorted(batch, flushed) ==
  /\ flushed \in SUBSET MayFlush(Touched(batch))
  /\ ready' = Singles(batch) \cup {<<r, bucket[r]>> : r \in flushed}
  /\ bucket' = [r \in Routes |->
                  IF r \in flushed THEN {}
                  ELSE IF r \in Touched(batch) THEN bucket[r] \cup (batch \cap Album) ELSE bucket[r]]
  /\ idle' = {r \in Routes \ (Touched(batch) \cup flushed) : bucket[r] # {}}

LEMMA CollectSorts ==
  ASSUME NEW batch \in SUBSET Messages, Collect(batch)
  PROVE  \E flushed : Sorted(batch, flushed)
<1>. DEFINE touched == {r \in InScope : batch \cap Album # {}}
            full == [r \in Routes |-> IF r \in touched THEN bucket[r] \cup (batch \cap Album) ELSE bucket[r]]
<1>1. PICK flushed \in SUBSET MayFlush(touched) :
        /\ ready' = Singles(batch) \cup {<<r, bucket[r]>> : r \in flushed}
        /\ bucket' = [r \in Routes |-> IF r \in flushed THEN {} ELSE full[r]]
        /\ idle' = {r \in Routes \ (touched \cup flushed) : bucket[r] # {}}
  BY DEF Collect
<1>2. Sorted(batch, flushed)
  BY <1>1 DEF Sorted, Touched
<1>. QED  BY <1>2

LEMMA CollectShape ==
  ASSUME IntakeShape, NEW batch \in SUBSET Messages, Collect(batch), pc = "poll"
  PROVE  /\ bucket' \in [Routes -> SUBSET Album] /\ idle' \subseteq Routes
         /\ ready' \subseteq Routes \X Rows
<1>1. PICK flushed : Sorted(batch, flushed)
  BY CollectSorts
<1>2. InScope \subseteq Routes
  BY DEF InScope, Active
<1>3. \A r \in flushed : r \in Routes /\ bucket[r] \in Rows
  BY <1>1, SourceIntakeAssumption DEF Sorted, MayFlush, IntakeShape, Rows
<1>4. ready' \subseteq Routes \X Rows
  BY <1>1, <1>2, <1>3 DEF Sorted, Singles, Rows
<1>5. bucket' \in [Routes -> SUBSET Album]
  BY <1>1 DEF Sorted, IntakeShape
<1>. QED  BY <1>1, <1>4, <1>5 DEF Sorted

LEMMA OpenShape ==
  ASSUME IntakeShape,
         \/ Publish \/ (\E r \in Routes : EnsureBaseline(r)) \/ PrimeCursor
         \/ GetUpdatesFails \/ EndRegistering \/ EndDrain \/ AutoActivate
         \/ (\E r \in Routes : StopRoute(r) \/ StartRoute(r)) \/ Restart
  PROVE  IntakeShape'
<1>. USE DEF IntakeShape, IntakeSteps
<1>1. CASE Publish
  <2>1. published' \in 0..LastMessage
    <3>1. CASE published + 1 \in Album
      <4>1. Album \in Rows
        BY <3>1, SourceIntakeAssumption DEF Rows
      <4>2. Max(Album) \in Messages
        BY <4>1, RowIdOf DEF RowId
      <4>. QED  BY <1>1, <3>1, <4>2, BoundIsInt DEF Publish
    <3>2. CASE published + 1 \notin Album
      BY <1>1, <3>2, BoundIsInt DEF Publish
    <3>. QED  BY <3>1, <3>2
  <2>. QED  BY <1>1, <2>1 DEF Publish
<1>2. ASSUME NEW r \in Routes, EnsureBaseline(r) PROVE IntakeShape'
  <2>1. PICK latest \in LatestKnown :
          LET first == AtLeast(0, latest - Backfill[r]) IN
          /\ checkpoint' = [checkpoint EXCEPT ![r] = first]
          /\ base' = [base EXCEPT ![r] = first]
          /\ status' = [status EXCEPT ![r] = IF latest = 0 THEN "syncing"
                                             ELSE IF latest > first THEN "syncing"
                                             ELSE "synced"]
          /\ missed' = [missed EXCEPT ![r] = @ \cup Between(first, cursor)]
          /\ calm' = (calm /\ ~Cuts(first))
    BY <1>2 DEF EnsureBaseline
  <2>. DEFINE first == AtLeast(0, latest - Backfill[r])
  <2>2. first \in 0..LastMessage
    BY BoundIsInt, SourceIntakeAssumption DEF LatestKnown, AtLeast
  <2>3. calm' \in BOOLEAN
    BY <2>1
  <2>4. Between(first, cursor) \subseteq Messages
    BY BetweenAreMessages
  <2>. HIDE DEF first
  <2>5. UNCHANGED <<published, cursor, rows, sent, bucket, idle, ready, pc>>
    BY <1>2 DEF EnsureBaseline
  <2>6. status' \in [Routes -> {"syncing", "synced", "deactive"}]
    BY <2>1
  <2>7. /\ checkpoint' = [checkpoint EXCEPT ![r] = first] /\ base' = [base EXCEPT ![r] = first]
        /\ missed' = [missed EXCEPT ![r] = @ \cup Between(first, cursor)]
    BY <2>1 DEF first
  <2>8. /\ checkpoint' \in [Routes -> None..LastMessage] /\ base' \in [Routes -> None..LastMessage]
    BY <2>2, <2>7, BoundIsInt
  <2>9. missed' \in [Routes -> SUBSET Messages]
    BY <2>4, <2>7
  <2>. QED  BY <2>3, <2>5, <2>6, <2>8, <2>9
<1>3. CASE PrimeCursor
  <2>1. Primed \in None..LastMessage
    <3>. DEFINE S == {cursor} \cup {checkpoint[r] : r \in Active}
    <3>1. S \in SUBSET Int /\ S # {} /\ S \subseteq None..LastMessage
      BY BoundIsInt DEF Active
    <3>2. LastMessage \in Int /\ \A x \in S : x <= LastMessage
      BY <3>1, BoundIsInt
    <3>. HIDE DEF S
    <3>3. Max(S) \in S
      BY <3>1, <3>2, MaxOf
    <3>. QED  BY <3>1, <3>3 DEF Primed, S
  <2>2. missed' \in [Routes -> SUBSET Messages]
    <3>1. \A r \in Routes : PassedOver(r, Primed) \subseteq Messages
      BY BetweenAreMessages DEF PassedOver
    <3>. QED  BY <1>3, <3>1 DEF PrimeCursor
  <2>3. status' \in [Routes -> {"syncing", "synced", "deactive"}]
    BY <1>3 DEF PrimeCursor
  <2>4. calm' \in BOOLEAN
    BY <1>3 DEF PrimeCursor
  <2>. QED  BY <1>3, <2>1, <2>2, <2>3, <2>4 DEF PrimeCursor
<1>4. CASE GetUpdatesFails
  BY <1>4 DEF GetUpdatesFails
<1>5. CASE EndRegistering \/ EndDrain
  BY <1>5 DEF EndRegistering, EndDrain
<1>6. CASE AutoActivate
  <2>1. status' \in [Routes -> {"syncing", "synced", "deactive"}]
    BY <1>6 DEF AutoActivate
  <2>. QED  BY <1>6, <2>1 DEF AutoActivate
<1>7. ASSUME NEW r \in Routes, StopRoute(r) \/ StartRoute(r) PROVE IntakeShape'
  <2>1. status' \in [Routes -> {"syncing", "synced", "deactive"}]
    BY <1>7 DEF StopRoute, StartRoute
  <2>. QED  BY <1>7, <2>1 DEF StopRoute, StartRoute
<1>8. CASE Restart
  <2>1. missed' \in [Routes -> SUBSET Messages]
    <3>1. \A r \in Routes : Lost(r) \subseteq Messages
      BY SourceIntakeAssumption DEF Lost, Rows
    <3>2. \A r \in Routes : LostForGood(r) \subseteq Messages
      BY <3>1 DEF LostForGood
    <3>. QED  BY <1>8, <3>2 DEF Restart
  <2>2. cursor' \in None..LastMessage /\ bucket' \in [Routes -> SUBSET Album]
    BY <1>8, BoundIsInt DEF Restart
  <2>3. calm' \in BOOLEAN
    BY <1>8 DEF Restart
  <2>. QED  BY <1>8, <2>1, <2>2, <2>3 DEF Restart
<1>. QED  BY <1>1, <1>2, <1>3, <1>4, <1>5, <1>6, <1>7, <1>8

LEMMA ReadUpTo ==
  ASSUME IntakeShape, cursor' = IF NextBatch = {} THEN cursor ELSE Max(NextBatch)
  PROVE  cursor' \in None..LastMessage
<1>1. CASE NextBatch = {}
  BY <1>1 DEF IntakeShape
<1>2. CASE NextBatch # {}
  <2>1. NextBatch \in Rows
    BY <1>2, BatchIsUnread DEF Rows
  <2>. QED  BY <1>2, <2>1, RowIdOf, BoundIsInt DEF RowId
<1>. QED  BY <1>1, <1>2

LEMMA PollShape ==
  ASSUME IntakeShape, Poll \/ FirstPoll \/ PollBreaks \/ PollTimesOut
  PROVE  IntakeShape'
<1>1. /\ pc = "poll" /\ pc' = "register" /\ calm' \in BOOLEAN
      /\ UNCHANGED <<published, checkpoint, status, rows, sent, base>>
  BY DEF Poll, FirstPoll, PollBreaks, PollTimesOut, IntakeShape
<1>2. /\ bucket' \in [Routes -> SUBSET Album] /\ idle' \subseteq Routes
      /\ ready' \subseteq Routes \X Rows
  <2>1. NextBatch \subseteq Messages
    BY BatchIsUnread
  <2>2. \E batch \in SUBSET Messages : Collect(batch)
    <3>1. CASE Poll
      BY <2>1, <3>1 DEF Poll
    <3>2. CASE FirstPoll \/ PollTimesOut
      BY <3>2 DEF FirstPoll, PollTimesOut
    <3>3. CASE PollBreaks
      <4>1. PICK m \in NextBatch \cup {0} : Collect({l \in NextBatch : l <= m})
        BY <3>3 DEF PollBreaks
      <4>2. {l \in NextBatch : l <= m} \in SUBSET Messages
        BY <2>1
      <4>. QED  BY <4>1, <4>2
    <3>. QED  BY <3>1, <3>2, <3>3
  <2>. QED  BY <1>1, <2>2, CollectShape
<1>3. cursor' \in None..LastMessage
  <2>1. CASE Poll \/ PollTimesOut
    BY <2>1, ReadUpTo DEF Poll, PollTimesOut
  <2>2. CASE FirstPoll \/ PollBreaks
    BY <2>2, BoundIsInt DEF FirstPoll, PollBreaks, IntakeShape
  <2>. QED  BY <2>1, <2>2
<1>4. missed' \in [Routes -> SUBSET Messages]
  <2>1. CASE Poll
    BY <2>1, BatchIsUnread DEF Poll, OutOfScopeMisses, IntakeShape
  <2>2. CASE FirstPoll
    <3>1. \A r \in Routes : PassedOver(r, published) \subseteq Messages
      BY BetweenAreMessages DEF PassedOver
    <3>. QED  BY <2>2, <3>1 DEF FirstPoll, IntakeShape
  <2>3. CASE PollTimesOut
    BY <2>3, BatchIsUnread DEF PollTimesOut, IntakeShape
  <2>4. CASE PollBreaks
    BY <2>4 DEF PollBreaks, IntakeShape
  <2>. QED  BY <2>1, <2>2, <2>3, <2>4
<1>. QED  BY <1>1, <1>2, <1>3, <1>4 DEF IntakeShape, IntakeSteps

(* What a registration does to the rows of a route. *)
LEMMA RegisteredRows ==
  ASSUME IntakeShape, NEW r \in Routes, NEW row \in Rows
  PROVE  /\ Registered(r, row) \in SUBSET Rows
         /\ sent[r] \subseteq Registered(r, row)
         /\ \/ /\ Registered(r, row) = rows[r]
               /\ \E k \in sent[r] : RowId(k) = RowId(row)
            \/ /\ row \in Registered(r, row) /\ row \notin sent[r]
               /\ \A k \in Registered(r, row) : k = row \/ (k \in rows[r] /\ RowId(k) # RowId(row))
               /\ \A k \in rows[r] : k \in Registered(r, row) \/ RowId(k) = RowId(row)
<1>. DEFINE same == {k \in rows[r] : RowId(k) = RowId(row)}
<1>0. rows[r] \subseteq Rows /\ sent[r] \subseteq rows[r]
  BY DEF IntakeShape
<1>1. CASE same \cap sent[r] # {}
  BY <1>0, <1>1 DEF Registered
<1>2. CASE same \cap sent[r] = {}
  <2>1. Registered(r, row) = (rows[r] \ same) \cup {row}
    BY <1>2 DEF Registered
  <2>2. row \notin sent[r]
    BY <1>0, <1>2
  <2>3. Registered(r, row) \in SUBSET Rows /\ sent[r] \subseteq Registered(r, row)
    BY <1>0, <1>2, <2>1
  <2>4. /\ row \in Registered(r, row)
        /\ \A k \in Registered(r, row) : k = row \/ (k \in rows[r] /\ RowId(k) # RowId(row))
        /\ \A k \in rows[r] : k \in Registered(r, row) \/ RowId(k) = RowId(row)
    BY <2>1
  <2>. QED  BY <2>2, <2>3, <2>4
<1>. QED  BY <1>1, <1>2

LEMMA EnqueueShape ==
  ASSUME IntakeShape, EnqueueSyncMessage \/ RunOnceTimesOut
  PROVE  IntakeShape'
<1>. USE DEF IntakeShape, IntakeSteps
<1>1. CASE EnqueueSyncMessage
  <2>1. PICK r \in Routes, row \in Rows :
          /\ ready' = ready \ {<<r, row>>}
          /\ IF r \in Active /\ AboveCheckpoint(r, row)
             THEN /\ rows' = [rows EXCEPT ![r] = Registered(r, row)]
                  /\ status' = [status EXCEPT ![r] = "syncing"]
                  /\ missed' = [missed EXCEPT ![r] = @ \cup ((Carried(r) \cup row) \ UNION Registered(r, row))]
             ELSE /\ missed' = IF r \in Active THEN missed ELSE [missed EXCEPT ![r] = @ \cup row]
                  /\ UNCHANGED <<rows, status>>
    BY <1>1 DEF EnqueueSyncMessage
  <2>2. UNCHANGED <<published, cursor, checkpoint, sent, bucket, idle, pc, base, calm>> /\ pc = "register"
    BY <1>1 DEF EnqueueSyncMessage
  <2>3. rows' \in [Routes -> SUBSET Rows] /\ \A x \in Routes : sent[x] \subseteq rows'[x]
    <3>1. Registered(r, row) \in SUBSET Rows /\ sent[r] \subseteq Registered(r, row)
      BY RegisteredRows
    <3>. QED  BY <2>1, <3>1
  <2>4. missed' \in [Routes -> SUBSET Messages]
    <3>1. Carried(r) \subseteq Messages /\ row \subseteq Messages
      BY DEF Carried, Rows
    <3>. QED  BY <2>1, <3>1
  <2>5. status' \in [Routes -> {"syncing", "synced", "deactive"}]
    BY <2>1
  <2>. QED  BY <2>1, <2>2, <2>3, <2>4, <2>5
<1>2. CASE RunOnceTimesOut
  <2>1. missed' \in [Routes -> SUBSET Messages]
    <3>1. \A r \in Routes : UNION {item[2] : item \in {i \in ready : i[1] = r}} \subseteq Messages
      BY DEF Rows
    <3>. QED  BY <1>2, <3>1 DEF RunOnceTimesOut
  <2>2. calm' = FALSE
    BY <1>2 DEF RunOnceTimesOut
  <2>. QED  BY <1>2, <2>1, <2>2 DEF RunOnceTimesOut
<1>. QED  BY <1>1, <1>2

(* What Deliver concludes: the lowest pending row, and how far the checkpoint goes. *)
LowestRow(r, row) == row \in Pending(r) /\ \A l \in Pending(r) : RowId(row) <= RowId(l)

LEMMA LowestRowExists ==
  ASSUME IntakeShape, NEW r \in Routes, Pending(r) # {}
  PROVE  \E row \in Rows : LowestRow(r, row)
<1>. DEFINE S == {RowId(row) : row \in Pending(r)}
<1>1. Pending(r) \subseteq Rows
  BY DEF Pending, IntakeShape
<1>2. S \in SUBSET Nat /\ S # {}
  <2>1. \A row \in Pending(r) : RowId(row) \in Messages
    BY <1>1, RowIdOf
  <2>2. Messages \subseteq Nat
    BY MessagesAreInts
  <2>. QED  BY <2>1, <2>2
<1>3. PICK x \in S : \A y \in S : x <= y
  BY <1>2, LeastOfNat
<1>. QED  BY <1>1, <1>3 DEF LowestRow

Concluded(r, row, target) ==
  /\ LowestRow(r, row) /\ row \in Rows
  /\ target \in 0..LastMessage /\ target <= RowId(row)
  /\ \A m \in bucket[r] : target < m
  /\ sent' = [sent EXCEPT ![r] = @ \cup {row}]
  /\ checkpoint' = [checkpoint EXCEPT ![r] = AtLeast(@, target)]
  /\ base' = [base EXCEPT ![r] = IF @ = None THEN Min(row) - 1 ELSE @]
  /\ target = RowId(row) \/ (bucket[r] # {} /\ target = Min(bucket[r]) - 1)

LEMMA DeliverConcludes ==
  ASSUME IntakeShape, NEW r \in Routes, Deliver(r)
  PROVE  \E row, target : Concluded(r, row, target)
<1>. DEFINE row == CHOOSE k \in Pending(r) : \A l \in Pending(r) : RowId(k) <= RowId(l)
            target == IF RowId(row) <= BelowBucket(r) THEN RowId(row) ELSE BelowBucket(r)
<1>1. LowestRow(r, row) /\ row \in Rows
  <2>1. \E k \in Pending(r) : \A l \in Pending(r) : RowId(k) <= RowId(l)
    BY LowestRowExists DEF Deliver, LowestRow
  <2>2. Pending(r) \subseteq Rows
    BY DEF Pending, IntakeShape
  <2>. QED  BY <2>1, <2>2 DEF LowestRow
<1>2. /\ sent' = [sent EXCEPT ![r] = @ \cup {row}]
      /\ checkpoint' = [checkpoint EXCEPT ![r] = AtLeast(@, target)]
      /\ base' = [base EXCEPT ![r] = IF @ = None THEN Min(row) - 1 ELSE @]
  BY DEF Deliver
<1>3. RowId(row) \in Messages
  BY <1>1, RowIdOf
<1>. HIDE DEF row
<1>4. CASE bucket[r] = {}
  <2>1. BelowBucket(r) = LastMessage
    BY <1>4 DEF BelowBucket
  <2>2. target = RowId(row)
    BY <1>3, <2>1, MessagesAreInts
  <2>3. target \in 0..LastMessage /\ target <= RowId(row)
    BY <1>3, <2>2, MessageIsInt
  <2>. HIDE DEF target
  <2>. QED  BY <1>1, <1>2, <1>4, <2>2, <2>3 DEF Concluded
<1>5. CASE bucket[r] # {}
  <2>1. bucket[r] \in Rows
    BY <1>5, SourceIntakeAssumption DEF IntakeShape, Rows
  <2>2. Min(bucket[r]) \in Messages /\ \A m \in bucket[r] : Min(bucket[r]) <= m
    BY <2>1, MinOfRow
  <2>3. BelowBucket(r) = Min(bucket[r]) - 1
    BY <1>5 DEF BelowBucket
  <2>4. bucket[r] \subseteq Int
    BY <2>1, MessagesAreInts DEF Rows
  <2>5. /\ target \in 0..LastMessage /\ target <= RowId(row) /\ target <= Min(bucket[r]) - 1
        /\ target = RowId(row) \/ target = Min(bucket[r]) - 1
    <3>1. /\ RowId(row) \in Int /\ 1 <= RowId(row) /\ RowId(row) <= LastMessage
          /\ Min(bucket[r]) \in Int /\ 1 <= Min(bucket[r]) /\ LastMessage \in Int
      BY <1>3, <2>2, MessageIsInt
    <3>. QED  BY <2>3, <3>1
  <2>. HIDE DEF target
  <2>6. \A m \in bucket[r] : target < m
    <3>1. target \in Int /\ Min(bucket[r]) \in Int
      BY <2>2, <2>5, MessageIsInt
    <3>. QED  BY <2>2, <2>4, <2>5, <3>1
  <2>. QED  BY <1>1, <1>2, <1>5, <2>5, <2>6 DEF Concluded
<1>. QED  BY <1>4, <1>5

LEMMA DeliverShape ==
  ASSUME IntakeShape, NEW r \in Routes, Deliver(r)
  PROVE  IntakeShape'
<1>1. PICK row, target : Concluded(r, row, target)
  BY DeliverConcludes
<1>2. UNCHANGED <<published, cursor, status, rows, bucket, idle, ready, pc, missed, calm>>
  BY DEF Deliver
<1>3. sent' \in [Routes -> SUBSET Rows] /\ \A x \in Routes : sent'[x] \subseteq rows[x]
  BY <1>1 DEF Concluded, IntakeShape, LowestRow, Pending
<1>4. checkpoint' \in [Routes -> None..LastMessage]
  <2>1. AtLeast(checkpoint[r], target) \in None..LastMessage
    BY <1>1, BoundIsInt, AtLeastIsOne DEF Concluded, IntakeShape
  <2>. QED  BY <1>1, <2>1 DEF Concluded, IntakeShape
<1>5. base' \in [Routes -> None..LastMessage]
  <2>1. Min(row) \in Messages
    BY <1>1, MinOfRow DEF Concluded
  <2>2. Min(row) - 1 \in None..LastMessage
    <3>1. Min(row) \in Int /\ 1 <= Min(row) /\ Min(row) <= LastMessage /\ LastMessage \in Int
      BY <2>1, MessageIsInt
    <3>. QED  BY <3>1 DEF None
  <2>. QED  BY <1>1, <2>2 DEF Concluded, IntakeShape
<1>. QED  BY <1>2, <1>3, <1>4, <1>5 DEF IntakeShape

LEMMA StepIntakeShape ==
  ASSUME IntakeShape, [IntakeNext]_intakeVars
  PROVE  IntakeShape'
<1>1. CASE UNCHANGED intakeVars
  BY <1>1 DEF intakeVars, IntakeShape
<1>. QED  BY <1>1, OpenShape, PollShape, EnqueueShape, DeliverShape DEF IntakeNext

-------------------------------------------------------------------------------
(* Nothing that was passed is forgotten. *)

(* What a route knows of, and may yet conclude. *)
Known(r) == Lost(r) \cup UNION Pending(r)

Accounted(r) == Carried(r) \cup missed[r] \cup Lost(r) \cup Between(0, checkpoint[r])

(* Of everything below a message a route knows of, and below the cursor, it is known
   where it is: the messages of a source come in their order. *)
KnownCover ==
  \A r \in Routes : \A x \in Known(r) \cup {cursor} : Between(0, x) \subseteq Accounted(r)

UniqueIds == \A r \in Routes : \A k, l \in rows[r] : RowId(k) = RowId(l) => k = l

(* Between a route's first checkpoint and its present one there is no message but in
   its rows; those of them that wait are above the checkpoint. *)
BelowCovers ==
  \A r \in Routes : checkpoint[r] # None =>
    Between(base[r], checkpoint[r]) \subseteq Carried(r) \cup missed[r]

PendingAbove ==
  \A r \in Routes : \A k \in Pending(r) : RowId(k) > checkpoint[r] \/ RowId(k) <= base[r]

IntakeInv == IntakeShape /\ UniqueIds /\ KnownCover /\ BelowCovers /\ PendingAbove

LEMMA InitIntakeInv == IntakeInit => IntakeInv
<1>. SUFFICES ASSUME IntakeInit PROVE IntakeInv
  OBVIOUS
<1>1. IntakeShape
  BY InitIntakeShape
<1>2. UniqueIds
  BY DEF IntakeInit, UniqueIds
<1>3. KnownCover
  <2>1. \A r \in Routes : Known(r) = {}
    BY DEF IntakeInit, Known, Lost, Pending
  <2>2. Between(0, cursor) = {}
    BY MessageIsInt DEF IntakeInit, Between, None
  <2>. QED  BY <2>1, <2>2 DEF KnownCover
<1>4. BelowCovers /\ PendingAbove
  BY DEF IntakeInit, BelowCovers, PendingAbove, Pending
<1>. QED  BY <1>1, <1>2, <1>3, <1>4 DEF IntakeInv

(* A step that concludes and registers nothing. *)
LEMMA RowsStay ==
  ASSUME IntakeInv, UNCHANGED <<checkpoint, base, rows, sent>>,
         \A r \in Routes : missed[r] \subseteq missed'[r]
  PROVE  UniqueIds' /\ BelowCovers' /\ PendingAbove'
<1>1. UniqueIds'
  BY DEF IntakeInv, UniqueIds
<1>2. BelowCovers'
  BY DEF IntakeInv, BelowCovers, Between, Carried
<1>3. PendingAbove'
  BY DEF IntakeInv, PendingAbove, Pending
<1>. QED  BY <1>1, <1>2, <1>3

LEMMA CoverGrows ==
  ASSUME KnownCover, \A r \in Routes : Accounted(r) \subseteq Accounted(r)',
         \A r \in Routes : \A x \in Known(r)' \cup {cursor'} :
           x \in Known(r) \cup {cursor} \/ Between(0, x) \subseteq Accounted(r)'
  PROVE  KnownCover'
<1>1. \A r \in Routes : \A x \in Known(r)' \cup {cursor'} : Between(0, x) \subseteq Accounted(r)'
  BY DEF KnownCover
<1>. QED  BY <1>1 DEF KnownCover, Between

LEMMA QuietKeepsCover ==
  ASSUME IntakeInv, IntakeShape', UNCHANGED <<cursor, checkpoint, base, rows, sent, bucket, ready, missed>>
  PROVE  IntakeInv'
<1>1. UniqueIds' /\ BelowCovers' /\ PendingAbove'
  BY RowsStay
<1>2. \A r \in Routes : Accounted(r)' = Accounted(r) /\ Known(r)' = Known(r)
  BY DEF Accounted, Known, Carried, Lost, Pending, Between
<1>3. KnownCover'
  BY <1>2, CoverGrows DEF IntakeInv
<1>. QED  BY <1>1, <1>3 DEF IntakeInv

(* A cursor that moves to c leaves nothing unaccounted for but what it passes over. *)
LEMMA PassedIsAccounted ==
  ASSUME IntakeShape, KnownCover, NEW r \in Routes, NEW c \in None..LastMessage
  PROVE  Between(0, c) \subseteq Accounted(r) \cup PassedOver(r, c)
<1>. SUFFICES ASSUME NEW m \in Messages, m <= c
              PROVE  m \in Accounted(r) \cup PassedOver(r, c)
  BY DEF Between
<1>1. m \in Int /\ 1 <= m /\ cursor \in Int /\ checkpoint[r] \in Int
  BY MessageIsInt, BoundIsInt DEF IntakeShape
<1>2. CASE m <= cursor
  BY <1>1, <1>2 DEF KnownCover, Between
<1>3. CASE m <= checkpoint[r]
  BY <1>1, <1>3 DEF Accounted, Between
<1>4. CASE cursor < m /\ checkpoint[r] < m
  BY <1>4, AtLeastIsOne DEF PassedOver, Between
<1>. QED  BY <1>1, <1>2, <1>3, <1>4

LEMMA PrimeKeepsCover ==
  ASSUME IntakeInv, IntakeShape', PrimeCursor
  PROVE  IntakeInv'
<1>1. /\ UNCHANGED <<checkpoint, base, rows, sent, bucket, ready>> /\ cursor' = Primed
      /\ \A r \in Routes : missed'[r] = missed[r] \cup (PassedOver(r, Primed) \ Carried(r))
  BY DEF PrimeCursor
<1>2. UniqueIds' /\ BelowCovers' /\ PendingAbove'
  BY <1>1, RowsStay
<1>3. \A r \in Routes : Known(r)' = Known(r)
  BY <1>1 DEF Known, Lost, Pending
<1>4. \A r \in Routes : Accounted(r) \cup PassedOver(r, Primed) \subseteq Accounted(r)'
  BY <1>1 DEF Accounted, Carried, Lost, Between
<1>5. \A r \in Routes : Between(0, cursor') \subseteq Accounted(r)'
  BY <1>1, <1>4, PassedIsAccounted DEF IntakeInv, IntakeShape
<1>6. KnownCover'
  BY <1>3, <1>4, <1>5, CoverGrows DEF IntakeInv
<1>. QED  BY <1>2, <1>6 DEF IntakeInv

LEMMA InItems ==
  ASSUME NEW R \in SUBSET (Routes \X Rows), NEW r \in Routes, NEW m
  PROVE  m \in UNION {item[2] : item \in {i \in R : i[1] = r}}
           <=> \E row \in Rows : <<r, row>> \in R /\ m \in row
<1>. DEFINE Items == {i \in R : i[1] = r}
<1>1. ASSUME NEW item \in Items
      PROVE  item[2] \in Rows /\ item = <<r, item[2]>> /\ item \in R
  OBVIOUS
<1>2. ASSUME NEW row \in Rows, <<r, row>> \in R
      PROVE  row \in {item[2] : item \in Items}
  <2>1. <<r, row>> \in Items /\ <<r, row>>[2] = row
    BY <1>2
  <2>. HIDE DEF Items
  <2>. QED  BY <2>1
<1>. HIDE DEF Items
<1>3. m \in UNION {item[2] : item \in Items} <=> \E row \in Rows : <<r, row>> \in R /\ m \in row
  BY <1>1, <1>2
<1>. QED  BY <1>3 DEF Items

LEMMA InLost ==
  ASSUME IntakeShape, NEW r \in Routes, NEW m
  PROVE  m \in Lost(r) <=> m \in bucket[r] \/ \E row \in Rows : <<r, row>> \in ready /\ m \in row
BY InItems DEF Lost, IntakeShape

LEMMA InLostNext ==
  ASSUME IntakeShape', NEW r \in Routes, NEW m
  PROVE  m \in Lost(r)' <=> m \in bucket'[r] \/ \E row \in Rows : <<r, row>> \in ready' /\ m \in row
BY InItems DEF Lost, IntakeShape

LEMMA TimeOutKeepsCover ==
  ASSUME IntakeInv, IntakeShape', RunOnceTimesOut
  PROVE  IntakeInv'
<1>1. /\ UNCHANGED <<cursor, checkpoint, base, rows, sent, bucket>> /\ ready' = {}
      /\ \A r \in Routes : missed'[r] = missed[r] \cup UNION {item[2] : item \in {i \in ready : i[1] = r}}
  BY DEF RunOnceTimesOut
<1>2. UniqueIds' /\ BelowCovers' /\ PendingAbove'
  BY <1>1, RowsStay
<1>3. \A r \in Routes : Lost(r)' = bucket[r]
  BY <1>1 DEF Lost
<1>4. \A r \in Routes : Known(r)' \subseteq Known(r)
  BY <1>1, <1>3 DEF Known, Pending, Lost
<1>5. \A r \in Routes : Accounted(r) \subseteq Accounted(r)'
  BY <1>1, <1>3 DEF Accounted, Carried, Lost, Between
<1>6. KnownCover'
  BY <1>1, <1>4, <1>5, CoverGrows DEF IntakeInv
<1>. QED  BY <1>2, <1>6 DEF IntakeInv

(* What a restart forgets, below a row that waits, is counted as missed. *)
LEMMA RestartKeepsCover ==
  ASSUME IntakeInv, IntakeShape', Restart
  PROVE  IntakeInv'
<1>. USE DEF IntakeInv
<1>1. /\ UNCHANGED <<checkpoint, base, rows, sent>> /\ ready' = {}
      /\ bucket' = [r \in Routes |-> {}]
      /\ cursor' = IF mode = "bot" THEN cursor ELSE None
      /\ \A r \in Routes : missed'[r] = missed[r] \cup LostForGood(r)
  BY DEF Restart
<1>2. UniqueIds' /\ BelowCovers' /\ PendingAbove'
  BY <1>1, RowsStay
<1>3. \A r \in Routes : Lost(r)' = {} /\ Known(r)' = UNION Pending(r)
  BY <1>1 DEF Known, Pending, Lost
<1>4. ASSUME NEW r \in Routes, NEW x \in Known(r)' \cup {cursor'},
             NEW m \in Between(0, x)
      PROVE  m \in Accounted(r)'
  <2>0. m \in Messages /\ 0 < m /\ m <= x
    BY DEF Between
  <2>1. x \in Known(r) \cup {cursor}
    <3>1. CASE x \in Known(r)'
      BY <1>3, <3>1 DEF Known
    <3>2. CASE x = cursor'
      BY <1>1, <2>0, <3>2, MessageIsInt DEF None
    <3>. QED  BY <3>1, <3>2
  <2>2. m \in Accounted(r)
    BY <2>1 DEF KnownCover
  <2>3. CASE m \notin Lost(r)
    BY <1>1, <2>2, <2>3 DEF Accounted, Carried, Between
  <2>4. CASE m \in Lost(r)
    <3>1. CASE mode = "bot"
      BY <1>1, <2>4, <3>1 DEF LostForGood, Accounted
    <3>2. CASE mode # "bot"
      <4>1. PICK row \in Pending(r) : x \in row
        BY <1>1, <1>3, <2>0, <3>2, MessageIsInt DEF None
      <4>2. row \in Rows /\ row \in rows[r]
        BY DEF Pending, IntakeShape
      <4>3. x <= RowId(row) /\ RowId(row) \in Int /\ x \in Int /\ m \in Int /\ RowId(row) \in row
        BY <2>0, <4>1, <4>2, RowIdOf, MessageIsInt DEF Rows
      <4>4. CASE RowId(row) > m
        BY <1>1, <2>4, <3>2, <4>4 DEF LostForGood, Accounted
      <4>5. CASE RowId(row) = m
        BY <1>1, <4>2, <4>3, <4>5 DEF Accounted, Carried
      <4>. QED  BY <2>0, <4>3, <4>4, <4>5
    <3>. QED  BY <3>1, <3>2
  <2>. QED  BY <2>3, <2>4
<1>5. KnownCover'
  <2>1. \A r \in Routes : \A x \in Known(r)' \cup {cursor'} : Between(0, x) \subseteq Accounted(r)'
    BY <1>4
  <2>. QED  BY <2>1 DEF KnownCover, Between
<1>. QED  BY <1>2, <1>5

(* A poll reads without a gap. *)
LEMMA BatchHasNoGap ==
  ASSUME IntakeShape, NEW m \in NextBatch, NEW l \in Messages, cursor < l, l <= m
  PROVE  l \in NextBatch
<1>. DEFINE Below(x) == {k \in Unread : k <= x}
<1>1. m \in Messages /\ m <= published /\ m \in Unread /\ Cardinality(Below(m)) <= PollLimit
  BY BatchIsUnread DEF NextBatch
<1>2. l \in Unread
  <2>1. Unread = {k \in Messages : cursor < k /\ k <= published}
    BY <1>1 DEF Unread
  <2>2. l <= published
    BY <1>1, MessageIsInt, BoundIsInt DEF IntakeShape
  <2>. QED  BY <2>1, <2>2
<1>3. Below(l) \subseteq Below(m) /\ IsFiniteSet(Below(m))
  <2>1. Unread \subseteq Messages /\ IsFiniteSet(Messages)
    BY FS_Interval, SourceIntakeAssumption DEF Unread, Messages
  <2>2. IsFiniteSet(Below(m))
    BY <2>1, FS_Subset
  <2>. QED  BY <1>1, <2>1, <2>2, MessageIsInt
<1>4. Cardinality(Below(l)) <= Cardinality(Below(m)) /\ Cardinality(Below(l)) \in Nat /\ Cardinality(Below(m)) \in Nat
  BY <1>3, FS_Subset, FS_CardinalityType
<1>. QED  BY <1>1, <1>2, <1>4, SourceIntakeAssumption DEF NextBatch

LEMMA CollectLosesNothing ==
  ASSUME IntakeShape, IntakeShape', NEW batch \in SUBSET Messages, Collect(batch), pc = "poll",
         NEW r \in Routes
  PROVE  /\ Lost(r) \subseteq Lost(r)'
         /\ r \in InScope => batch \subseteq Lost(r)' /\ Lost(r)' \subseteq Lost(r) \cup batch
         /\ r \notin InScope => Lost(r)' \subseteq Lost(r)
<1>0. PICK flushed : Sorted(batch, flushed)
  BY CollectSorts
<1>. DEFINE touched == Touched(batch)
<1>1. /\ flushed \in SUBSET MayFlush(touched)
      /\ ready' = {<<x, {m}>> : x \in InScope, m \in batch \ Album}
                     \cup {<<x, bucket[x]>> : x \in flushed}
      /\ \A x \in Routes :
           bucket'[x] = IF x \in flushed THEN {}
                        ELSE IF x \in touched THEN bucket[x] \cup (batch \cap Album) ELSE bucket[x]
      /\ \A x : x \in touched <=> x \in InScope /\ batch \cap Album # {}
  BY <1>0 DEF Sorted, Singles, Touched
<1>. HIDE DEF touched
<1>2. ready = {} /\ flushed \subseteq Routes \ touched /\ \A x \in flushed : bucket[x] \in Rows
  BY <1>1, SourceIntakeAssumption DEF IntakeShape, MayFlush, Rows
<1>3. \A m : m \in Lost(r) <=> m \in bucket[r]
  BY <1>2, InLost
<1>4. Lost(r) \subseteq Lost(r)'
  <2>. SUFFICES ASSUME NEW m \in bucket[r] PROVE m \in Lost(r)'
    BY <1>3
  <2>1. CASE r \in flushed
    <3>1. <<r, bucket[r]>> \in ready'
      BY <1>1, <2>1
    <3>. QED  BY <1>2, <2>1, <3>1, InLostNext
  <2>2. CASE r \notin flushed
    BY <1>1, <2>2, InLostNext
  <2>. QED  BY <2>1, <2>2
<1>5. ASSUME r \in InScope, NEW m \in batch PROVE m \in Lost(r)'
  <2>1. CASE m \in Album
    <3>1. r \in touched /\ r \notin flushed
      BY <1>1, <1>2, <1>5, <2>1
    <3>2. m \in bucket'[r]
      BY <1>1, <1>5, <2>1, <3>1
    <3>. QED  BY <3>2, InLostNext
  <2>2. CASE m \notin Album
    <3>1. <<r, {m}>> \in ready' /\ {m} \in Rows
      BY <1>1, <1>5, <2>2 DEF Rows
    <3>. QED  BY <3>1, InLostNext
  <2>. QED  BY <2>1, <2>2
<1>6. ASSUME NEW m \in Lost(r)'
      PROVE  m \in bucket[r] \/ (r \in InScope /\ m \in batch)
  <2>1. CASE m \in bucket'[r]
    BY <1>1, <2>1
  <2>2. CASE \E row \in Rows : <<r, row>> \in ready' /\ m \in row
    <3>1. PICK row \in Rows : <<r, row>> \in ready' /\ m \in row
      BY <2>2
    <3>2. CASE \E x \in InScope, n \in batch \ Album : <<r, row>> = <<x, {n}>>
      BY <3>1, <3>2
    <3>3. CASE \E x \in flushed : <<r, row>> = <<x, bucket[x]>>
      BY <3>1, <3>3
    <3>. QED  BY <1>1, <3>1, <3>2, <3>3
  <2>. QED  BY <2>1, <2>2, InLostNext
<1>. QED  BY <1>3, <1>4, <1>5, <1>6

LEMMA PollKeepsCover ==
  ASSUME IntakeInv, IntakeShape', Poll \/ FirstPoll \/ PollBreaks \/ PollTimesOut
  PROVE  IntakeInv'
<1>. USE DEF IntakeInv
<1>1. /\ pc = "poll" /\ UNCHANGED <<checkpoint, base, rows, sent>>
      /\ \A r \in Routes : missed[r] \subseteq missed'[r]
  BY DEF Poll, FirstPoll, PollBreaks, PollTimesOut, OutOfScopeMisses, IntakeShape
<1>2. UniqueIds' /\ BelowCovers' /\ PendingAbove'
  BY <1>1, RowsStay
<1>3. ASSUME \A r \in Routes : Lost(r) \subseteq Lost(r)'
      PROVE  \A r \in Routes : Accounted(r) \subseteq Accounted(r)'
  BY <1>1, <1>3 DEF Accounted, Carried, Between
<1>4. \A r \in Routes : UNION Pending(r)' = UNION Pending(r)
  BY <1>1 DEF Pending
<1>5. NextBatch \in SUBSET Messages
  BY BatchIsUnread
<1>6. ASSUME NEW c \in NextBatch, NEW read \in SUBSET NextBatch,
             \A m \in NextBatch : m <= c => m \in read,
             \A r \in Routes : Lost(r) \subseteq Lost(r)',
             NEW r \in Routes, read \subseteq Lost(r)' \cup missed'[r]
      PROVE  Between(0, c) \subseteq Accounted(r)'
  <2>. SUFFICES ASSUME NEW m \in Messages, m <= c PROVE m \in Accounted(r)'
    BY DEF Between
  <2>1. CASE cursor < m
    BY <1>6, <2>1, BatchHasNoGap DEF Accounted
  <2>2. CASE m <= cursor
    <3>1. m \in Accounted(r)
      BY <2>2, MessageIsInt DEF KnownCover, Between
    <3>. QED  BY <1>3, <1>6, <3>1
  <2>3. m \in Int /\ cursor \in Int
    BY MessageIsInt, BoundIsInt DEF IntakeShape
  <2>. QED  BY <2>1, <2>2, <2>3
<1>7. CASE Poll \/ PollTimesOut
  <2>1. PICK batch \in {{}, NextBatch} : Collect(batch) /\ (batch = NextBatch \/ PollTimesOut)
    BY <1>7 DEF Poll, PollTimesOut
  <2>2. batch \in SUBSET Messages
    BY <1>5, <2>1
  <2>3. \A r \in Routes : /\ Lost(r) \subseteq Lost(r)' /\ Lost(r)' \subseteq Lost(r) \cup NextBatch
                          /\ r \in InScope => batch \subseteq Lost(r)'
    BY <1>1, <2>1, <2>2, CollectLosesNothing
  <2>4. \A r \in Routes : NextBatch \subseteq Lost(r)' \cup missed'[r]
    <3>1. CASE PollTimesOut
      BY <3>1 DEF PollTimesOut
    <3>2. CASE Poll /\ batch = NextBatch
      BY <2>3, <3>2 DEF Poll, OutOfScopeMisses
    <3>. QED  BY <1>7, <2>1, <3>1, <3>2
  <2>5. cursor' = cursor \/ cursor' \in NextBatch
    <3>1. CASE NextBatch # {}
      <4>1. NextBatch \in Rows
        BY <1>5, <3>1 DEF Rows
      <4>. QED  BY <1>7, <4>1, <3>1, RowIdOf DEF RowId, Poll, PollTimesOut
    <3>. QED  BY <1>7, <3>1 DEF Poll, PollTimesOut
  <2>6. ASSUME NEW r \in Routes, NEW x \in Known(r)' \cup {cursor'}
        PROVE  x \in Known(r) \cup {cursor} \/ Between(0, x) \subseteq Accounted(r)'
    <3>1. x \in Known(r) \cup {cursor} \/ x \in NextBatch
      BY <1>4, <2>3, <2>5 DEF Known
    <3>. QED  BY <1>6, <2>3, <2>4, <3>1
  <2>7. KnownCover'
    BY <1>3, <2>3, <2>6, CoverGrows
  <2>. QED  BY <1>2, <2>7
<1>8. CASE FirstPoll
  <2>1. /\ Collect({}) /\ cursor' = published
        /\ \A r \in Routes : missed'[r] = missed[r] \cup (PassedOver(r, published) \ Carried(r))
    BY <1>8 DEF FirstPoll
  <2>2. \A r \in Routes : Lost(r)' = Lost(r)
    <3>1. {} \in SUBSET Messages
      OBVIOUS
    <3>2. \A r \in Routes : Lost(r) \subseteq Lost(r)' /\ Lost(r)' \subseteq Lost(r)
      BY <1>1, <2>1, <3>1, CollectLosesNothing
    <3>. QED  BY <3>2
  <2>3. \A r \in Routes : Accounted(r) \cup PassedOver(r, published) \subseteq Accounted(r)'
    BY <1>1, <2>1, <2>2 DEF Accounted, Carried, Between
  <2>4. \A r \in Routes : Between(0, cursor') \subseteq Accounted(r)'
    BY <2>1, <2>3, BoundIsInt, PassedIsAccounted DEF IntakeShape
  <2>5. KnownCover'
    BY <1>4, <2>2, <2>3, <2>4, CoverGrows DEF Known
  <2>. QED  BY <1>2, <2>5
<1>9. CASE PollBreaks
  <2>1. PICK n \in NextBatch \cup {0} : Collect({l \in NextBatch : l <= n})
    BY <1>9 DEF PollBreaks
  <2>. DEFINE read == {l \in NextBatch : l <= n}
  <2>2. read \in SUBSET Messages
    BY <1>5
  <2>3. \A r \in Routes : /\ Lost(r) \subseteq Lost(r)'
                          /\ r \in InScope => read \subseteq Lost(r)' /\ Lost(r)' \subseteq Lost(r) \cup read
                          /\ r \notin InScope => Lost(r)' \subseteq Lost(r)
    BY <1>1, <2>1, <2>2, CollectLosesNothing
  <2>4. cursor' = cursor
    BY <1>9 DEF PollBreaks
  <2>5. ASSUME NEW r \in Routes, NEW x \in Known(r)' \cup {cursor'}
        PROVE  x \in Known(r) \cup {cursor} \/ Between(0, x) \subseteq Accounted(r)'
    <3>1. CASE x \in Known(r) \cup {cursor}
      BY <3>1
    <3>2. CASE x \notin Known(r) \cup {cursor}
      <4>1. r \in InScope /\ x \in read
        BY <1>4, <2>3, <2>4, <3>2 DEF Known
      <4>2. \A m \in NextBatch : m <= x => m \in read
        <5>1. x \in Int /\ NextBatch \subseteq Int /\ n \in Int /\ x <= n
          BY <1>5, <2>1, <4>1, MessageIsInt
        <5>. QED  BY <5>1
      <4>. QED  BY <1>6, <2>3, <4>1, <4>2
    <3>. QED  BY <3>1, <3>2
  <2>6. KnownCover'
    BY <1>3, <2>3, <2>5, CoverGrows
  <2>. QED  BY <1>2, <2>6
<1>. QED  BY <1>7, <1>8, <1>9

LEMMA BaselineKeepsCover ==
  ASSUME IntakeInv, IntakeShape', NEW r \in Routes, EnsureBaseline(r)
  PROVE  IntakeInv'
<1>. USE DEF IntakeInv
<1>1. PICK first \in 0..LastMessage :
        /\ checkpoint' = [checkpoint EXCEPT ![r] = first]
        /\ base' = [base EXCEPT ![r] = first]
        /\ missed' = [missed EXCEPT ![r] = @ \cup Between(first, cursor)]
  <2>1. PICK latest \in LatestKnown :
          LET first == AtLeast(0, latest - Backfill[r]) IN
          /\ checkpoint' = [checkpoint EXCEPT ![r] = first]
          /\ base' = [base EXCEPT ![r] = first]
          /\ missed' = [missed EXCEPT ![r] = @ \cup Between(first, cursor)]
    BY DEF EnsureBaseline
  <2>2. AtLeast(0, latest - Backfill[r]) \in 0..LastMessage
    BY BoundIsInt, SourceIntakeAssumption DEF LatestKnown, AtLeast, IntakeShape
  <2>. QED  BY <2>1, <2>2
<1>2. checkpoint[r] = None /\ UNCHANGED <<cursor, rows, sent, bucket, ready>>
  BY DEF EnsureBaseline
<1>3. UniqueIds'
  BY <1>2 DEF UniqueIds
<1>4. \A x \in Routes : missed[x] \subseteq missed'[x]
  BY <1>1 DEF IntakeShape
<1>5. KnownCover'
  <2>1. \A x \in Routes : Known(x)' = Known(x)
    BY <1>2 DEF Known, Lost, Pending
  <2>2. Between(0, checkpoint[r]) = {}
    BY <1>2, MessageIsInt DEF Between, None
  <2>3. \A x \in Routes \ {r} : checkpoint'[x] = checkpoint[x]
    BY <1>1 DEF IntakeShape
  <2>4. \A x \in Routes : Accounted(x) \subseteq Accounted(x)'
    BY <1>2, <1>4, <2>2, <2>3 DEF Accounted, Carried, Lost, Between
  <2>. QED  BY <1>2, <2>1, <2>4, CoverGrows
<1>6. \A x \in Routes \ {r} : checkpoint'[x] = checkpoint[x] /\ base'[x] = base[x]
  BY <1>1 DEF IntakeShape
<1>7. checkpoint'[r] = first /\ base'[r] = first
  BY <1>1 DEF IntakeShape
<1>8. BelowCovers'
  <2>1. Between(first, first) = {}
    BY MessageIsInt DEF Between
  <2>2. \A x \in Routes : Between(base'[x], checkpoint'[x]) = {} \/ x \in Routes \ {r}
    BY <1>7, <2>1
  <2>. QED  BY <1>2, <1>4, <1>6, <2>2 DEF BelowCovers, Carried, Between
<1>9. PendingAbove'
  <2>1. \A x \in Routes : Pending(x)' = Pending(x)
    BY <1>2 DEF Pending
  <2>2. \A k \in Pending(r) : RowId(k) \in Int
    BY RowIdOf, MessageIsInt DEF Pending, IntakeShape
  <2>3. \A k \in Pending(r) : RowId(k) > first \/ RowId(k) <= first
    BY <2>2
  <2>. QED  BY <1>6, <1>7, <2>1, <2>3 DEF PendingAbove
<1>. QED  BY <1>3, <1>5, <1>8, <1>9

(* A row is registered, or the message dropped because the checkpoint has passed it or
   its route is stopped. *)
LEMMA EnqueueKeepsCover ==
  ASSUME IntakeInv, IntakeShape', EnqueueSyncMessage
  PROVE  IntakeInv'
<1>. USE DEF IntakeInv
<1>1. PICK r \in Routes, row \in Rows :
        /\ <<r, row>> \in ready /\ ready' = ready \ {<<r, row>>}
        /\ IF r \in Active /\ AboveCheckpoint(r, row)
           THEN /\ rows' = [rows EXCEPT ![r] = Registered(r, row)]
                /\ missed' = [missed EXCEPT ![r] = @ \cup ((Carried(r) \cup row) \ UNION Registered(r, row))]
           ELSE /\ missed' = IF r \in Active THEN missed ELSE [missed EXCEPT ![r] = @ \cup row]
                /\ rows' = rows
  <2>1. PICK item \in ready :
          /\ ready' = ready \ {item}
          /\ IF item[1] \in Active /\ AboveCheckpoint(item[1], item[2])
             THEN /\ rows' = [rows EXCEPT ![item[1]] = Registered(item[1], item[2])]
                  /\ missed' = [missed EXCEPT ![item[1]] = @ \cup ((Carried(item[1]) \cup item[2])
                                                        \ UNION Registered(item[1], item[2]))]
             ELSE /\ missed' = IF item[1] \in Active THEN missed ELSE [missed EXCEPT ![item[1]] = @ \cup item[2]]
                  /\ rows' = rows
    BY DEF EnqueueSyncMessage
  <2>2. item[1] \in Routes /\ item[2] \in Rows /\ item = <<item[1], item[2]>>
    BY DEF IntakeShape
  <2>. QED  BY <2>1, <2>2
<1>2. UNCHANGED <<cursor, checkpoint, sent, bucket, base>>
  BY DEF EnqueueSyncMessage
<1>3. \A x \in Routes : missed[x] \subseteq missed'[x]
  BY <1>1 DEF IntakeShape
<1>4. row \subseteq Lost(r) /\ row \subseteq Messages
  BY <1>1, InLost DEF Rows
<1>5. \A x \in Routes : Lost(x)' \subseteq Lost(x) /\ Lost(x) \subseteq Lost(x)' \cup (IF x = r THEN row ELSE {})
  <2>. SUFFICES ASSUME NEW x \in Routes, NEW m
                PROVE  /\ m \in Lost(x)' => m \in Lost(x)
                       /\ m \in Lost(x) /\ ~(x = r /\ m \in row) => m \in Lost(x)'
    OBVIOUS
  <2>1. \A k \in Rows : <<x, k>> \in ready' <=> <<x, k>> \in ready /\ ~(x = r /\ k = row)
    BY <1>1
  <2>. QED  BY <1>2, <2>1, InLost, InLostNext
<1>6. CASE r \in Active /\ AboveCheckpoint(r, row)
  <2>1. /\ rows' = [rows EXCEPT ![r] = Registered(r, row)]
        /\ missed' = [missed EXCEPT ![r] = @ \cup ((Carried(r) \cup row) \ UNION Registered(r, row))]
    BY <1>1, <1>6
  <2>2. /\ rows'[r] = Registered(r, row) /\ \A x \in Routes \ {r} : rows'[x] = rows[x]
        /\ Carried(r) \cup row \subseteq (UNION Registered(r, row)) \cup missed'[r]
    <3>. HIDE DEF IntakeInv
    <3>1. rows \in [Routes -> SUBSET Rows] /\ missed \in [Routes -> SUBSET Messages]
      BY DEF IntakeInv, IntakeShape
    <3>2. rows'[r] = Registered(r, row) /\ \A x \in Routes \ {r} : rows'[x] = rows[x]
      BY <2>1, <3>1
    <3>3. (Carried(r) \cup row) \ UNION Registered(r, row) \subseteq missed'[r]
      BY <2>1, <3>1
    <3>4. Carried(r) \cup row \subseteq (UNION Registered(r, row)) \cup missed'[r]
      BY <3>3
    <3>. QED  BY <3>2, <3>4
  <2>3. \/ Registered(r, row) = rows[r]
        \/ /\ row \in Registered(r, row) /\ row \notin sent[r]
           /\ \A k \in Registered(r, row) : k = row \/ (k \in rows[r] /\ RowId(k) # RowId(row))
           /\ \A k \in rows[r] : k \in Registered(r, row) \/ RowId(k) = RowId(row)
    BY RegisteredRows
  <2>4. UniqueIds'
    <3>1. \A k, l \in Registered(r, row) : RowId(k) = RowId(l) => k = l
      BY <2>3 DEF UniqueIds
    <3>. QED  BY <2>2, <3>1 DEF UniqueIds
  <2>5. \A x \in Routes : Known(x)' \subseteq Known(x)
    <3>1. ASSUME NEW k \in Pending(r)' PROVE k \subseteq Known(r)
      BY <1>2, <1>4, <2>2, <2>3, <3>1 DEF Pending, Known
    <3>2. ASSUME NEW x \in Routes \ {r} PROVE Pending(x)' = Pending(x)
      BY <1>2, <2>2 DEF Pending
    <3>. QED  BY <1>5, <3>1, <3>2 DEF Known
  <2>c. /\ \A x \in Routes : Carried(x) \subseteq Carried(x)' \cup missed'[x]
        /\ row \subseteq Carried(r)' \cup missed'[r]
    <3>. HIDE DEF IntakeInv
    <3>1. Carried(r)' = UNION Registered(r, row)
      BY <2>2 DEF Carried
    <3>2. \A x \in Routes \ {r} : Carried(x)' = Carried(x)
      BY <2>2 DEF Carried
    <3>. QED  BY <2>2, <3>1, <3>2
  <2>6. \A x \in Routes : Accounted(x) \subseteq Accounted(x)'
    BY <1>2, <1>3, <1>5, <2>c DEF Accounted, Between
  <2>7. KnownCover'
    BY <1>2, <2>5, <2>6, CoverGrows
  <2>8. BelowCovers'
    BY <1>2, <1>3, <2>c DEF BelowCovers, Between
  <2>9. PendingAbove'
    <3>1. checkpoint[r] = None \/ RowId(row) > checkpoint[r]
      BY <1>6 DEF AboveCheckpoint
    <3>2. RowId(row) > checkpoint[r]
      BY <3>1, RowIdOf, MessageIsInt DEF None
    <3>3. \A k \in Pending(r)' : k = row \/ k \in Pending(r)
      BY <1>2, <2>2, <2>3 DEF Pending
    <3>4. \A x \in Routes \ {r} : Pending(x)' = Pending(x)
      BY <1>2, <2>2 DEF Pending
    <3>. QED  BY <1>2, <3>2, <3>3, <3>4 DEF PendingAbove
  <2>. QED  BY <2>4, <2>7, <2>8, <2>9
<1>7. CASE ~(r \in Active /\ AboveCheckpoint(r, row))
  <2>1. rows' = rows
    BY <1>1, <1>7
  <2>2. UniqueIds' /\ BelowCovers' /\ PendingAbove'
    BY <1>2, <1>3, <2>1, RowsStay
  <2>3. row \subseteq Accounted(r)'
    <3>1. CASE r \notin Active
      BY <1>1, <3>1 DEF Accounted, IntakeShape
    <3>2. CASE ~AboveCheckpoint(r, row)
      <4>1. checkpoint[r] \in Int /\ RowId(row) \in Int /\ RowId(row) <= checkpoint[r]
        <5>1. checkpoint[r] \in Int /\ RowId(row) \in Int
          BY RowIdOf, MessageIsInt, BoundIsInt DEF IntakeShape
        <5>. QED  BY <3>2, <5>1 DEF AboveCheckpoint
      <4>2. \A m \in row : m \in Messages /\ 0 < m /\ m <= checkpoint[r]
        BY <1>4, <4>1, RowIdOf, MessageIsInt
      <4>. QED  BY <1>2, <4>2 DEF Accounted, Between
    <3>. QED  BY <1>7, <3>1, <3>2
  <2>4. \A x \in Routes : Accounted(x) \subseteq Accounted(x)'
    BY <1>2, <1>3, <1>5, <2>1, <2>3 DEF Accounted, Carried, Between
  <2>5. \A x \in Routes : Known(x)' \subseteq Known(x)
    BY <1>2, <1>5, <2>1 DEF Known, Pending
  <2>6. KnownCover'
    BY <1>2, <2>4, <2>5, CoverGrows
  <2>. QED  BY <2>2, <2>6
<1>. QED  BY <1>6, <1>7

LEMMA DeliverKeepsCover ==
  ASSUME IntakeInv, IntakeShape', NEW r \in Routes, Deliver(r)
  PROVE  IntakeInv'
<1>1. PICK row, target : Concluded(r, row, target)
  BY DeliverConcludes DEF IntakeInv
<1>2. UNCHANGED <<cursor, rows, bucket, ready, missed>> /\ ready = {}
  BY DEF Deliver, IntakeInv, IntakeShape
<1>3. /\ LowestRow(r, row) /\ row \in Rows /\ target \in Int /\ target <= RowId(row)
      /\ \A m \in bucket[r] : target < m
      /\ sent'[r] = sent[r] \cup {row} /\ checkpoint'[r] = AtLeast(checkpoint[r], target)
      /\ base'[r] = (IF base[r] = None THEN Min(row) - 1 ELSE base[r])
      /\ checkpoint[r] \in Int /\ base[r] \in Int /\ base'[r] \in Int
  BY <1>1, BoundIsInt DEF Concluded, IntakeInv, IntakeShape
<1>4. \A x \in Routes \ {r} : sent'[x] = sent[x] /\ checkpoint'[x] = checkpoint[x] /\ base'[x] = base[x]
  BY <1>1 DEF Concluded, IntakeInv, IntakeShape
<1>5. /\ checkpoint[r] <= checkpoint'[r] /\ checkpoint'[r] \in Int /\ checkpoint'[r] # None
      /\ base[r] <= base'[r] /\ target <= checkpoint'[r]
  <2>1. target >= 0
    BY <1>1 DEF Concluded
  <2>2. Min(row) \in Int /\ 1 <= Min(row)
    BY <1>3, MinOfRow, MessageIsInt
  <2>. QED  BY <1>3, <2>1, <2>2 DEF AtLeast, None
<1>6. UniqueIds'
  BY <1>2 DEF IntakeInv, UniqueIds
<1>7. KnownCover'
  <2>1. \A x \in Routes : Pending(x)' \subseteq Pending(x)
    BY <1>2, <1>3, <1>4 DEF Pending
  <2>2. \A x \in Routes : Known(x)' \subseteq Known(x)
    BY <1>2, <2>1 DEF Known, Lost
  <2>3. Between(0, checkpoint[r]) \subseteq Between(0, checkpoint'[r])
    BY <1>3, <1>5, MessageIsInt DEF Between
  <2>4. \A x \in Routes : Between(0, checkpoint[x]) \subseteq Between(0, checkpoint'[x])
    BY <1>4, <2>3
  <2>5. \A x \in Routes : Accounted(x) \subseteq Accounted(x)'
    BY <1>2, <2>4 DEF Accounted, Carried, Lost, Between
  <2>. QED  BY <1>2, <2>2, <2>5, CoverGrows DEF IntakeInv
<1>8. ASSUME NEW m \in Messages, base'[r] < m, m <= checkpoint'[r]
      PROVE  m \in Carried(r) \cup missed[r]
  <2>1. m \in Int /\ 0 < m
    BY MessageIsInt
  <2>2. CASE m <= checkpoint[r]
    <3>1. checkpoint[r] # None /\ base[r] < m
      BY <1>3, <1>5, <1>8, <2>1, <2>2 DEF None
    <3>. QED  BY <2>2, <3>1 DEF IntakeInv, BelowCovers, Between
  <2>3. CASE checkpoint[r] < m
    <3>1. m <= target
      BY <1>3, <1>8, <2>1, <2>3 DEF AtLeast
    <3>2. RowId(row) \in Known(r) /\ RowId(row) \in Int /\ m <= RowId(row)
      <4>1. RowId(row) \in row /\ RowId(row) \in Int
        BY <1>3, RowIdOf, MessageIsInt
      <4>. QED  BY <1>3, <2>1, <3>1, <4>1 DEF Known, LowestRow
    <3>3. m \in Accounted(r)
      BY <2>1, <3>2 DEF IntakeInv, KnownCover, Between
    <3>4. m \notin Lost(r)
      <4>1. m \notin bucket[r]
        BY <1>3, <2>1, <3>1
      <4>. QED  BY <1>2, <4>1, InLost DEF IntakeInv
    <3>. QED  BY <1>3, <2>1, <2>3, <3>3, <3>4 DEF Accounted, Between
  <2>. QED  BY <1>3, <2>1, <2>2, <2>3
<1>9. BelowCovers'
  <2>1. \A x \in Routes : Carried(x)' = Carried(x)
    BY <1>2 DEF Carried
  <2>2. Between(base'[r], checkpoint'[r]) \subseteq Carried(r) \cup missed[r]
    BY <1>8 DEF Between
  <2>. QED  BY <1>2, <1>4, <2>1, <2>2 DEF IntakeInv, BelowCovers, Between
<1>10. PendingAbove'
  <2>1. ASSUME NEW k \in Pending(r)'
        PROVE  RowId(k) > checkpoint'[r] \/ RowId(k) <= base'[r]
    <3>1. k \in Pending(r) /\ k # row /\ k \in rows[r] /\ row \in rows[r] /\ k \in Rows
      BY <1>2, <1>3 DEF Pending, LowestRow, IntakeInv, IntakeShape
    <3>2. RowId(k) \in Int /\ RowId(row) \in Int
      BY <1>3, <3>1, RowIdOf, MessageIsInt
    <3>3. RowId(row) <= RowId(k) /\ RowId(k) # RowId(row)
      BY <1>3, <3>1 DEF LowestRow, IntakeInv, UniqueIds
    <3>4. RowId(k) > checkpoint[r] \/ RowId(k) <= base[r]
      BY <3>1 DEF IntakeInv, PendingAbove
    <3>. QED  BY <1>3, <1>5, <3>2, <3>3, <3>4 DEF AtLeast
  <2>2. \A x \in Routes \ {r} : Pending(x)' = Pending(x)
    BY <1>2, <1>4 DEF Pending
  <2>. QED  BY <1>4, <2>1, <2>2 DEF IntakeInv, PendingAbove
<1>. QED  BY <1>6, <1>7, <1>9, <1>10 DEF IntakeInv

LEMMA StepIntakeInv ==
  ASSUME IntakeInv, [IntakeNext]_intakeVars
  PROVE  IntakeInv'
<1>1. IntakeShape'
  BY StepIntakeShape DEF IntakeInv
<1>2. CASE UNCHANGED intakeVars
  BY <1>1, <1>2, QuietKeepsCover DEF intakeVars
<1>3. CASE \/ Publish \/ GetUpdatesFails \/ EndRegistering \/ EndDrain \/ AutoActivate
           \/ (\E r \in Routes : StopRoute(r) \/ StartRoute(r))
  <2>1. UNCHANGED <<cursor, checkpoint, base, rows, sent, bucket, ready, missed>>
    BY <1>3 DEF Publish, GetUpdatesFails, EndRegistering, EndDrain, AutoActivate, StopRoute, StartRoute
  <2>. QED  BY <1>1, <2>1, QuietKeepsCover
<1>. QED  BY <1>1, <1>2, <1>3, BaselineKeepsCover, PrimeKeepsCover, PollKeepsCover,
             EnqueueKeepsCover, TimeOutKeepsCover, DeliverKeepsCover, RestartKeepsCover
          DEF IntakeNext

LEMMA CoverSuffices == IntakeInv => NothingPassedIsForgotten
<1>. SUFFICES ASSUME IntakeInv PROVE NothingPassedIsForgotten
  OBVIOUS
<1>1. IntakeTypeOK
  BY DEF IntakeInv, IntakeShape, IntakeTypeOK, Rows, IntakeSteps
<1>2. ASSUME NEW r \in Routes, checkpoint[r] # None, NEW m \in Between(base[r], checkpoint[r])
      PROVE  m \in (UNION sent[r]) \cup missed[r] \cup Straddling(r)
  <2>0. m \in Messages /\ m \in Int /\ base[r] < m /\ m <= checkpoint[r] /\ checkpoint[r] \in Int /\ base[r] \in Int
    BY MessageIsInt, BoundIsInt DEF Between, IntakeInv, IntakeShape
  <2>1. m \in Carried(r) \cup missed[r]
    BY <1>2 DEF IntakeInv, BelowCovers
  <2>2. ASSUME NEW k \in Pending(r), m \in k
        PROVE  m \in Straddling(r)
    <3>1. RowId(k) \in Int /\ m <= RowId(k)
      BY <2>2, RowIdOf, MessageIsInt DEF IntakeInv, IntakeShape, Pending
    <3>2. RowId(k) > checkpoint[r]
      BY <2>0, <3>1 DEF IntakeInv, PendingAbove
    <3>. QED  BY <2>2, <3>2 DEF Straddling
  <2>3. CASE m \in Carried(r)
    <3>1. PICK k \in rows[r] : m \in k
      BY <2>3 DEF Carried
    <3>2. k \in sent[r] \/ k \in Pending(r)
      BY DEF Pending
    <3>. QED  BY <2>2, <3>1, <3>2
  <2>. QED  BY <2>1, <2>3
<1>3. CheckpointCovers
  BY <1>2 DEF CheckpointCovers
<1>4. CursorCovers
  <2>1. ASSUME NEW r \in Routes, NEW m \in Between(base[r], cursor)
        PROVE  m \in Accounted(r)
    <3>1. m \in Messages /\ 0 < m /\ m <= cursor
      BY MessageIsInt DEF Between
    <3>. QED  BY <3>1 DEF IntakeInv, KnownCover, Between
  <2>. QED  BY <2>1 DEF CursorCovers, Accounted
<1>. QED  BY <1>1, <1>3, <1>4 DEF NothingPassedIsForgotten

(* No message falls between the source, the buckets, the ledger and the checkpoint:
   what run_once reads is registered, or is in a bucket, before the cursor's place is
   relied on, and _checkpoint_target_with_pending_groups never passes what is not. *)
THEOREM NothingIsEverForgotten == IntakeSpec => []NothingPassedIsForgotten
<1>1. IntakeInit => IntakeInv
  BY InitIntakeInv
<1>2. IntakeInv /\ [IntakeNext]_intakeVars => IntakeInv'
  BY StepIntakeInv
<1>. QED  BY <1>1, <1>2, CoverSuffices, PTL DEF IntakeSpec

-------------------------------------------------------------------------------
(* Albums are registered whole. *)

UpTo(c) == {a \in Album : a <= c}

WholeOrSingle(row) == row = Album \/ row \cap Album = {}

(* The checkpoint is above the album: what is left of it is dropped. *)
AlbumPassed(r) == \A a \in Album : a <= checkpoint[r]

(* Or else what was read of it is in the bucket, or all of it has left the bucket. *)
AlbumWaits(r) ==
  r \in InScope => bucket[r] = UpTo(cursor) \/ (bucket[r] = {} /\ UpTo(cursor) = Album)

ReadyRows(r) == {row \in Rows : <<r, row>> \in ready}

AlbumKept(r) ==
  /\ checkpoint[r] <= published /\ ~Cuts(checkpoint[r])
  /\ r \in Active /\ checkpoint[r] = None => pc = "baseline"
  /\ \A row \in rows[r] : WholeOrSingle(row)
  /\ \A m \in Carried(r) \cup Lost(r) : m <= published
  /\ bucket[r] = {} \/ r \in InScope
  /\ \A row \in ReadyRows(r) : row \subseteq Album \/ row \cap Album = {}
  /\ AlbumPassed(r) \/ (AlbumWaits(r) /\ \A row \in ReadyRows(r) : WholeOrSingle(row))

AlbumsInv ==
  calm =>
    /\ mode = "bot" => cursor # None
    /\ ~Cuts(published) /\ cursor <= published
    /\ pc = "poll" /\ cursor = None => Active = {}
    /\ \A r \in Routes : AlbumKept(r)

LEMMA AlbumMessage ==
  ASSUME NEW a \in Album
  PROVE  a \in Messages /\ a \in Int /\ 1 <= a /\ a <= LastMessage
<1>1. a \in Messages
  BY SourceIntakeAssumption
<1>. QED  BY <1>1, MessageIsInt

(* Only between two of its members is an album cut. *)
LEMMA SingleCutsNothing ==
  ASSUME NEW m \in Messages, m \notin Album
  PROVE  ~Cuts(m)
<1>. SUFFICES ASSUME NEW a \in Album, NEW b \in Album, a <= m, m < b PROVE FALSE
  BY DEF Cuts
<1>1. a < m
  BY MessageIsInt, AlbumMessage
<1>. QED  BY <1>1, SourceIntakeAssumption

LEMMA PassedCutsNothing ==
  ASSUME NEW c \in Int, \A a \in Album : a <= c
  PROVE  ~Cuts(c)
BY AlbumMessage DEF Cuts

LEMMA InitAlbumsInv == IntakeInit => AlbumsInv
<1>. SUFFICES ASSUME IntakeInit PROVE AlbumsInv
  OBVIOUS
<1>1. /\ mode = "bot" => cursor # None
      /\ cursor \in {None, 0} /\ published \in {0, 1} \ Album /\ pc = "baseline"
      /\ \A r \in Routes : /\ checkpoint[r] = None /\ rows[r] = {} /\ bucket[r] = {}
                           /\ Lost(r) = {} /\ Carried(r) = {} /\ ReadyRows(r) = {}
  BY DEF IntakeInit, None, Lost, Carried, ReadyRows
<1>2. \A c \in {None, 0} : UpTo(c) = {} /\ ~Cuts(c)
  BY AlbumMessage DEF None, UpTo, Cuts
<1>3. ~Cuts(published) /\ cursor <= published /\ None <= published
  <2>1. ~Cuts(0)
    BY <1>2
  <2>2. 1 \in Messages
    BY SourceIntakeAssumption DEF Messages
  <2>3. CASE published = 1
    BY <1>1, <2>2, <2>3, SingleCutsNothing DEF None
  <2>. QED  BY <1>1, <2>1, <2>3 DEF None
<1>. QED  BY <1>1, <1>2, <1>3 DEF AlbumsInv, AlbumKept, AlbumWaits

(* What a step that moves neither cursor nor checkpoint, reads and registers nothing,
   may do. *)
LEMMA QuietKeepsAlbums ==
  ASSUME AlbumsInv, calm' => calm,
         UNCHANGED <<mode, cursor, checkpoint, rows, bucket, ready, published>>,
         Active' = Active, pc # "baseline" \/ pc' = "baseline", pc = "poll" \/ pc' # "poll"
  PROVE  AlbumsInv'
<1>. SUFFICES ASSUME calm' PROVE AlbumsInv'
  BY DEF AlbumsInv
<1>1. InScope' = InScope
  BY DEF InScope
<1>2. \A r \in Routes : AlbumKept(r)'
  BY <1>1 DEF AlbumsInv, AlbumKept, AlbumPassed, AlbumWaits, ReadyRows, WholeOrSingle, Cuts, UpTo,
              Carried, Lost
<1>. QED  BY <1>2 DEF AlbumsInv, Cuts

LEMMA PublishKeepsAlbums ==
  ASSUME IntakeShape, AlbumsInv, Publish
  PROVE  AlbumsInv'
<1>. SUFFICES ASSUME calm' PROVE AlbumsInv'
  BY DEF AlbumsInv
<1>0. /\ UNCHANGED <<mode, cursor, checkpoint, rows, status, bucket, ready, pc, calm>>
      /\ published' = IF published + 1 \in Album THEN Max(Album) ELSE published + 1
      /\ published \in Int /\ published + 1 \in Messages /\ cursor \in Int
      /\ \A r \in Routes : checkpoint[r] \in Int
  BY BoundIsInt DEF Publish, IntakeShape, Messages
<1>1. published' \in Int /\ published <= published' /\ ~Cuts(published')
  <2>1. CASE published + 1 \in Album
    <3>1. Album \in Rows
      BY <2>1, SourceIntakeAssumption DEF Rows
    <3>2. Max(Album) \in Int /\ \A a \in Album : a <= Max(Album)
      BY <3>1, RowIdOf, MessageIsInt DEF RowId
    <3>. QED  BY <1>0, <2>1, <3>2, PassedCutsNothing
  <2>2. CASE published + 1 \notin Album
    BY <1>0, <2>2, SingleCutsNothing
  <2>. QED  BY <2>1, <2>2
<1>2. Active' = Active /\ InScope' = InScope
  BY <1>0 DEF Active, InScope
<1>3. ASSUME NEW r \in Routes PROVE AlbumKept(r)'
  <2>1. \A m \in Carried(r) \cup Lost(r) : m <= published'
    <3>1. \A m \in Carried(r) \cup Lost(r) : m \in Int
      BY InLost, MessageIsInt, AlbumMessage DEF Carried, IntakeShape, Rows
    <3>. QED  BY <1>0, <1>1, <3>1 DEF AlbumsInv, AlbumKept
  <2>2. Carried(r)' = Carried(r) /\ Lost(r)' = Lost(r) /\ ReadyRows(r)' = ReadyRows(r)
    BY <1>0 DEF Carried, Lost, ReadyRows
  <2>3. checkpoint[r] <= published'
    BY <1>0, <1>1 DEF AlbumsInv, AlbumKept
  <2>. QED  BY <1>0, <1>2, <2>1, <2>2, <2>3 DEF AlbumsInv, AlbumKept, AlbumPassed, AlbumWaits, Cuts, UpTo,
                                                WholeOrSingle
<1>. QED  BY <1>0, <1>1, <1>2, <1>3 DEF AlbumsInv, Cuts

LEMMA BaselineKeepsAlbums ==
  ASSUME IntakeShape, AlbumsInv, NEW r \in Routes, EnsureBaseline(r)
  PROVE  AlbumsInv'
<1>. SUFFICES ASSUME calm' PROVE AlbumsInv'
  BY DEF AlbumsInv
<1>1. PICK first \in 0..LastMessage :
        /\ checkpoint' = [checkpoint EXCEPT ![r] = first]
        /\ calm /\ ~Cuts(first) /\ first <= published
  <2>1. PICK latest \in LatestKnown :
          LET first == AtLeast(0, latest - Backfill[r]) IN
          /\ checkpoint' = [checkpoint EXCEPT ![r] = first]
          /\ calm' = (calm /\ ~Cuts(first))
    BY DEF EnsureBaseline
  <2>2. /\ AtLeast(0, latest - Backfill[r]) \in 0..LastMessage
        /\ AtLeast(0, latest - Backfill[r]) <= published
    BY BoundIsInt, SourceIntakeAssumption DEF LatestKnown, AtLeast, IntakeShape
  <2>. QED  BY <2>1, <2>2
<1>2. /\ UNCHANGED <<mode, cursor, published, rows, bucket, ready, pc>>
      /\ checkpoint[r] = None /\ pc = "baseline"
  BY DEF EnsureBaseline
<1>3. Active' = Active
  <2>1. \A x \in Routes : status'[x] # "deactive" <=> status[x] # "deactive"
    BY DEF EnsureBaseline, Active, IntakeShape
  <2>. QED  BY <2>1 DEF Active
<1>4. InScope' = InScope
  BY <1>2, <1>3 DEF InScope
<1>5. checkpoint'[r] = first /\ \A x \in Routes \ {r} : checkpoint'[x] = checkpoint[x]
  BY <1>1 DEF IntakeShape
<1>6. ASSUME NEW x \in Routes PROVE AlbumKept(x)'
  <2>1. Carried(x)' = Carried(x) /\ Lost(x)' = Lost(x) /\ ReadyRows(x)' = ReadyRows(x) /\ AlbumWaits(x)' = AlbumWaits(x)
    BY <1>2, <1>4 DEF Carried, Lost, ReadyRows, AlbumWaits, UpTo
  <2>2. checkpoint'[x] <= published' /\ ~Cuts(checkpoint'[x])
    BY <1>1, <1>2, <1>5 DEF AlbumsInv, AlbumKept
  <2>3. AlbumPassed(x) => AlbumPassed(x)'
    <3>1. CASE x = r
      BY <1>2, <3>1, AlbumMessage DEF AlbumPassed, None
    <3>2. CASE x # r
      BY <1>5, <3>2 DEF AlbumPassed
    <3>. QED  BY <3>1, <3>2
  <2>. QED  BY <1>1, <1>2, <1>3, <1>4, <2>1, <2>2, <2>3 DEF AlbumsInv, AlbumKept, WholeOrSingle, Cuts
<1>. QED  BY <1>1, <1>2, <1>3, <1>6 DEF AlbumsInv, Cuts

LEMMA PrimeKeepsAlbums ==
  ASSUME IntakeShape, AlbumsInv, PrimeCursor
  PROVE  AlbumsInv'
<1>. SUFFICES ASSUME calm' PROVE AlbumsInv'
  BY DEF AlbumsInv
<1>1. /\ UNCHANGED <<mode, published, checkpoint, rows, bucket, ready>> /\ pc = "baseline" /\ pc' = "poll"
      /\ calm /\ \A r \in Active : PassedOver(r, Primed) \cap Album = {}
      /\ cursor' = Primed /\ \A r \in Active : checkpoint[r] # None
  BY DEF PrimeCursor
<1>2. Active' = Active
  <2>1. \A x \in Routes : status'[x] # "deactive" <=> status[x] # "deactive"
    BY DEF PrimeCursor, IntakeShape
  <2>. QED  BY <2>1 DEF Active
<1>3. InScope' = InScope
  BY <1>1, <1>2 DEF InScope
<1>4. /\ mode = "bot" => cursor' = cursor
      /\ mode # "bot" => cursor' \in {cursor} \cup {checkpoint[r] : r \in Active}
      /\ mode # "bot" => cursor <= cursor' /\ \A r \in Active : checkpoint[r] <= cursor'
  <2>. DEFINE S == {cursor} \cup {checkpoint[r] : r \in Active}
  <2>1. S \in SUBSET Int /\ S # {} /\ cursor \in S /\ \A r \in Active : checkpoint[r] \in S
    BY BoundIsInt DEF Active, IntakeShape
  <2>2. LastMessage \in Int /\ \A x \in S : x <= LastMessage
    BY BoundIsInt DEF Active, IntakeShape
  <2>3. mode # "bot" => cursor' = Max(S)
    BY <1>1 DEF Primed
  <2>4. mode = "bot" => cursor' = cursor
    BY <1>1 DEF Primed
  <2>5. S = {cursor} \cup {checkpoint[r] : r \in Active}
    OBVIOUS
  <2>. HIDE DEF S
  <2>6. Max(S) \in S /\ \A x \in S : x <= Max(S)
    BY <2>1, <2>2, MaxOf
  <2>7. mode # "bot" => cursor' \in S
    BY <2>3, <2>6
  <2>. QED  BY <2>1, <2>3, <2>4, <2>5, <2>6, <2>7
<1>5. /\ cursor \in Int /\ cursor' \in Int /\ published \in Int
      /\ \A r \in Routes : checkpoint[r] \in Int /\ checkpoint[r] >= None
  BY <1>4, BoundIsInt DEF IntakeShape, Active
<1>6. cursor' <= published'
  BY <1>1, <1>4, <1>5 DEF AlbumsInv, AlbumKept, Active
<1>7. ASSUME NEW r \in Routes, r \in InScope, ~AlbumPassed(r) PROVE UpTo(cursor') = UpTo(cursor)
  <2>1. CASE mode = "bot"
    BY <1>4, <2>1
  <2>2. CASE mode # "bot"
    <3>0. r \in Active /\ ~Cuts(checkpoint[r])
      BY <1>1, <1>7, <2>2 DEF InScope, AlbumsInv, AlbumKept
    <3>1. ASSUME NEW a \in Album, cursor < a, a <= cursor' PROVE FALSE
      <4>1. a \notin PassedOver(r, Primed) /\ a \in Messages /\ a \in Int
        BY <1>1, <3>0, AlbumMessage
      <4>2. a <= checkpoint[r]
        BY <1>1, <1>5, <3>1, <4>1 DEF PassedOver, Between, AtLeast
      <4>3. \A b \in Album : b <= checkpoint[r]
        BY <1>5, <3>0, <4>2, AlbumMessage DEF Cuts
      <4>. QED  BY <1>7, <4>3 DEF AlbumPassed
    <3>. QED  BY <1>4, <1>5, <2>2, <3>1, AlbumMessage DEF UpTo
  <2>. QED  BY <2>1, <2>2
<1>8. ASSUME NEW r \in Routes PROVE AlbumKept(r)'
  <2>1. Carried(r)' = Carried(r) /\ Lost(r)' = Lost(r) /\ ReadyRows(r)' = ReadyRows(r) /\ AlbumPassed(r)' = AlbumPassed(r)
    BY <1>1 DEF Carried, Lost, ReadyRows, AlbumPassed
  <2>2. AlbumPassed(r) \/ AlbumWaits(r)'
    BY <1>1, <1>3, <1>7 DEF AlbumsInv, AlbumKept, AlbumWaits
  <2>. QED  BY <1>1, <1>2, <1>3, <2>1, <2>2 DEF AlbumsInv, AlbumKept, WholeOrSingle, Cuts
<1>9. mode' = "bot" => cursor' # None
  BY <1>1, <1>4 DEF AlbumsInv
<1>10. cursor' = None => Active' = {}
  <2>1. \A r \in Active : mode # "bot" => cursor' # None
    BY <1>1, <1>4, <1>5 DEF Active, None
  <2>. QED  BY <1>1, <1>2, <1>9, <2>1
<1>. QED  BY <1>1, <1>6, <1>8, <1>9, <1>10 DEF AlbumsInv, Cuts

(* After a restart the album is read again from where the checkpoint is. *)
LEMMA RestartKeepsAlbums ==
  ASSUME IntakeShape, AlbumsInv, Restart
  PROVE  AlbumsInv'
<1>. SUFFICES ASSUME calm' PROVE AlbumsInv'
  BY DEF AlbumsInv
<1>1. /\ UNCHANGED <<mode, published, checkpoint, status, rows>> /\ calm /\ mode = "telethon"
      /\ cursor' = None /\ ready' = {} /\ pc' = "baseline"
      /\ \A r \in Routes : bucket'[r] = {}
  BY DEF Restart
<1>2. published \in Int /\ None <= published'
  BY <1>1, BoundIsInt DEF IntakeShape, None
<1>3. ASSUME NEW r \in Routes PROVE AlbumKept(r)'
  <2>1. Carried(r)' = Carried(r) /\ Lost(r)' = {} /\ ReadyRows(r)' = {}
    BY <1>1 DEF Carried, Lost, ReadyRows
  <2>2. AlbumWaits(r)'
    BY <1>1, AlbumMessage DEF AlbumWaits, UpTo, None
  <2>. QED  BY <1>1, <2>1, <2>2 DEF AlbumsInv, AlbumKept, WholeOrSingle, Cuts
<1>. QED  BY <1>1, <1>2, <1>3 DEF AlbumsInv, Cuts

(* The message above the cursor is read by the next poll. *)
LEMMA NextIsRead ==
  ASSUME IntakeShape, ~(mode = "telethon" /\ Active = {}), cursor + 1 \in Messages, cursor + 1 <= published
  PROVE  cursor + 1 \in NextBatch
<1>1. Unread = {m \in Messages : cursor < m /\ m <= published} /\ cursor \in Int
  BY BoundIsInt DEF Unread, IntakeShape
<1>2. {l \in Unread : l <= cursor + 1} = {cursor + 1}
  BY <1>1, MessageIsInt
<1>3. Cardinality({cursor + 1}) = 1
  BY FS_Singleton
<1>4. cursor + 1 \in Unread
  BY <1>1
<1>5. Cardinality({l \in Unread : l <= cursor + 1}) = 1
  BY <1>2, <1>3
<1>6. 1 <= PollLimit
  BY SourceIntakeAssumption
<1>. QED  BY <1>4, <1>5, <1>6 DEF NextBatch

(* A bucket nothing has joined holds the whole album, if nothing has been missed. *)
LEMMA FlushedIsWhole ==
  ASSUME IntakeShape, ~Cuts(published), cursor <= published, ~(mode = "telethon" /\ Active = {}),
         NextBatch \cap Album = {}, UpTo(cursor) # {}
  PROVE  UpTo(cursor) = Album
<1>. SUFFICES ASSUME NEW b \in Album, cursor < b PROVE FALSE
  BY AlbumMessage, BoundIsInt DEF UpTo, IntakeShape
<1>0. cursor \in Int /\ published \in Int /\ b \in Int
  BY AlbumMessage, BoundIsInt DEF IntakeShape
<1>1. PICK a \in Album : a <= cursor
  BY DEF UpTo
<1>2. a \in Int /\ 1 <= a
  BY AlbumMessage
<1>3. cursor + 1 \in Messages
  BY <1>0, <1>1, <1>2, AlbumMessage, BoundIsInt DEF Messages
<1>4. cursor + 1 \in Album
  BY <1>0, <1>1, <1>2, <1>3, SourceIntakeAssumption
<1>5. b <= published
  BY <1>0, <1>1, <1>2 DEF Cuts
<1>6. cursor + 1 \in NextBatch
  BY <1>0, <1>3, <1>5, NextIsRead
<1>. QED  BY <1>4, <1>6

LEMMA ReadyNext ==
  ASSUME IntakeShape, pc = "poll", NEW flushed, NEW batch \in SUBSET Messages, Sorted(batch, flushed),
         NEW r \in Routes, NEW row \in ReadyRows(r)'
  PROVE  \/ r \in InScope /\ \E m \in batch \ Album : row = {m}
         \/ r \in flushed /\ row = bucket[r] /\ bucket[r] # {} /\ r \notin Touched(batch)
<1>1. <<r, row>> \in Singles(batch) \cup {<<x, bucket[x]>> : x \in flushed}
  BY DEF Sorted, ReadyRows
<1>2. CASE <<r, row>> \in Singles(batch)
  BY <1>2 DEF Singles
<1>3. CASE <<r, row>> \in {<<x, bucket[x]>> : x \in flushed}
  BY <1>3 DEF Sorted, MayFlush
<1>. QED  BY <1>1, <1>2, <1>3

LEMMA PollKeepsAlbums ==
  ASSUME IntakeShape, IntakeShape', AlbumsInv, Poll, calm
  PROVE  AlbumsInv'
<1>. DEFINE batch == NextBatch
<1>1. /\ UNCHANGED <<mode, published, checkpoint, status, rows>> /\ pc = "poll" /\ pc' = "register"
      /\ cursor' = (IF batch = {} THEN cursor ELSE Max(batch)) /\ (cursor # None \/ Active = {})
      /\ Collect(batch)
  BY DEF Poll
<1>2. batch \in SUBSET Messages /\ \A m \in batch : cursor < m /\ m <= published /\ m \in Int
  BY BatchIsUnread, MessageIsInt
<1>3. PICK flushed : Sorted(batch, flushed)
  BY <1>1, <1>2, CollectSorts
<1>4. /\ cursor <= cursor' /\ cursor' <= published /\ cursor' \in Int /\ cursor \in Int
      /\ \A m \in batch : m <= cursor'
      /\ cursor' = cursor \/ cursor' \in batch
  <2>0. cursor \in Int /\ cursor <= published
    BY BoundIsInt DEF IntakeShape, AlbumsInv
  <2>1. CASE batch = {}
    BY <1>1, <2>0, <2>1
  <2>2. CASE batch # {}
    <3>1. batch \in Rows
      BY <1>2, <2>2 DEF Rows
    <3>2. Max(batch) \in batch /\ \A m \in batch : m <= Max(batch)
      BY <3>1, RowIdOf DEF RowId
    <3>. QED  BY <1>1, <1>2, <2>0, <2>2, <3>2
  <2>. QED  BY <2>1, <2>2
<1>5. Active' = Active /\ InScope' = InScope
  BY <1>1 DEF Active, InScope
<1>6. UpTo(cursor') = UpTo(cursor) \cup (batch \cap Album)
  <2>1. ASSUME NEW a \in Album PROVE a <= cursor' <=> a <= cursor \/ a \in batch
    <3>1. CASE a <= cursor
      BY <1>4, <3>1, AlbumMessage
    <3>2. CASE a > cursor /\ a <= cursor'
      <4>1. cursor' \in NextBatch /\ a \in Messages
        BY <1>4, <3>2, AlbumMessage
      <4>. QED  BY <3>2, <4>1, BatchHasNoGap
    <3>3. CASE a > cursor'
      BY <1>4, <3>3, AlbumMessage
    <3>. QED  BY <1>4, <3>1, <3>2, <3>3, AlbumMessage
  <2>. HIDE DEF batch
  <2>. QED  BY <2>1 DEF UpTo
<1>7. \A r \in Routes : bucket'[r] = IF r \in flushed THEN {}
                                     ELSE IF r \in Touched(batch) THEN bucket[r] \cup (batch \cap Album)
                                     ELSE bucket[r]
  BY <1>3 DEF Sorted
<1>8. \A r \in flushed : r \in Routes /\ r \notin Touched(batch) /\ bucket[r] # {}
  BY <1>3 DEF Sorted, MayFlush
<1>9. \A r : r \in Touched(batch) <=> r \in InScope /\ batch \cap Album # {}
  BY DEF Touched
<1>. HIDE DEF batch
<1>10. ASSUME NEW r \in Routes, r \in InScope, ~AlbumPassed(r)
       PROVE  /\ bucket'[r] = UpTo(cursor') \/ (bucket'[r] = {} /\ UpTo(cursor') = Album)
              /\ r \in flushed => bucket[r] = Album
  <2>1. bucket[r] = UpTo(cursor) \/ (bucket[r] = {} /\ UpTo(cursor) = Album)
    BY <1>10 DEF AlbumsInv, AlbumKept, AlbumWaits
  <2>2. CASE batch \cap Album # {}
    <3>1. r \notin flushed /\ bucket'[r] = bucket[r] \cup (batch \cap Album)
      BY <1>7, <1>8, <1>9, <1>10, <2>2
    <3>2. UpTo(cursor) # Album
      BY <1>2, <1>4, <2>2, AlbumMessage DEF UpTo
    <3>. QED  BY <1>6, <2>1, <3>1, <3>2
  <2>3. CASE batch \cap Album = {}
    <3>1. UpTo(cursor') = UpTo(cursor) /\ bucket'[r] = IF r \in flushed THEN {} ELSE bucket[r]
      BY <1>6, <1>7, <1>9, <2>3
    <3>2. ASSUME r \in flushed PROVE bucket[r] = Album /\ UpTo(cursor) = Album
      <4>1. bucket[r] = UpTo(cursor) /\ UpTo(cursor) # {}
        BY <1>8, <2>1, <3>2
      <4>2. ~(mode = "telethon" /\ Active = {})
        BY <1>10 DEF InScope
      <4>. QED  BY <2>3, <4>1, <4>2, FlushedIsWhole DEF AlbumsInv, batch
    <3>. QED  BY <2>1, <3>1, <3>2
  <2>. QED  BY <2>2, <2>3
<1>11. ASSUME NEW r \in Routes, r \notin InScope PROVE r \notin flushed
  BY <1>8, <1>11 DEF AlbumsInv, AlbumKept
<1>12. ASSUME NEW r \in Routes, NEW row \in ReadyRows(r)'
       PROVE  (row \subseteq Album \/ row \cap Album = {}) /\ (AlbumPassed(r) \/ WholeOrSingle(row))
  <2>1. CASE \E m \in batch \ Album : row = {m}
    BY <2>1 DEF WholeOrSingle
  <2>2. CASE r \in flushed /\ row = bucket[r]
    BY <1>10, <1>11, <2>2 DEF WholeOrSingle, IntakeShape
  <2>. QED  BY <1>1, <1>2, <1>3, <2>1, <2>2, ReadyNext
<1>13. ASSUME NEW r \in Routes PROVE AlbumKept(r)'
  <2>1. \A m \in Lost(r)' : m <= published
    <3>1. Lost(r)' \subseteq Lost(r) \cup batch
      BY <1>1, <1>2, CollectLosesNothing
    <3>. QED  BY <1>2, <3>1 DEF AlbumsInv, AlbumKept
  <2>2. bucket'[r] = {} \/ r \in InScope
    BY <1>7, <1>9 DEF AlbumsInv, AlbumKept
  <2>3. AlbumPassed(r) \/ AlbumWaits(r)'
    BY <1>5, <1>10 DEF AlbumWaits
  <2>4. r \in Active => checkpoint[r] # None
    BY <1>1 DEF AlbumsInv, AlbumKept
  <2>. QED  BY <1>1, <1>5, <1>12, <2>1, <2>2, <2>3, <2>4
            DEF AlbumsInv, AlbumKept, AlbumPassed, Carried, Cuts, WholeOrSingle
<1>14. mode' = "bot" => cursor' # None
  BY <1>1, <1>2, <1>4, BoundIsInt DEF AlbumsInv, None, IntakeShape
<1>. QED  BY <1>1, <1>4, <1>13, <1>14 DEF AlbumsInv, Cuts

LEMMA EnqueueKeepsAlbums ==
  ASSUME IntakeShape, IntakeShape', AlbumsInv, EnqueueSyncMessage
  PROVE  AlbumsInv'
<1>. SUFFICES ASSUME calm' PROVE AlbumsInv'
  BY DEF AlbumsInv
<1>1. PICK item \in ready :
        /\ ready' = ready \ {item}
        /\ IF item[1] \in Active /\ AboveCheckpoint(item[1], item[2])
           THEN /\ rows' = [rows EXCEPT ![item[1]] = Registered(item[1], item[2])]
                /\ status' = [status EXCEPT ![item[1]] = "syncing"]
           ELSE UNCHANGED <<rows, status>>
  BY DEF EnqueueSyncMessage
<1>. DEFINE r == item[1]
            row == item[2]
<1>2. r \in Routes /\ row \in Rows /\ item = <<r, row>>
  BY DEF IntakeShape
<1>3. UNCHANGED <<mode, cursor, published, checkpoint, bucket, pc, calm>> /\ pc = "register"
  BY DEF EnqueueSyncMessage
<1>4. row \in ReadyRows(r) /\ row \subseteq Lost(r) /\ \A x \in Routes : ReadyRows(x)' \subseteq ReadyRows(x)
  <2>1. row \subseteq Lost(r)
    BY <1>2, InLost
  <2>. QED  BY <1>1, <1>2, <2>1 DEF ReadyRows
<1>5. \A x \in Routes : Lost(x)' \subseteq Lost(x)
  <2>1. \A x \in Routes : \A k \in Rows : <<x, k>> \in ready' => <<x, k>> \in ready
    BY <1>1
  <2>. QED  BY <1>3, <2>1, InLost, InLostNext
<1>6. Active' = Active
  BY <1>1, <1>2 DEF Active, IntakeShape
<1>7. InScope' = InScope
  BY <1>3, <1>6 DEF InScope
<1>8. ASSUME NEW x \in Routes, NEW k \in rows'[x]
      PROVE  k \in rows[x] \/ (x = r /\ k = row /\ r \in Active /\ AboveCheckpoint(r, row))
  <2>1. CASE r \in Active /\ AboveCheckpoint(r, row)
    <3>1. rows'[r] = Registered(r, row) /\ \A y \in Routes \ {r} : rows'[y] = rows[y]
      BY <1>1, <1>2, <2>1 DEF IntakeShape
    <3>2. \A l \in Registered(r, row) : l = row \/ l \in rows[r]
      BY <1>2, RegisteredRows
    <3>. QED  BY <1>8, <2>1, <3>1, <3>2
  <2>2. CASE ~(r \in Active /\ AboveCheckpoint(r, row))
    BY <1>1, <1>8, <2>2
  <2>. QED  BY <2>1, <2>2
<1>9. ASSUME r \in Active, AboveCheckpoint(r, row) PROVE WholeOrSingle(row)
  <2>1. RowId(row) > checkpoint[r]
    BY <1>2, <1>3, <1>9 DEF AboveCheckpoint, AlbumsInv, AlbumKept
  <2>2. CASE AlbumPassed(r)
    <3>1. RowId(row) \in Int /\ checkpoint[r] \in Int /\ RowId(row) \in row
      BY <1>2, RowIdOf, MessageIsInt, BoundIsInt DEF IntakeShape
    <3>2. RowId(row) \notin Album
      BY <2>1, <2>2, <3>1 DEF AlbumPassed
    <3>3. row \subseteq Album \/ row \cap Album = {}
      BY <1>2, <1>3, <1>4 DEF AlbumsInv, AlbumKept
    <3>. QED  BY <3>1, <3>2, <3>3 DEF WholeOrSingle
  <2>. QED  BY <1>2, <1>3, <1>4, <2>2 DEF AlbumsInv, AlbumKept
<1>10. ASSUME NEW x \in Routes PROVE AlbumKept(x)'
  <2>1. \A k \in rows'[x] : WholeOrSingle(k)
    BY <1>3, <1>8, <1>9 DEF AlbumsInv, AlbumKept
  <2>2. \A m \in Carried(x)' \cup Lost(x)' : m <= published
    <3>1. ASSUME NEW m \in Carried(x)' PROVE m \in Carried(x) \cup Lost(x)
      <4>1. PICK k \in rows'[x] : m \in k
        BY DEF Carried
      <4>. QED  BY <1>4, <1>8, <4>1 DEF Carried
    <3>. QED  BY <1>3, <1>5, <3>1 DEF AlbumsInv, AlbumKept
  <2>3. AlbumPassed(x)' = AlbumPassed(x) /\ AlbumWaits(x)' = AlbumWaits(x)
    BY <1>3, <1>7 DEF AlbumPassed, AlbumWaits, UpTo
  <2>. QED  BY <1>3, <1>4, <1>6, <1>7, <2>1, <2>2, <2>3 DEF AlbumsInv, AlbumKept, Cuts, WholeOrSingle
<1>. QED  BY <1>3, <1>6, <1>10 DEF AlbumsInv, Cuts

LEMMA DeliverKeepsAlbums ==
  ASSUME IntakeShape, IntakeShape', AlbumsInv, NEW r \in Routes, Deliver(r)
  PROVE  AlbumsInv'
<1>. SUFFICES ASSUME calm' PROVE AlbumsInv'
  BY DEF AlbumsInv
<1>1. PICK row, target : Concluded(r, row, target)
  BY DeliverConcludes
<1>2. UNCHANGED <<mode, cursor, published, status, rows, bucket, ready, pc, calm>>
  BY DEF Deliver
<1>3. /\ row \in Rows /\ row \in rows[r] /\ target \in Int /\ target <= RowId(row)
      /\ checkpoint'[r] = AtLeast(checkpoint[r], target) /\ checkpoint[r] \in Int
      /\ \A x \in Routes \ {r} : checkpoint'[x] = checkpoint[x]
      /\ target = RowId(row) \/ (bucket[r] # {} /\ \A m \in bucket[r] : target < m)
  BY <1>1, BoundIsInt DEF Concluded, LowestRow, Pending, IntakeShape
<1>4. RowId(row) \in row /\ RowId(row) \in Messages /\ RowId(row) \in Int /\ \A m \in row : m <= RowId(row)
  BY <1>3, RowIdOf, MessageIsInt
<1>5. /\ Active' = Active /\ InScope' = InScope
      /\ \A x \in Routes : /\ Carried(x)' = Carried(x) /\ Lost(x)' = Lost(x)
                           /\ ReadyRows(x)' = ReadyRows(x) /\ AlbumWaits(x)' = AlbumWaits(x)
  BY <1>2 DEF Active, InScope, Carried, Lost, ReadyRows, AlbumWaits, UpTo
<1>6. published \in Int /\ cursor \in Int
  BY BoundIsInt DEF IntakeShape
<1>7. RowId(row) <= published
  BY <1>2, <1>3, <1>4 DEF AlbumsInv, AlbumKept, Carried
<1>8. checkpoint[r] <= checkpoint'[r] /\ checkpoint'[r] <= published /\ checkpoint'[r] \in Int
  BY <1>2, <1>3, <1>4, <1>6, <1>7 DEF AtLeast, AlbumsInv, AlbumKept
<1>9. AlbumPassed(r) \/ ~Cuts(target)
  <2>1. CASE target = RowId(row)
    <3>1. CASE row = Album
      BY <1>4, <2>1, <3>1, PassedCutsNothing
    <3>2. CASE row \cap Album = {}
      BY <1>4, <2>1, <3>2, SingleCutsNothing
    <3>. QED  BY <1>2, <1>3, <3>1, <3>2 DEF AlbumsInv, AlbumKept, WholeOrSingle
  <2>2. CASE bucket[r] # {} /\ \A m \in bucket[r] : target < m
    <3>. SUFFICES ASSUME ~AlbumPassed(r), NEW a \in Album, NEW b \in Album, a <= target, target < b
                  PROVE  FALSE
      BY DEF Cuts
    <3>1. bucket[r] = UpTo(cursor)
      BY <1>2, <2>2 DEF AlbumsInv, AlbumKept, AlbumWaits
    <3>2. PICK m \in Album : m <= cursor /\ target < m
      BY <2>2, <3>1 DEF UpTo
    <3>3. a \in UpTo(cursor)
      BY <1>3, <1>6, <3>2, AlbumMessage DEF UpTo
    <3>. QED  BY <1>3, <2>2, <3>1, <3>3, AlbumMessage
  <2>. QED  BY <1>3, <2>1, <2>2
<1>10. ~Cuts(checkpoint'[r])
  <2>1. CASE AlbumPassed(r)
    BY <1>3, <1>8, <2>1, PassedCutsNothing, AlbumMessage DEF AlbumPassed
  <2>2. CASE ~Cuts(target)
    BY <1>2, <1>3, <2>2 DEF AtLeast, AlbumsInv, AlbumKept
  <2>. QED  BY <1>9, <2>1, <2>2
<1>11. ASSUME NEW x \in Routes PROVE AlbumKept(x)'
  <2>1. AlbumPassed(x) => AlbumPassed(x)'
    <3>1. CASE x = r
      BY <1>3, <1>8, <3>1, AlbumMessage DEF AlbumPassed
    <3>2. CASE x # r
      BY <1>3, <3>2 DEF AlbumPassed
    <3>. QED  BY <3>1, <3>2
  <2>2. checkpoint'[x] <= published /\ ~Cuts(checkpoint'[x])
    BY <1>2, <1>3, <1>8, <1>10 DEF AlbumsInv, AlbumKept
  <2>3. x \in Active => checkpoint'[x] # None \/ pc = "baseline"
    <3>1. CASE x = r
      BY <3>1, <1>1, <1>3 DEF Concluded, AtLeast, None
    <3>2. CASE x # r
      BY <1>2, <1>3, <3>2 DEF AlbumsInv, AlbumKept
    <3>. QED  BY <3>1, <3>2
  <2>. QED  BY <1>2, <1>5, <2>1, <2>2, <2>3 DEF AlbumsInv, AlbumKept, Cuts, WholeOrSingle
<1>. QED  BY <1>2, <1>5, <1>11 DEF AlbumsInv, Cuts

LEMMA StepAlbumsInv ==
  ASSUME IntakeShape, AlbumsInv, [IntakeNext]_intakeVars
  PROVE  AlbumsInv'
<1>1. IntakeShape'
  BY StepIntakeShape
<1>2. CASE UNCHANGED intakeVars
  <2>1. Active' = Active
    BY <1>2 DEF intakeVars, Active
  <2>. QED  BY <1>2, <2>1, QuietKeepsAlbums DEF intakeVars
<1>3. CASE EndRegistering \/ EndDrain \/ AutoActivate
  <2>1. /\ UNCHANGED <<mode, cursor, checkpoint, rows, bucket, ready, published, calm>>
        /\ pc # "baseline" /\ pc' # "poll"
    BY <1>3 DEF EndRegistering, EndDrain, AutoActivate
  <2>2. \A x \in Routes : status'[x] # "deactive" <=> status[x] # "deactive"
    BY <1>3 DEF EndRegistering, EndDrain, AutoActivate, CaughtUp, IntakeShape
  <2>3. Active' = Active
    BY <2>2 DEF Active
  <2>. QED  BY <2>1, <2>3, QuietKeepsAlbums
<1>4. CASE \/ PollBreaks \/ PollTimesOut \/ GetUpdatesFails \/ RunOnceTimesOut
           \/ (\E r \in Routes : StopRoute(r) \/ StartRoute(r))
  BY <1>4 DEF PollBreaks, PollTimesOut, GetUpdatesFails, RunOnceTimesOut, StopRoute, StartRoute, AlbumsInv
<1>5. CASE Poll
  <2>1. calm' = calm
    BY <1>5 DEF Poll
  <2>2. CASE calm
    BY <1>1, <1>5, <2>2, PollKeepsAlbums
  <2>3. CASE ~calm
    BY <2>1, <2>3 DEF AlbumsInv
  <2>. QED  BY <2>2, <2>3
<1>6. CASE FirstPoll
  BY <1>6 DEF FirstPoll, AlbumsInv
<1>. QED  BY <1>1, <1>2, <1>3, <1>4, <1>5, <1>6, PublishKeepsAlbums, BaselineKeepsAlbums, PrimeKeepsAlbums,
             EnqueueKeepsAlbums, DeliverKeepsAlbums, RestartKeepsAlbums
          DEF IntakeNext

(* A row of the ledger carries all of an album or nothing of it, as long as nothing
   has happened that may cut one: _flush_ready_media_groups never takes a bucket that
   the next batch would still add to, whatever poll_batch_size is. *)
THEOREM AlbumsAreRegisteredWhole == IntakeSpec => []AlbumsAreWhole
<1>1. IntakeInit => IntakeShape /\ AlbumsInv
  BY InitIntakeShape, InitAlbumsInv
<1>2. IntakeShape /\ AlbumsInv /\ [IntakeNext]_intakeVars => (IntakeShape /\ AlbumsInv)'
  BY StepIntakeShape, StepAlbumsInv
<1>3. AlbumsInv => AlbumsAreWhole
  BY DEF AlbumsInv, AlbumKept, WholeOrSingle, AlbumsAreWhole
<1>. QED  BY <1>1, <1>2, <1>3, PTL DEF IntakeSpec
===============================================================================
