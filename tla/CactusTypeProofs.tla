-------------------------- MODULE CactusTypeProofs --------------------------
(***************************************************************************)
(* Proofs about module Cactus, first part: facts about its queues and row  *)
(* maps, the inductive invariant Inv, and that every step keeps TypeOK.    *)
(*                                                                         *)
(* Inv is the conjunction of four of the invariants, RegisterUnused and    *)
(* NeighbourWatched. They need one another: an RFMab mitigates the right   *)
(* counter because of AlertProtocol, and front() is safe because of        *)
(* DrainConsistent. CounterCoversActs needs one rank and is added to Inv   *)
(* in CactusCoverProofs.                                                   *)
(***************************************************************************)
EXTENDS Cactus, SequenceTheorems, TLAPS

\* No rank is queued twice.
NoDup(q) == \A j, k \in DOMAIN q : q[j] = q[k] => j = k

\* Erasing one element of a queue: what is left, and in which order.
LEMMA RemoveAtType ==
  ASSUME NEW S, NEW q \in Seq(S), NEW k \in 1 .. Len(q)
  PROVE  /\ RemoveAt(q, k) \in Seq(S)
         /\ Len(RemoveAt(q, k)) = Len(q) - 1
         /\ \A j \in 1 .. Len(q) - 1 :
              RemoveAt(q, k)[j] = IF j < k THEN q[j] ELSE q[j + 1]
<1> DEFINE left == SubSeq(q, 1, k - 1)
           right == SubSeq(q, k + 1, Len(q))
<1>1. /\ left \in Seq(S) /\ Len(left) = k - 1
      /\ \A i \in 1 .. k - 1 : left[i] = q[i]
  BY SubSeqProperties
<1>2. /\ right \in Seq(S) /\ Len(right) = Len(q) - k
      /\ \A i \in 1 .. Len(q) - k : right[i] = q[k + i]
  BY SubSeqProperties
<1> HIDE DEF left, right
<1>3. left \o right \in Seq(S)
  BY <1>1, <1>2, ConcatProperties
<1>4. Len(left \o right) = Len(left) + Len(right)
  BY <1>1, <1>2, ConcatProperties, Zenon
<1>5. \A i \in 1 .. Len(left) + Len(right) : (left \o right)[i] =
         IF i <= Len(left) THEN left[i] ELSE right[i - Len(left)]
  BY <1>1, <1>2, ConcatProperties
<1>6. RemoveAt(q, k) = left \o right
  BY DEF RemoveAt, left, right
<1>7. ASSUME NEW j \in 1 .. Len(q) - 1
      PROVE  (left \o right)[j] = IF j < k THEN q[j] ELSE q[j + 1]
  <2>1. CASE j < k
    BY <2>1, <1>1, <1>2, <1>5
  <2>2. CASE ~(j < k)
    <3>1. j - (k - 1) \in 1 .. Len(q) - k
      BY <2>2
    <3>2. (left \o right)[j] = right[j - (k - 1)]
      BY <2>2, <1>1, <1>2, <1>5
    <3> QED
      BY <3>1, <3>2, <2>2, <1>2
  <2> QED
    BY <2>1, <2>2, Zenon
<1>8. Len(left \o right) = Len(q) - 1
  BY <1>1, <1>2, <1>4
<1> QED
  BY <1>3, <1>6, <1>7, <1>8

\* The erase loop of RankNeedRFM and RankNeedRefresh removes position k when
\* no earlier entry matches.
LEMMA RemoveUnique ==
  ASSUME NEW S, NEW q \in Seq(S), NEW k \in 1 .. Len(q),
         \A j \in 1 .. Len(q) : q[j] = q[k] => k <= j
  PROVE  RemoveRank(q, q[k]) = RemoveAt(q, k)
<1> DEFINE First(i) == q[i] = q[k] /\ \A j \in DOMAIN q : q[j] = q[k] => i <= j
<1>1. First(k) /\ k \in DOMAIN q
  OBVIOUS
<1>2. \A i \in DOMAIN q : First(i) => i = k
  BY <1>1
<1>3. (CHOOSE i \in DOMAIN q : First(i)) = k
  <2> HIDE DEF First
  <2> QED
    BY <1>1, <1>2
<1> QED
  BY <1>1, <1>3 DEF RemoveRank, InQueue

\* Without duplicates, erasing a rank takes exactly that rank out of rfm_q_.
LEMMA RemoveRankType ==
  ASSUME NEW q \in Seq(Ranks), NEW r \in Ranks, NoDup(q)
  PROVE  /\ RemoveRank(q, r) \in Seq(Ranks)
         /\ NoDup(RemoveRank(q, r))
         /\ \A x \in Ranks :
              InQueue(RemoveRank(q, r), x) <=> InQueue(q, x) /\ x # r
<1>1. CASE ~InQueue(q, r)
  <2>1. RemoveRank(q, r) = q
    BY <1>1 DEF RemoveRank
  <2> QED
    BY <1>1, <2>1
<1>2. CASE InQueue(q, r)
  <2>1. PICK k \in 1 .. Len(q) : q[k] = r
    BY <1>2 DEF InQueue
  <2> DEFINE p == RemoveAt(q, k)
  <2>2. RemoveRank(q, r) = p
    BY <2>1, RemoveUnique DEF NoDup
  <2>3. /\ p \in Seq(Ranks) /\ Len(p) = Len(q) - 1
        /\ \A j \in 1 .. Len(q) - 1 : p[j] = IF j < k THEN q[j] ELSE q[j + 1]
    BY RemoveAtType
  <2> HIDE DEF p
  <2>4. NoDup(p)
    <3> SUFFICES ASSUME NEW i \in 1 .. Len(q) - 1, NEW j \in 1 .. Len(q) - 1,
                        p[i] = p[j]
                 PROVE  i = j
      BY <2>3 DEF NoDup
    <3> DEFINE at(n) == IF n < k THEN n ELSE n + 1
    <3>1. at(i) \in DOMAIN q /\ at(j) \in DOMAIN q
      OBVIOUS
    <3>2. p[i] = q[at(i)] /\ p[j] = q[at(j)]
      BY <2>3
    <3>3. at(i) = at(j)
      BY <3>1, <3>2, Zenon DEF NoDup
    <3> QED
      BY <3>3
  <2>5. ASSUME NEW x \in Ranks
        PROVE  InQueue(p, x) <=> InQueue(q, x) /\ x # r
    <3>1. ASSUME InQueue(p, x) PROVE InQueue(q, x) /\ x # r
      <4>1. PICK j \in 1 .. Len(q) - 1 : p[j] = x
        BY <3>1, <2>3 DEF InQueue
      <4>2. CASE j < k
        BY <4>1, <4>2, <2>1, <2>3 DEF InQueue, NoDup
      <4>3. CASE ~(j < k)
        <5>1. j + 1 \in DOMAIN q /\ q[j + 1] = x /\ j + 1 # k
          BY <4>1, <4>3, <2>3
        <5> QED
          BY <5>1, <2>1 DEF InQueue, NoDup
      <4> QED
        BY <4>2, <4>3
    <3>2. ASSUME InQueue(q, x), x # r PROVE InQueue(p, x)
      <4>1. PICK j \in 1 .. Len(q) : q[j] = x
        BY <3>2 DEF InQueue
      <4>2. CASE j < k
        <5>1. j \in DOMAIN p /\ p[j] = x
          BY <4>1, <4>2, <2>3
        <5> QED
          BY <5>1 DEF InQueue
      <4>3. CASE j > k
        <5>1. j - 1 \in DOMAIN p /\ p[j - 1] = x
          BY <4>1, <4>3, <2>3
        <5> QED
          BY <5>1 DEF InQueue
      <4> QED
        BY <4>1, <4>2, <4>3, <3>2, <2>1
    <3> QED
      BY <3>1, <3>2
  <2> QED
    BY <2>2, <2>3, <2>4, <2>5
<1> QED
  BY <1>1, <1>2

\* The front of a non-empty queue is a rank, and may be erased.
LEMMA RemoveHeadType ==
  ASSUME NEW q \in Seq(Ranks), q # << >>
  PROVE  /\ Head(q) \in Ranks /\ InQueue(q, Head(q))
         /\ RemoveRank(q, Head(q)) \in Seq(Ranks)
<1>1. 1 \in 1 .. Len(q) /\ Head(q) = q[1] /\ q[1] \in Ranks
  OBVIOUS
<1>2. RemoveRank(q, q[1]) = RemoveAt(q, 1)
  BY <1>1, RemoveUnique
<1> QED
  BY <1>1, <1>2, RemoveAtType DEF InQueue

\* RankNeedRFM(rank, true) adds the rank if it is missing and never moves the
\* front of rfm_q_.
LEMMA AddRFMType ==
  ASSUME NEW q \in Seq(Ranks), NEW r \in Ranks, NoDup(q)
  PROVE  /\ AddRFM(q, r) \in Seq(Ranks)
         /\ NoDup(AddRFM(q, r))
         /\ \A x \in Ranks : InQueue(AddRFM(q, r), x) <=> InQueue(q, x) \/ x = r
         /\ q # << >> => AddRFM(q, r) # << >> /\ Head(AddRFM(q, r)) = Head(q)
<1>1. CASE InQueue(q, r)
  BY <1>1 DEF AddRFM
<1>2. CASE ~InQueue(q, r)
  <2>1. AddRFM(q, r) = Append(q, r)
    BY <1>2 DEF AddRFM
  <2>2. /\ Append(q, r) \in Seq(Ranks) /\ Len(Append(q, r)) = Len(q) + 1
        /\ \A j \in 1 .. Len(q) : Append(q, r)[j] = q[j]
        /\ Append(q, r)[Len(q) + 1] = r
    OBVIOUS
  <2>3. NoDup(Append(q, r))
    BY <1>2, <2>2 DEF NoDup, InQueue
  <2>4. \A x \in Ranks : InQueue(Append(q, r), x) <=> InQueue(q, x) \/ x = r
    BY <2>2 DEF InQueue
  <2>5. q # << >> => Append(q, r) # << >> /\ Head(Append(q, r)) = Head(q)
    BY <2>2
  <2> QED
    BY <2>1, <2>2, <2>3, <2>4, <2>5
<1> QED
  BY <1>1, <1>2

\* get_cactus_idx and get_cactus_row_idx are inverse to each other, because
\* the rows are a permutation.
LEMMA IdxOfRow ==
  ASSUME NEW r \in Ranks, NEW b \in Banks, NEW row \in Rows
  PROVE  /\ get_cactus_idx(r, b, row) \in Rows
         /\ \A i \in Rows :
              get_cactus_idx(r, b, row) = i <=> get_cactus_row_idx(r, b, i) = row
BY PermAssumption DEF get_cactus_idx, get_cactus_row_idx

\* BankState::cactus_mitig refreshes every row at distance one or two.
LEMMA VictimsRefreshed ==
  ASSUME NEW row \in Rows
  PROVE  Victims(row) \subseteq RefreshedRows(row)
BY SizeAssumption DEF Victims, RefreshedRows, Rows

\* There is a first rank.
LEMMA RankZero == 0 \in Ranks
BY SizeAssumption DEF Ranks

\* The initial values lie within the bounds of the counters.
LEMMA BoundTypes ==
  /\ 0 \in 0 .. TABO /\ 0 \in 0 .. ABODelay /\ 0 \in 0 .. MaxStall
  /\ 0 \in 0 .. TrefInterval - 1 /\ 0 \in 0 .. RefChunks - 1
  /\ 0 \in 0 .. RefInterval /\ 1 \in 0 .. RefInterval
BY SizeAssumption, ChunkAssumption

\* A chunk of cactus_refresh never contains the marker -1.
LEMMA ResetRangeType ==
  ASSUME ref_idx \in 0 .. RefChunks - 1
  PROVE  NoIdx \notin ResetRange
<1>1. /\ NumRows \div RefChunks \in Nat /\ RefChunks \div Factor \in Nat
  BY SizeAssumption, ChunkAssumption
<1>2. RefChunks \div Factor > 0
  BY ChunkAssumption
<1>3. ref_idx % (RefChunks \div Factor) \in Nat
  BY <1>1, <1>2
<1>4. Factor * (NumRows \div RefChunks) \in Nat
  BY <1>1, ChunkAssumption
<1>5. \A x, y \in Nat : x * y \in Nat
  OBVIOUS
<1>6. (ref_idx % (RefChunks \div Factor)) * (Factor * (NumRows \div RefChunks)) \in Nat
  BY <1>3, <1>4, <1>5
<1> QED
  BY <1>6 DEF ResetRange, NoIdx

\* There is a first row.
LEMMA RowZero == 0 \in Rows
BY SizeAssumption DEF Rows

HistoryType == [rank : Ranks, bank : Banks, row : Rows, victim : Rows, count : Nat]

\* Outside tref_mode 1 nothing ever writes the register.
RegisterUnused ==
  TrefMode # "max" => \A r \in Ranks : tref_max_counter_idx[r] = NoIdx

\* The history is about a row and one of its neighbours.
NeighbourWatched == acts.victim \in Victims(acts.row)

Inv == /\ TypeOK /\ DrainConsistent /\ AlertProtocol
       /\ MaxOfTouched /\ RegisterUnused /\ NeighbourWatched

\* The inductive invariant holds of the state the constructors build.
LEMMA InitInv == Init => Inv
<1> SUFFICES ASSUME Init PROVE Inv
  OBVIOUS
<1>1. TypeOK
  <2>1. /\ phase \in {"refresh", "alert", "command"} /\ loop_rank \in Ranks
        /\ refresh_q \in Seq(Ranks) /\ rfm_q \in Seq(Ranks)
        /\ ref_q_indices \subseteq Ranks /\ rfm_q_indices \subseteq Ranks
        /\ stall \in 0 .. MaxStall /\ ref_idx \in 0 .. RefChunks - 1
        /\ next_rank \in Ranks /\ ref_clk \in 0 .. RefInterval
    BY RankZero, BoundTypes DEF Init
  <2>5. is_in_ref \in BOOLEAN /\ is_in_rfm \in BOOLEAN
    BY Zenon DEF Init
  <2>2. /\ cactus \in [Ranks -> [Rows -> Nat]]
        /\ cactus_prev \in [Ranks -> [Rows -> Nat]]
    BY DEF Init
  <2>6. acts \in HistoryType /\ bank_ref_idx \in [Ranks -> Rows]
    BY RowZero DEF Init, Histories, HistoryType
  <2>3. /\ pending_counter_idx \in [Ranks -> Rows \cup {NoIdx}]
        /\ tref_max_counter_idx \in [Ranks -> Rows \cup {NoIdx}]
        /\ touched \in [Ranks -> SUBSET Rows]
        /\ open \in [Ranks -> SUBSET Banks]
    BY DEF Init
  <2>4. /\ alert_pending \in [Ranks -> BOOLEAN]
        /\ rfm_inflight \in [Ranks -> BOOLEAN]
        /\ alert_age \in [Ranks -> 0 .. TABO]
        /\ acts_since_rfm \in [Ranks -> 0 .. ABODelay]
        /\ tref_refab_count \in [Ranks -> 0 .. TrefInterval - 1]
    BY BoundTypes DEF Init
  <2> QED
    BY <2>1, <2>2, <2>3, <2>4, <2>5, <2>6, Zenon DEF TypeOK, HistoryType
<1>2. DrainConsistent /\ AlertProtocol
  BY DEF Init, DrainConsistent, AlertProtocol, InQueue, NoIdx
<1>3. NeighbourWatched
  BY DEF Init, Histories, NeighbourWatched
<1>4. MaxOfTouched
  BY DEF Init, MaxOfTouched, NoIdx
<1>5. RegisterUnused
  BY DEF Init, RegisterUnused
<1> QED
  BY <1>1, <1>2, <1>3, <1>4, <1>5 DEF Inv

\* FinishRFM never takes the front of an empty queue.
LEMMA HeadRFM ==
  ASSUME TypeOK, DrainConsistent, MustFinishRFM
  PROVE  /\ rfm_q # << >> /\ Head(rfm_q) \in Ranks
         /\ InQueue(rfm_q, Head(rfm_q)) /\ ~is_in_ref
BY RemoveHeadType DEF TypeOK, DrainConsistent, MustFinishRFM

\* FinishRefresh never takes the front of an empty queue.
LEMMA HeadRefresh ==
  ASSUME TypeOK, DrainConsistent, MustFinishRefresh
  PROVE  /\ refresh_q # << >> /\ Head(refresh_q) \in Ranks
         /\ RemoveRank(refresh_q, Head(refresh_q)) \in Seq(Ranks) /\ ~is_in_rfm
BY RemoveHeadType DEF TypeOK, DrainConsistent, MustFinishRefresh

\* rfm_q_ holds ranks, each at most once.
LEMMA RFMQueueFacts ==
  ASSUME TypeOK, AlertProtocol
  PROVE  rfm_q \in Seq(Ranks) /\ NoDup(rfm_q)
BY DEF TypeOK, AlertProtocol, NoDup

FlagsOK == is_in_ref \in BOOLEAN /\ is_in_rfm \in BOOLEAN

QueuesOK ==
  /\ phase \in {"refresh", "alert", "command"} /\ loop_rank \in Ranks
  /\ refresh_q \in Seq(Ranks) /\ rfm_q \in Seq(Ranks)
  /\ ref_q_indices \subseteq Ranks /\ rfm_q_indices \subseteq Ranks
  /\ stall \in 0 .. MaxStall
  /\ ref_idx \in 0 .. RefChunks - 1
  /\ next_rank \in Ranks /\ ref_clk \in 0 .. RefInterval

CountersOK ==
  /\ cactus \in [Ranks -> [Rows -> Nat]]
  /\ cactus_prev \in [Ranks -> [Rows -> Nat]]

HistoryOK == acts \in HistoryType /\ bank_ref_idx \in [Ranks -> Rows]

RegistersOK ==
  /\ pending_counter_idx \in [Ranks -> Rows \cup {NoIdx}]
  /\ tref_max_counter_idx \in [Ranks -> Rows \cup {NoIdx}]
  /\ touched \in [Ranks -> SUBSET Rows]
  /\ open \in [Ranks -> SUBSET Banks]
  /\ alert_pending \in [Ranks -> BOOLEAN]
  /\ rfm_inflight \in [Ranks -> BOOLEAN]
  /\ alert_age \in [Ranks -> 0 .. TABO]
  /\ acts_since_rfm \in [Ranks -> 0 .. ABODelay]
  /\ tref_refab_count \in [Ranks -> 0 .. TrefInterval - 1]

\* The type invariant, cut into the parts the proofs below treat in turn.
LEMMA TypeParts ==
  TypeOK <=> FlagsOK /\ QueuesOK /\ CountersOK /\ HistoryOK /\ RegistersOK
BY Zenon DEF TypeOK, FlagsOK, QueuesOK, CountersOK, HistoryOK, HistoryType, RegistersOK

\* is_in_ref_ and is_in_rfm_ stay Boolean (a part of TypeOK).
LEMMA FlagsStep ==
  ASSUME FlagsOK, [Next]_vars
  PROVE  FlagsOK'
<1> USE DEF FlagsOK
<1>1. CASE RefreshClockTick
  BY <1>1, Zenon DEF RefreshClockTick, drainVars
<1>2. CASE ChannelStateClockTick
  BY <1>2, Zenon DEF ChannelStateClockTick, drainVars
<1>3. CASE IssuePREab
  BY <1>3, Zenon DEF IssuePREab, BeginRFM, BeginRefresh
<1>4. CASE IssueRFMab
  BY <1>4, Zenon DEF IssueRFMab
<1>5. CASE IssueREFab
  BY <1>5, Zenon DEF IssueREFab
<1>6. CASE DrainNotReady
  BY <1>6, Zenon DEF DrainNotReady, BeginRFM, BeginRefresh, drainVars
<1>7. CASE UNCHANGED vars
  BY <1>7, Zenon DEF vars, drainVars
<1>8. ASSUME NEW r \in Ranks, NEW b \in Banks, NEW row \in Rows,
             IssueActivate(r, b, row)
      PROVE  FlagsOK'
  BY <1>6, <1>8, Zenon DEF IssueActivate
<1>9. ASSUME NEW r \in Ranks, NEW b \in Banks, IssuePrecharge(r, b)
      PROVE  FlagsOK'
  BY <1>6, <1>9, Zenon DEF IssuePrecharge
<1>10. CASE IssueOther
  BY <1>6, <1>10, Zenon DEF IssueOther
<1> QED
  BY <1>1, <1>2, <1>3, <1>4, <1>5, <1>7, <1>8, <1>9, <1>10 DEF Next

\* What an RFMab does in a state of Inv: it always has a counter to mitigate.
\* What an RFMab does: there always is an alert it belongs to, so the
\* branches of UpdateState that find none are never taken.
LEMMA RFMabEffect ==
  ASSUME Inv, IssueRFMab
  PROVE  \E r \in Ranks, i \in Rows :
           /\ rfm_q # << >> /\ r = Head(rfm_q) /\ i = pending_counter_idx[r]
           /\ rfm_inflight[r] /\ ~alert_pending[r]
           /\ rfm_q' = RemoveRank(rfm_q, r)
           /\ cactus_prev' = [cactus_prev EXCEPT ![r][i] = cactus[r][i]]
           /\ cactus' = [cactus EXCEPT ![r][i] = 0]
           /\ acts' = ActsRefreshed(MitigReaches(r, i))
           /\ pending_counter_idx' = [pending_counter_idx EXCEPT ![r] = NoIdx]
           /\ rfm_inflight' = [rfm_inflight EXCEPT ![r] = FALSE]
           /\ acts_since_rfm' = [acts_since_rfm EXCEPT ![r] = 0]
           /\ IF tref_max_counter_idx[r] = i
              THEN /\ tref_max_counter_idx' = [tref_max_counter_idx EXCEPT ![r] = NoIdx]
                   /\ touched' = [touched EXCEPT ![r] = {}]
              ELSE UNCHANGED <<tref_max_counter_idx, touched>>
<1> DEFINE r == Head(rfm_q)
           i == pending_counter_idx[r]
<1>1. rfm_q # << >> /\ r \in Ranks /\ InQueue(rfm_q, r)
  BY HeadRFM DEF Inv, IssueRFMab
<1>2. rfm_inflight[r] /\ ~alert_pending[r] /\ i # NoIdx
  BY <1>1 DEF Inv, AlertProtocol
<1>3. i \in Rows
  BY <1>1, <1>2, Zenon DEF Inv, TypeOK
<1> QED
  BY <1>1, <1>2, <1>3 DEF IssueRFMab

\* The queues, clocks and held-back sets keep their types.
LEMMA QueuesStep ==
  ASSUME Inv, [Next]_vars
  PROVE  QueuesOK'
<1> USE DEF QueuesOK
<1>0. TypeOK /\ DrainConsistent /\ AlertProtocol /\ QueuesOK
  BY TypeParts DEF Inv
<1>1. CASE RefreshClockTick
  <2>1. IterateNext \in Ranks
    BY <1>0, SizeAssumption DEF Ranks, IterateNext
  <2>2. ref_clk' \in 0 .. RefInterval
    BY <1>0, <1>1, SizeAssumption DEF RefreshClockTick
  <2>3. refresh_q' \in Seq(Ranks) /\ next_rank' \in Ranks
    <3>1. CASE ref_clk = RefInterval
      BY <1>0, <1>1, <2>1, <3>1 DEF RefreshClockTick
    <3>2. CASE ref_clk # RefInterval
      BY <1>0, <1>1, <3>2 DEF RefreshClockTick
    <3> QED
      BY <3>1, <3>2
  <2>4. /\ phase' \in {"refresh", "alert", "command"} /\ loop_rank' \in Ranks
        /\ UNCHANGED <<rfm_q, ref_q_indices, rfm_q_indices, stall, ref_idx>>
    BY <1>1, RankZero DEF RefreshClockTick, trackerVars, drainVars
  <2> QED
    BY <1>0, <2>2, <2>3, <2>4
<1>2. CASE ChannelStateClockTick
  <2>1. (loop_rank + 1) % NumRanks \in Ranks
    BY <1>0, SizeAssumption DEF Ranks
  <2>2. AddRFM(rfm_q, loop_rank) \in Seq(Ranks)
    BY <1>0, RFMQueueFacts, AddRFMType
  <2> QED
    BY <1>0, <1>2, <2>1, <2>2
       DEF ChannelStateClockTick, drainVars, refreshVars
<1>3. CASE IssuePREab
  BY <1>0, <1>3, HeadRFM, HeadRefresh, BoundTypes, SMTT(30)
     DEF IssuePREab, CommandStep, BeginRFM, BeginRefresh, trackerVars, refreshVars
<1>4. CASE IssueRFMab
  <2>1. RemoveRank(rfm_q, Head(rfm_q)) \in Seq(Ranks)
    BY <1>0, <1>4, HeadRFM, RemoveHeadType, SMTT(30) DEF IssueRFMab
  <2> QED
    BY <1>0, <1>4, <2>1, BoundTypes DEF IssueRFMab, CommandStep, refreshVars
<1>5. CASE IssueREFab
  <2>1. /\ Head(refresh_q) \in Ranks
        /\ RemoveRank(refresh_q, Head(refresh_q)) \in Seq(Ranks)
    BY <1>0, <1>5, HeadRefresh DEF IssueREFab
  <2>2. RemoveRank(rfm_q, Head(refresh_q)) \in Seq(Ranks)
    BY <1>0, <2>1, RFMQueueFacts, RemoveRankType, Zenon
  <2>3. (ref_idx + 1) % RefChunks \in 0 .. RefChunks - 1
    BY <1>0, ChunkAssumption, SMTT(30)
  <2>4. rfm_q' \in Seq(Ranks) /\ refresh_q' \in Seq(Ranks)
    BY <1>0, <1>5, <2>1, <2>2 DEF IssueREFab
  <2> QED
    BY <1>0, <1>5, <2>3, <2>4, BoundTypes, SMTT(30) DEF IssueREFab, CommandStep, refreshVars
<1>6. ASSUME DrainNotReady
      PROVE  /\ ref_q_indices' \subseteq Ranks /\ rfm_q_indices' \subseteq Ranks
             /\ stall' \in 0 .. MaxStall
  BY <1>0, <1>6, HeadRFM, HeadRefresh, SizeAssumption
     DEF DrainNotReady, BeginRFM, BeginRefresh, drainVars
<1>7. CASE UNCHANGED vars
  BY <1>0, <1>7, SMTT(30) DEF vars, drainVars, trackerVars, refreshVars
<1>8. ASSUME NEW r \in Ranks, NEW b \in Banks, NEW row \in Rows,
             IssueActivate(r, b, row)
      PROVE  QueuesOK'
  BY <1>0, <1>6, <1>8 DEF IssueActivate, CommandStep, refreshVars
<1>9. ASSUME NEW r \in Ranks, NEW b \in Banks, IssuePrecharge(r, b)
      PROVE  QueuesOK'
  BY <1>0, <1>6, <1>9 DEF IssuePrecharge, CommandStep, trackerVars, refreshVars
<1>10. CASE IssueOther
  BY <1>0, <1>6, <1>10, SMTT(30) DEF IssueOther, CommandStep, trackerVars, refreshVars
<1> QED
  BY <1>1, <1>2, <1>3, <1>4, <1>5, <1>7, <1>8, <1>9, <1>10 DEF Next

\* The counters keep their types.
LEMMA CountersStep ==
  ASSUME Inv, [Next]_vars
  PROVE  CountersOK'
<1> USE DEF CountersOK
<1>0. TypeOK /\ DrainConsistent /\ CountersOK /\ RegistersOK
  BY TypeParts DEF Inv
<1>1. CASE RefreshClockTick
  BY <1>0, <1>1 DEF RefreshClockTick, trackerVars
<1>2. CASE ChannelStateClockTick
  BY <1>0, <1>2 DEF ChannelStateClockTick
<1>3. CASE IssuePREab
  BY <1>0, <1>3 DEF IssuePREab, trackerVars
<1>4. CASE IssueRFMab
  <2>1. PICK r \in Ranks, i \in Rows :
           /\ cactus_prev' = [cactus_prev EXCEPT ![r][i] = cactus[r][i]]
           /\ cactus' = [cactus EXCEPT ![r][i] = 0]
    BY <1>4, RFMabEffect
  <2> QED
    BY <1>0, <2>1
<1>5. CASE IssueREFab
  <2> DEFINE r == Head(refresh_q)
  <2>1. r \in Ranks
    BY <1>0, <1>5, HeadRefresh DEF IssueREFab
  <2>2. CurAfterReset(r) \in [Rows -> Nat] /\ PrevAfterReset(r) \in [Rows -> Nat]
    BY <1>0, <2>1 DEF CurAfterReset, PrevAfterReset
  <2> DEFINE t == TrefTarget(r)
             f == [i \in Rows |-> IF i = t THEN 0 ELSE CurAfterReset(r)[i]]
             g == [i \in Rows |-> IF i = t THEN CurAfterReset(r)[i]
                                  ELSE PrevAfterReset(r)[i]]
  <2>a. cactus' = [cactus EXCEPT ![r] = f]
    BY <1>5, ZenonT(40) DEF IssueREFab
  <2>b. cactus_prev' = [cactus_prev EXCEPT ![r] = g]
    BY <1>5, ZenonT(40) DEF IssueREFab
  <2>d. f \in [Rows -> Nat] /\ g \in [Rows -> Nat]
    <3> HIDE DEF t, r
    <3> QED
      BY <2>2, SMTT(30) DEF t
  <2> HIDE DEF r, t, f, g
  <2>4. cactus' \in [Ranks -> [Rows -> Nat]]
    BY <1>0, <2>1, <2>a, <2>d
  <2>5. cactus_prev' \in [Ranks -> [Rows -> Nat]]
    BY <1>0, <2>1, <2>b, <2>d
  <2> QED
    BY <2>4, <2>5
<1>7. CASE UNCHANGED vars
  BY <1>0, <1>7, SMTT(30) DEF vars, trackerVars
<1>8. ASSUME NEW r \in Ranks, NEW b \in Banks, NEW row \in Rows,
             IssueActivate(r, b, row)
      PROVE  CountersOK'
  BY <1>0, <1>8, IdxOfRow DEF IssueActivate
<1>9. ASSUME NEW r \in Ranks, NEW b \in Banks, IssuePrecharge(r, b)
      PROVE  CountersOK'
  BY <1>0, <1>9 DEF IssuePrecharge, trackerVars
<1>10. CASE IssueOther
  BY <1>0, <1>10 DEF IssueOther, trackerVars
<1> QED
  BY <1>1, <1>2, <1>3, <1>4, <1>5, <1>7, <1>8, <1>9, <1>10 DEF Next

\* What a step may do to the history: begin it again or count one activation.
\* The row and the neighbour it is about stay the same.
LEMMA HistoryStep ==
  ASSUME Inv, [Next]_vars
  PROVE  /\ HistoryOK' /\ NeighbourWatched'
         /\ \A f \in {"rank", "bank", "row", "victim"} : acts'[f] = acts[f]
<1>0. TypeOK /\ DrainConsistent /\ HistoryOK /\ NeighbourWatched
  BY TypeParts DEF Inv
<1> DEFINE Kept == bank_ref_idx' \in [Ranks -> Rows]
           Goal == /\ HistoryOK' /\ NeighbourWatched'
                   /\ \A f \in {"rank", "bank", "row", "victim"} : acts'[f] = acts[f]
<1>01. ASSUME NEW n \in Nat, acts' = [acts EXCEPT !.count = n], Kept
       PROVE  Goal
  BY <1>0, <1>01 DEF HistoryOK, HistoryType, NeighbourWatched
<1>02. ASSUME acts' = acts, Kept
       PROVE  Goal
  BY <1>0, <1>02 DEF HistoryOK, NeighbourWatched
<1>03. ASSUME NEW reached, acts' = ActsRefreshed(reached), Kept
       PROVE  Goal
  BY <1>01, <1>02, <1>03 DEF ActsRefreshed
<1>04. ASSUME UNCHANGED <<acts, bank_ref_idx>>
       PROVE  Goal
  BY <1>0, <1>02, <1>04 DEF HistoryOK
<1> SUFFICES Goal
  BY DEF Goal
<1> HIDE DEF Kept, Goal
<1>1. CASE RefreshClockTick
  BY <1>1, <1>04, Zenon DEF RefreshClockTick, trackerVars
<1>2. CASE ChannelStateClockTick
  BY <1>2, <1>04, Zenon DEF ChannelStateClockTick
<1>3. CASE IssuePREab
  BY <1>3, <1>04, Zenon DEF IssuePREab, trackerVars
<1>4. CASE IssueRFMab
  <2>1. Kept
    BY <1>0, <1>4, Zenon DEF IssueRFMab, HistoryOK, Kept
  <2> QED
    BY <1>4, <1>03, <2>1, RFMabEffect, Zenon
<1>5. CASE IssueREFab
  <2> DEFINE r == Head(refresh_q)
  <2>1. r \in Ranks
    BY <1>0, <1>5, HeadRefresh, Zenon DEF IssueREFab
  <2>2. bank_ref_idx' = [bank_ref_idx EXCEPT ![r] = (@ + rows_refreshed) % NumRows]
    BY <1>5, ZenonT(40) DEF IssueREFab
  <2>3. \A n \in Rows : (n + rows_refreshed) % NumRows \in Rows
    BY SizeAssumption, ChunkAssumption DEF rows_refreshed, Rows
  <2>4. Kept
    <3> HIDE DEF r
    <3> QED
      BY <1>0, <2>1, <2>2, <2>3 DEF Kept, HistoryOK
  <2>5. acts' = ActsRefreshed(RefReaches(r) \/ (TrefTarget(r) # NoIdx
                                                /\ MitigReaches(r, TrefTarget(r))))
    BY <1>5, ZenonT(40) DEF IssueREFab
  <2> QED
    BY <1>03, <2>4, <2>5, Zenon
<1>7. CASE UNCHANGED vars
  BY <1>7, <1>04, Zenon DEF vars, trackerVars
<1>8. ASSUME NEW r \in Ranks, NEW b \in Banks, NEW row \in Rows,
             IssueActivate(r, b, row)
      PROVE  Goal
  <2>1. Kept
    BY <1>0, <1>8, Zenon DEF IssueActivate, HistoryOK, Kept
  <2>2. acts' = acts \/ acts' = [acts EXCEPT !.count = acts.count + 1]
    BY <1>8, Zenon DEF IssueActivate
  <2>3. acts.count + 1 \in Nat
    BY <1>0 DEF HistoryOK, HistoryType
  <2> QED
    BY <1>01, <1>02, <2>1, <2>2, <2>3, Zenon
<1>9. ASSUME NEW r \in Ranks, NEW b \in Banks, IssuePrecharge(r, b)
      PROVE  Goal
  BY <1>9, <1>04, Zenon DEF IssuePrecharge, trackerVars
<1>10. CASE IssueOther
  BY <1>10, <1>04, Zenon DEF IssueOther, trackerVars
<1> QED
  BY <1>1, <1>2, <1>3, <1>4, <1>5, <1>7, <1>8, <1>9, <1>10, Zenon DEF Next

\* The counter a REFab mitigates is a counter, or there is none.
LEMMA TrefTargetType ==
  ASSUME TypeOK, NEW r \in Ranks
  PROVE  TrefTarget(r) \in Rows \cup {NoIdx}
BY TypeParts, SMTT(30) DEF RegistersOK, TrefTarget, MaxAfterReset

\* The alert and register variables keep their types.
LEMMA RegistersStep ==
  ASSUME Inv, [Next]_vars
  PROVE  RegistersOK'
<1> USE DEF RegistersOK
<1>0. TypeOK /\ DrainConsistent /\ QueuesOK /\ RegistersOK
  BY TypeParts DEF Inv
<1>1. CASE RefreshClockTick
  BY <1>0, <1>1 DEF RefreshClockTick, trackerVars
<1>2. CASE ChannelStateClockTick
  <2>1. \A a \in 0 .. TABO : a < TABO => a + 1 \in 0 .. TABO
    BY SizeAssumption
  <2>2. alert_age' \in [Ranks -> 0 .. TABO]
    <3>1. loop_rank \in Ranks /\ alert_age[loop_rank] \in 0 .. TABO
      BY <1>0 DEF TypeOK
    <3>2. \/ alert_age' = [alert_age EXCEPT ![loop_rank] = 0]
          \/ alert_age' = [alert_age EXCEPT ![loop_rank] =
                 IF alert_pending[loop_rank] /\ @ < TABO THEN @ + 1 ELSE @]
      BY <1>2 DEF ChannelStateClockTick
    <3>3. \E v \in 0 .. TABO : alert_age' = [alert_age EXCEPT ![loop_rank] = v]
      BY <2>1, <3>1, <3>2, BoundTypes
    <3> QED
      BY <1>0, <3>3, Zenon
  <2>3. /\ alert_pending' \in [Ranks -> BOOLEAN]
        /\ rfm_inflight' \in [Ranks -> BOOLEAN]
    BY <1>0, <1>2, Zenon DEF ChannelStateClockTick, QueuesOK
  <2> QED
    BY <1>0, <1>2, <2>2, <2>3 DEF ChannelStateClockTick
<1>3. CASE IssuePREab
  BY <1>0, <1>3, HeadRFM, HeadRefresh, Zenon DEF IssuePREab, trackerVars
<1>4. CASE IssueRFMab
  <2>1. PICK r \in Ranks, i \in Rows :
           /\ pending_counter_idx' = [pending_counter_idx EXCEPT ![r] = NoIdx]
           /\ rfm_inflight' = [rfm_inflight EXCEPT ![r] = FALSE]
           /\ acts_since_rfm' = [acts_since_rfm EXCEPT ![r] = 0]
           /\ IF tref_max_counter_idx[r] = i
              THEN /\ tref_max_counter_idx' = [tref_max_counter_idx EXCEPT ![r] = NoIdx]
                   /\ touched' = [touched EXCEPT ![r] = {}]
              ELSE UNCHANGED <<tref_max_counter_idx, touched>>
    BY <1>4, RFMabEffect
  <2>2. UNCHANGED <<alert_pending, alert_age, tref_refab_count, open>>
    BY <1>4 DEF IssueRFMab
  <2> QED
    BY <1>0, <2>1, <2>2, BoundTypes
<1>5. CASE IssueREFab
  <2> DEFINE r == Head(refresh_q)
  <2>1. r \in Ranks
    BY <1>0, <1>5, HeadRefresh, Zenon DEF IssueREFab
  <2>2. \A n \in Int : (n + 1) % TrefInterval \in 0 .. TrefInterval - 1
    BY SizeAssumption
  <2>3. tref_refab_count' \in [Ranks -> 0 .. TrefInterval - 1]
    <3>1. \/ tref_refab_count' = tref_refab_count
          \/ tref_refab_count' =
               [tref_refab_count EXCEPT ![r] = (@ + 1) % TrefInterval]
      BY <1>5, Zenon DEF IssueREFab
    <3>2. tref_refab_count[r] \in Int
      BY <1>0, <2>1, SizeAssumption, SMTT(30)
    <3> HIDE DEF r
    <3> QED
      BY <1>0, <2>1, <2>2, <3>1, <3>2, SMTT(30)
  <2>4. /\ tref_max_counter_idx' \in [Ranks -> Rows \cup {NoIdx}]
        /\ touched' \in [Ranks -> SUBSET Rows]
    BY <1>0, <1>5, <2>1, Zenon DEF IssueREFab
  <2>5. /\ pending_counter_idx' \in [Ranks -> Rows \cup {NoIdx}]
        /\ alert_pending' \in [Ranks -> BOOLEAN]
        /\ rfm_inflight' \in [Ranks -> BOOLEAN]
        /\ alert_age' \in [Ranks -> 0 .. TABO]
        /\ acts_since_rfm' \in [Ranks -> 0 .. ABODelay]
    <3>1. CASE Absorbs(r)
      <4>1. /\ pending_counter_idx' = [pending_counter_idx EXCEPT ![r] = NoIdx]
            /\ alert_pending' = [alert_pending EXCEPT ![r] = FALSE]
            /\ alert_age' = [alert_age EXCEPT ![r] = 0]
            /\ rfm_inflight' = [rfm_inflight EXCEPT ![r] = FALSE]
            /\ acts_since_rfm' = [acts_since_rfm EXCEPT ![r] = 0]
        BY <1>5, <3>1, ZenonT(40) DEF IssueREFab
      <4> QED
        BY <1>0, <2>1, <4>1, BoundTypes, SMTT(30)
    <3>2. CASE ~Absorbs(r)
      BY <1>0, <1>5, <3>2, ZenonT(40) DEF IssueREFab
    <3> QED
      BY <3>1, <3>2
  <2>6. open' = open
    BY <1>5, Zenon DEF IssueREFab
  <2> QED
    BY <1>0, <2>3, <2>4, <2>5, <2>6, SMTT(30)
<1>7. CASE UNCHANGED vars
  BY <1>0, <1>7, SMTT(30) DEF vars, trackerVars
<1>8. ASSUME NEW r \in Ranks, NEW b \in Banks, NEW row \in Rows,
             IssueActivate(r, b, row)
      PROVE  RegistersOK'
  <2> DEFINE i == get_cactus_idx(r, b, row)
  <2>1. i \in Rows
    BY IdxOfRow
  <2> HIDE DEF i
  <2>2. \A a \in 0 .. ABODelay : a < ABODelay => a + 1 \in 0 .. ABODelay
    BY SizeAssumption, SMTT(30)
  <2>3. acts_since_rfm' \in [Ranks -> 0 .. ABODelay] /\ open' \in [Ranks -> SUBSET Banks]
    BY <1>0, <1>8, <2>2, SMTT(30) DEF IssueActivate
  <2>4. /\ tref_max_counter_idx' \in [Ranks -> Rows \cup {NoIdx}]
        /\ touched' \in [Ranks -> SUBSET Rows]
    BY <1>0, <1>8, <2>1 DEF IssueActivate, i
  <2>5. /\ pending_counter_idx' \in [Ranks -> Rows \cup {NoIdx}]
        /\ alert_pending' \in [Ranks -> BOOLEAN]
        /\ alert_age' \in [Ranks -> 0 .. TABO]
    <3>1. \/ /\ alert_pending' = [alert_pending EXCEPT ![r] = TRUE]
             /\ alert_age' = [alert_age EXCEPT ![r] = 0]
             /\ pending_counter_idx' = [pending_counter_idx EXCEPT ![r] = i]
          \/ UNCHANGED <<alert_pending, alert_age, pending_counter_idx>>
      BY <1>8 DEF IssueActivate, i
    <3> QED
      BY <1>0, <2>1, <3>1, BoundTypes, ZenonT(40)
  <2> QED
    BY <1>0, <1>8, <2>3, <2>4, <2>5 DEF IssueActivate
<1>9. ASSUME NEW r \in Ranks, NEW b \in Banks, IssuePrecharge(r, b)
      PROVE  RegistersOK'
  BY <1>0, <1>9 DEF IssuePrecharge, trackerVars
<1>10. CASE IssueOther
  BY <1>0, <1>10 DEF IssueOther, trackerVars
<1> QED
  BY <1>1, <1>2, <1>3, <1>4, <1>5, <1>7, <1>8, <1>9, <1>10 DEF Next
=============================================================================
