------------------------- MODULE CactusCoverProofs -------------------------
(***************************************************************************)
(* Proof that the counters of CACTUS cover the activations of every row,   *)
(* with one rank per channel and cactus_reset 1, for every number of banks *)
(* and rows, every permutation of the rows and every tref mode.            *)
(*                                                                         *)
(* A REFab resets the counters of chunk ref_idx and refreshes the rows of  *)
(* chunk ref_idx (InStep).  Between two refreshes of the neighbour a row   *)
(* is watched for, ref_idx passes the chunk of the row's counter once, so  *)
(* the counter is reset at most once, and its value before that reset is   *)
(* in cactus_prev_.  ResetSince says whether that has happened.            *)
(***************************************************************************)
EXTENDS CactusProofs

Chunk(x) == x \div rows_refreshed

\* The refreshes find the banks where the channel is.
InStep == bank_ref_idx[0] = ref_idx * rows_refreshed

\* On its way from just behind chunk cv to chunk ref, ref_idx has passed chunk ci.
Passed(ci, cv, ref) ==
  IF cv < ref THEN cv < ci /\ ci < ref ELSE ci < ref \/ cv < ci

\* The watched counter has been reset since the neighbour's turn to be refreshed.
ResetSince == Passed(Chunk(WatchedIdx), Chunk(acts.victim), ref_idx)

\* The inductive form of CounterCoversActs.
Covered == acts.count <= cactus[0][WatchedIdx]
                           + IF ResetSince THEN cactus_prev[0][WatchedIdx] ELSE 0

\* The rows are RefChunks chunks of rows_refreshed rows each.
LEMMA ChunkSizes ==
  /\ rows_refreshed \in Nat \ {0}
  /\ NumRows = RefChunks * rows_refreshed
BY SizeAssumption, ChunkAssumption DEF rows_refreshed

\* Chunk c begins at row c * n and ends before row (c + 1) * n.
LEMMA ChunkBounds ==
  ASSUME NEW n \in Nat \ {0}, NEW x \in Nat, NEW c \in Nat
  PROVE  x \div n = c <=> c * n <= x /\ x <= (c + 1) * n - 1
OBVIOUS

\* When ref_idx leaves chunk ref for the next one, wrapping around at the last:
\* what it has passed since chunk cv gains chunk ref and nothing else.
LEMMA PassedStep ==
  ASSUME NEW n \in Nat \ {0}, NEW ci \in 0 .. n - 1, NEW cv \in 0 .. n - 1,
         NEW ref \in 0 .. n - 1, cv # ref
  PROVE  /\ ci = ref => ~Passed(ci, cv, ref) /\ Passed(ci, cv, (ref + 1) % n)
         /\ ci # ref => (Passed(ci, cv, (ref + 1) % n) <=> Passed(ci, cv, ref))
<1>1. (ref + 1) % n = IF ref = n - 1 THEN 0 ELSE ref + 1
  OBVIOUS
<1> QED
  BY <1>1 DEF Passed

\* Every row is in one of the RefChunks chunks.
LEMMA ChunkType ==
  ASSUME NEW x \in Rows
  PROVE  Chunk(x) \in 0 .. RefChunks - 1
<1> DEFINE n == rows_refreshed
<1>1. /\ n \in Nat \ {0} /\ NumRows = RefChunks * n /\ RefChunks \in Nat \ {0}
      /\ NumRows \in Nat /\ x \in Nat /\ x < NumRows
  BY ChunkSizes, ChunkAssumption, SizeAssumption DEF Rows
<1> HIDE DEF n
<1>2. x \div n \in Nat /\ (x \div n) * n <= x
  BY <1>1
<1>3. x \div n < RefChunks
  BY <1>1, <1>2
<1> QED
  BY <1>1, <1>2, <1>3 DEF Chunk, n

\* With cactus_reset 1, cactus_refresh resets the counters of chunk ref_idx.
LEMMA ResetChunk ==
  ASSUME Factor = 1, ref_idx \in 0 .. RefChunks - 1, NEW x \in Rows
  PROVE  x \in ResetRange <=> Chunk(x) = ref_idx
<1> DEFINE n == rows_refreshed
<1>1. n \in Nat \ {0} /\ x \in Nat /\ ref_idx \in Nat
  BY ChunkSizes, SizeAssumption, ChunkAssumption DEF Rows
<1>2. RefChunks \div Factor = RefChunks /\ ref_idx % RefChunks = ref_idx
  BY ChunkAssumption
<1>3. 1 * n = n
  BY <1>1
<1>4. ResetRange = (ref_idx * n) .. ((ref_idx + 1) * n - 1)
  BY <1>2, <1>3, Zenon DEF ResetRange, rows_refreshed
<1> HIDE DEF n
<1>5. x \in ResetRange <=> ref_idx * n <= x /\ x <= (ref_idx + 1) * n - 1
  BY <1>1, <1>4
<1>6. x \div n = ref_idx <=> ref_idx * n <= x /\ x <= (ref_idx + 1) * n - 1
  BY <1>1, ChunkBounds
<1> QED
  BY <1>5, <1>6 DEF Chunk, n

\* A REFab refreshes the rows of chunk ref_idx in every bank.
LEMMA RefreshedChunk ==
  ASSUME InStep, ref_idx \in 0 .. RefChunks - 1, acts.victim \in Rows, acts.rank = 0
  PROVE  /\ RefReaches(0) <=> Chunk(acts.victim) = ref_idx
         /\ (bank_ref_idx[0] + rows_refreshed) % NumRows
              = ((ref_idx + 1) % RefChunks) * rows_refreshed
<1> DEFINE n == rows_refreshed
           v == acts.victim
           f == ref_idx * n
<1>1. /\ n \in Nat \ {0} /\ NumRows = RefChunks * n /\ RefChunks \in Nat \ {0}
      /\ NumRows \in Nat \ {0} /\ v \in 0 .. NumRows - 1
  BY ChunkSizes, ChunkAssumption, SizeAssumption DEF Rows
<1>2. bank_ref_idx[0] = f
  BY DEF InStep
<1>3. RefReaches(0) <=> \E i \in 0 .. n - 1 : v = (f + i) % NumRows
  BY <1>2, Zenon DEF RefReaches
<1>4. f \in Nat /\ f + n = (ref_idx + 1) * n /\ f + n <= NumRows
  <2> HIDE DEF n
  <2>1. ref_idx \in Nat /\ ref_idx + 1 <= RefChunks /\ ref_idx + 1 \in Nat
    BY <1>1
  <2>2. (ref_idx + 1) * n <= RefChunks * n
    BY <1>1, <2>1
  <2> QED
    BY <1>1, <2>1, <2>2
<1>5. v \div n = ref_idx <=> f <= v /\ v <= f + n - 1
  BY <1>1, <1>4, ChunkBounds
<1> HIDE DEF f, n, v
<1>6. (\E i \in 0 .. n - 1 : v = (f + i) % NumRows) <=> f <= v /\ v <= f + n - 1
  <2>1. \A i \in 0 .. n - 1 : (f + i) % NumRows = f + i
    BY <1>1, <1>4
  <2>2. ASSUME f <= v, v <= f + n - 1
        PROVE  v - f \in 0 .. n - 1 /\ v = f + (v - f)
    BY <1>1, <1>4, <2>2
  <2>3. ASSUME NEW i \in 0 .. n - 1, v = f + i
        PROVE  f <= v /\ v <= f + n - 1
    BY <1>1, <1>4, <2>3
  <2> QED
    BY <2>1, <2>2, <2>3, Zenon
<1>7. (f + n) % NumRows = ((ref_idx + 1) % RefChunks) * n
  <2>1. CASE ref_idx = RefChunks - 1
    <3>1. f + n = NumRows /\ (ref_idx + 1) % RefChunks = 0
      BY <1>1, <1>4, <2>1
    <3> QED
      BY <1>1, <3>1
  <2>2. CASE ref_idx # RefChunks - 1
    <3>1. (ref_idx + 1) % RefChunks = ref_idx + 1 /\ ref_idx + 1 < RefChunks
      BY <1>1, <2>2
    <3>2. (ref_idx + 1) * n < RefChunks * n
      BY <1>1, <3>1
    <3> QED
      BY <1>1, <1>4, <3>1, <3>2
  <2> QED
    BY <2>1, <2>2
<1> QED
  BY <1>2, <1>3, <1>5, <1>6, <1>7 DEF Chunk, n, v, f

-----------------------------------------------------------------------------
(* The steps. *)

CoverInv == Inv /\ InStep /\ Covered

\* With one rank, every history is about rank 0.
LEMMA OneRank ==
  ASSUME NumRanks = 1
  PROVE  Ranks = {0}
BY DEF Ranks

\* The banks and the channel both start at chunk 0, and all counts at zero.
LEMMA CoverInit ==
  ASSUME NumRanks = 1, Init
  PROVE  CoverInv
<1>1. Inv
  BY InitInv
<1>2. InStep
  <2>1. bank_ref_idx = [r \in Ranks |-> 0] /\ ref_idx = 0
    BY Zenon DEF Init
  <2> QED
    BY <2>1, OneRank, ChunkSizes DEF InStep
<1>3. Covered
  <2>1. /\ acts.count = 0
        /\ cactus = [r \in Ranks |-> [i \in Rows |-> 0]]
        /\ cactus_prev = [r \in Ranks |-> [i \in Rows |-> 0]]
    <3>1. acts \in Histories
      BY Zenon DEF Init
    <3>2. acts.count = 0
      BY <3>1 DEF Histories
    <3> QED
      BY <3>2, Zenon DEF Init
  <2>2. WatchedIdx \in Rows
    BY <1>1, WatchedMitigated
  <2> QED
    BY <2>1, <2>2, OneRank DEF Covered
<1> QED
  BY <1>1, <1>2, <1>3 DEF CoverInv

\* Only a REFab moves ref_idx and the banks' ref_idx_.
LEMMA RefIdxKept ==
  ASSUME [Next]_vars, ~IssueREFab
  PROVE  UNCHANGED <<ref_idx, bank_ref_idx>>
<1>1. CASE RefreshClockTick
  BY <1>1, Zenon DEF RefreshClockTick, trackerVars
<1>2. CASE ChannelStateClockTick
  BY <1>2, Zenon DEF ChannelStateClockTick
<1>3. CASE IssuePREab
  BY <1>3, Zenon DEF IssuePREab, trackerVars
<1>4. CASE IssueRFMab
  BY <1>4, Zenon DEF IssueRFMab
<1>5. ASSUME NEW r \in Ranks, NEW b \in Banks, NEW row \in Rows,
             IssueActivate(r, b, row)
      PROVE  UNCHANGED <<ref_idx, bank_ref_idx>>
  BY <1>5, Zenon DEF IssueActivate
<1>6. ASSUME NEW r \in Ranks, NEW b \in Banks, IssuePrecharge(r, b)
      PROVE  UNCHANGED <<ref_idx, bank_ref_idx>>
  BY <1>6, Zenon DEF IssuePrecharge, trackerVars
<1>7. CASE IssueOther
  BY <1>7, Zenon DEF IssueOther, trackerVars
<1>8. CASE UNCHANGED vars
  BY <1>8, Zenon DEF vars, trackerVars
<1> QED
  BY <1>1, <1>2, <1>3, <1>4, <1>5, <1>6, <1>7, <1>8, ZenonT(30) DEF Next

\* What a REFab does to the counters it does not mitigate, and to the indices.
LEMMA REFabCounters ==
  ASSUME Inv, IssueREFab, NumRanks = 1
  PROVE  \E t \in Rows \cup {NoIdx} :
           /\ acts' = ActsRefreshed(RefReaches(0) \/ (t # NoIdx /\ MitigReaches(0, t)))
           /\ \A i \in Rows : i # t =>
                /\ cactus'[0][i] = IF i \in ResetRange THEN 0 ELSE cactus[0][i]
                /\ cactus_prev'[0][i] =
                     IF i \in ResetRange THEN cactus[0][i] ELSE cactus_prev[0][i]
           /\ ref_idx' = (ref_idx + 1) % RefChunks
           /\ bank_ref_idx'[0] = (bank_ref_idx[0] + rows_refreshed) % NumRows
<1> DEFINE t == TrefTarget(0)
<1>1. Head(refresh_q) = 0 /\ 0 \in Ranks
  BY OneRank, HeadRefresh, Zenon DEF IssueREFab, Inv
<1>2. t \in Rows \cup {NoIdx}
  BY <1>1, TrefTargetType DEF Inv
<1>3. /\ cactus \in [Ranks -> [Rows -> Nat]]
      /\ cactus_prev \in [Ranks -> [Rows -> Nat]]
      /\ bank_ref_idx \in [Ranks -> Rows]
  BY Zenon DEF Inv, TypeOK
<1>4. acts' = ActsRefreshed(RefReaches(0) \/ (t # NoIdx /\ MitigReaches(0, t)))
  BY <1>1, ZenonT(40) DEF IssueREFab
<1>5. /\ cactus' = [cactus EXCEPT ![0] =
                      [i \in Rows |-> IF i = t THEN 0 ELSE CurAfterReset(0)[i]]]
      /\ cactus_prev' = [cactus_prev EXCEPT ![0] =
                      [i \in Rows |-> IF i = t THEN CurAfterReset(0)[i]
                                               ELSE PrevAfterReset(0)[i]]]
      /\ bank_ref_idx' = [bank_ref_idx EXCEPT ![0] = (@ + rows_refreshed) % NumRows]
      /\ ref_idx' = (ref_idx + 1) % RefChunks
  BY <1>1, ZenonT(40) DEF IssueREFab
<1> HIDE DEF t
<1>6. ASSUME NEW i \in Rows, i # t
      PROVE  /\ cactus'[0][i] = IF i \in ResetRange THEN 0 ELSE cactus[0][i]
             /\ cactus_prev'[0][i] =
                  IF i \in ResetRange THEN cactus[0][i] ELSE cactus_prev[0][i]
  BY <1>1, <1>3, <1>5, <1>6, SMTT(30) DEF CurAfterReset, PrevAfterReset
<1>7. bank_ref_idx'[0] = (bank_ref_idx[0] + rows_refreshed) % NumRows
  BY <1>1, <1>3, <1>5, Zenon
<1> QED
  BY <1>2, <1>4, <1>5, <1>6, <1>7, Zenon

\* Every step keeps InStep and Covered.
LEMMA CoverStep ==
  ASSUME NumRanks = 1, Factor = 1, CoverInv, [Next]_vars
  PROVE  CoverInv'
<1> DEFINE w == WatchedIdx
           ci == Chunk(w)
           cv == Chunk(acts.victim)
           C == cactus[0][w]
           P == cactus_prev[0][w]
<1>0. Inv /\ InStep /\ Covered /\ Inv'
  BY InvStep DEF CoverInv
<1>1. /\ w \in Rows /\ acts.victim \in Rows /\ acts.rank = 0 /\ 0 \in Ranks
      /\ acts \in HistoryType /\ acts.count \in Nat
      /\ ref_idx \in 0 .. RefChunks - 1
  <2>1. acts \in HistoryType /\ ref_idx \in 0 .. RefChunks - 1
    BY <1>0, Zenon DEF Inv, TypeOK, HistoryType
  <2> QED
    BY <1>0, <2>1, WatchedMitigated, OneRank DEF HistoryType
<1>2. ci \in 0 .. RefChunks - 1 /\ cv \in 0 .. RefChunks - 1
  BY <1>1, ChunkType
<1>3. /\ cactus[0][w] \in Nat /\ cactus_prev[0][w] \in Nat
      /\ cactus'[0][w] \in Nat /\ cactus_prev'[0][w] \in Nat
  <2>1. /\ cactus \in [Ranks -> [Rows -> Nat]]
        /\ cactus_prev \in [Ranks -> [Rows -> Nat]]
        /\ cactus' \in [Ranks -> [Rows -> Nat]]
        /\ cactus_prev' \in [Ranks -> [Rows -> Nat]]
    BY <1>0, Zenon DEF Inv, TypeOK
  <2> HIDE DEF w
  <2> QED
    BY <1>1, <2>1
<1>4. w' = w /\ acts'.victim = acts.victim
  <2>1. \A f \in {"rank", "bank", "row", "victim"} : acts'[f] = acts[f]
    BY <1>0, HistoryStep
  <2>2. /\ acts'.rank = acts.rank /\ acts'.bank = acts.bank
        /\ acts'.row = acts.row /\ acts'.victim = acts.victim
    BY <2>1, Zenon
  <2> QED
    BY <2>2, Zenon DEF WatchedIdx, get_cactus_idx
<1>5. acts.count <= C + IF Passed(ci, cv, ref_idx) THEN P ELSE 0
  BY <1>0, Zenon DEF Covered, ResetSince
<1>6. Covered' <=> acts'.count <= cactus'[0][w]
                     + IF Passed(ci, cv, ref_idx') THEN cactus_prev'[0][w] ELSE 0
  BY <1>4, ZenonT(30) DEF Covered, ResetSince, Passed, Chunk
<1> HIDE DEF w, ci, cv, C, P
<1>7. ASSUME acts'.count = 0 PROVE Covered'
  BY <1>3, <1>6, <1>7
<1>8. ASSUME NEW reached, acts' = ActsRefreshed(reached)
      PROVE  (reached => acts'.count = 0) /\ (~reached => acts' = acts)
  <2>1. [acts EXCEPT !.count = 0].count = 0
    BY <1>1 DEF HistoryType
  <2> QED
    BY <1>8, <2>1, Zenon DEF ActsRefreshed
<1>9. MitigReaches(0, w)
  BY <1>0, <1>1, WatchedMitigated, Zenon DEF w
<1>10. CASE IssueREFab
  <2>1. PICK t \in Rows \cup {NoIdx} :
           /\ acts' = ActsRefreshed(RefReaches(0) \/ (t # NoIdx /\ MitigReaches(0, t)))
           /\ \A i \in Rows : i # t =>
                /\ cactus'[0][i] = IF i \in ResetRange THEN 0 ELSE cactus[0][i]
                /\ cactus_prev'[0][i] =
                     IF i \in ResetRange THEN cactus[0][i] ELSE cactus_prev[0][i]
           /\ ref_idx' = (ref_idx + 1) % RefChunks
           /\ bank_ref_idx'[0] = (bank_ref_idx[0] + rows_refreshed) % NumRows
    BY <1>0, <1>10, REFabCounters, Zenon
  <2>2. /\ RefReaches(0) <=> cv = ref_idx
        /\ (bank_ref_idx[0] + rows_refreshed) % NumRows
             = ((ref_idx + 1) % RefChunks) * rows_refreshed
    BY <1>0, <1>1, RefreshedChunk, Zenon DEF cv
  <2>3. InStep'
    BY <2>1, <2>2, Zenon DEF InStep, rows_refreshed
  <2>4. w \in ResetRange <=> ci = ref_idx
    BY <1>1, ResetChunk, Zenon DEF ci
  <2>5. CASE RefReaches(0) \/ (t # NoIdx /\ MitigReaches(0, t))
    BY <1>0, <1>7, <1>8, <2>1, <2>3, <2>5, Zenon DEF CoverInv
  <2>6. CASE ~(RefReaches(0) \/ (t # NoIdx /\ MitigReaches(0, t)))
    <3>1. acts' = acts /\ cv # ref_idx
      BY <1>8, <2>1, <2>2, <2>6, Zenon
    <3>2. w # t
      BY <1>1, <1>9, <2>6 DEF Rows, NoIdx
    <3>3. /\ cactus'[0][w] = IF ci = ref_idx THEN 0 ELSE C
          /\ cactus_prev'[0][w] = IF ci = ref_idx THEN C ELSE P
      BY <1>1, <2>1, <2>4, <3>2, Zenon DEF C, P
    <3>4. /\ ci = ref_idx => ~Passed(ci, cv, ref_idx) /\ Passed(ci, cv, ref_idx')
          /\ ci # ref_idx => (Passed(ci, cv, ref_idx') <=> Passed(ci, cv, ref_idx))
      BY <1>1, <1>2, <2>1, <3>1, PassedStep, ChunkAssumption
    <3>5. Covered'
      BY <1>1, <1>3, <1>5, <1>6, <3>1, <3>3, <3>4 DEF C, P
    <3> QED
      BY <1>0, <2>3, <3>5 DEF CoverInv
  <2> QED
    BY <2>5, <2>6
<1>11. ASSUME UNCHANGED <<ref_idx, bank_ref_idx>>, Covered'
       PROVE  CoverInv'
  BY <1>0, <1>11, Zenon DEF CoverInv, InStep, rows_refreshed
<1>12. CASE IssueRFMab
  <2>0. ~IssueREFab => UNCHANGED <<ref_idx, bank_ref_idx>>
    BY RefIdxKept
  <2>1. PICK r \in Ranks, i \in Rows :
          /\ cactus_prev' = [cactus_prev EXCEPT ![r][i] = cactus[r][i]]
          /\ cactus' = [cactus EXCEPT ![r][i] = 0]
          /\ acts' = ActsRefreshed(MitigReaches(r, i))
    BY <1>0, <1>12, RFMabEffect, Zenon
  <2>2. r = 0
    BY OneRank
  <2>3. CASE MitigReaches(r, i)
    BY <1>7, <1>8, <1>10, <1>11, <2>0, <2>1, <2>3, Zenon
  <2>4. CASE ~MitigReaches(r, i)
    <3>0. acts' = acts
      BY <2>1, <2>4, Zenon DEF ActsRefreshed
    <3>1. acts' = acts /\ i # w
      BY <1>9, <2>2, <2>4, <3>0
    <3>2. cactus'[0][w] = C /\ cactus_prev'[0][w] = P
      <4>1. /\ cactus \in [Ranks -> [Rows -> Nat]]
            /\ cactus_prev \in [Ranks -> [Rows -> Nat]]
        BY <1>0, Zenon DEF Inv, TypeOK
      <4>2. cactus'[0][w] = C
        BY <1>1, <2>1, <2>2, <3>1, <4>1, SMTT(30) DEF C
      <4>3. cactus_prev'[0][w] = P
        BY <1>1, <2>1, <2>2, <3>1, <4>1, SMTT(30) DEF P
      <4> QED
        BY <4>2, <4>3
    <3>3. UNCHANGED <<ref_idx, bank_ref_idx>> => Covered'
      BY <1>5, <1>6, <3>1, <3>2, Zenon
    <3> QED
      BY <1>10, <1>11, <2>0, <3>3, Zenon
  <2> QED
    BY <2>3, <2>4
<1>13. ASSUME NEW r \in Ranks, NEW b \in Banks, NEW row \in Rows,
              IssueActivate(r, b, row)
       PROVE  CoverInv'
  <2>0. ~IssueREFab => UNCHANGED <<ref_idx, bank_ref_idx>>
    BY RefIdxKept
  <2> PICK i : i = get_cactus_idx(r, b, row)
    OBVIOUS
  <2>1. /\ cactus' = [cactus EXCEPT ![r] = [cactus[r] EXCEPT ![i] = @ + 1]]
        /\ acts' = IF r = acts.rank /\ b = acts.bank /\ row = acts.row
                   THEN [acts EXCEPT !.count = @ + 1] ELSE acts
        /\ cactus_prev' = cactus_prev
    BY <1>13, ActivateEffect, SMTT(30)
  <2>2. r = 0 /\ i \in Rows
    BY <1>13, OneRank, IdxOfRow
  <2>3. r = acts.rank /\ b = acts.bank /\ row = acts.row => i = w
    BY Zenon DEF w, WatchedIdx
  <2>4. cactus'[0][w] = IF i = w THEN C + 1 ELSE C
    <3>1. cactus \in [Ranks -> [Rows -> Nat]]
      BY <1>0, Zenon DEF Inv, TypeOK
    <3> QED
      BY <1>1, <2>1, <2>2, <3>1 DEF C
  <2>5. acts'.count <= IF i = w THEN acts.count + 1 ELSE acts.count
    <3>1. [acts EXCEPT !.count = @ + 1].count = acts.count + 1
      BY <1>1 DEF HistoryType
    <3>2. CASE r = acts.rank /\ b = acts.bank /\ row = acts.row
      <4>1. acts'.count = acts.count + 1
        BY <2>1, <3>1, <3>2, Zenon
      <4> QED
        BY <1>1, <2>3, <3>2, <4>1
    <3>3. CASE ~(r = acts.rank /\ b = acts.bank /\ row = acts.row)
      <4>1. acts'.count = acts.count
        BY <2>1, <3>3, Zenon
      <4> QED
        BY <1>1, <4>1
    <3> QED
      BY <3>2, <3>3
  <2>6. acts'.count \in Nat
    BY <1>0, Zenon DEF Inv, TypeOK
  <2>7. ref_idx' = ref_idx => Covered'
    BY <1>1, <1>3, <1>5, <1>6, <2>1, <2>4, <2>5, <2>6 DEF C, P
  <2> QED
    BY <1>10, <1>11, <2>0, <2>7, Zenon
<1>14. CASE \/ RefreshClockTick \/ ChannelStateClockTick \/ IssuePREab
            \/ \E r \in Ranks, b \in Banks : IssuePrecharge(r, b)
            \/ IssueOther \/ UNCHANGED vars
  <2>0. ~IssueREFab => UNCHANGED <<ref_idx, bank_ref_idx>>
    BY RefIdxKept
  <2>1. UNCHANGED <<cactus, cactus_prev, acts>>
    BY <1>14, QuietSteps
  <2>2. ref_idx' = ref_idx => Covered'
    BY <1>5, <1>6, <2>1, Zenon DEF C, P
  <2> QED
    BY <1>10, <1>11, <2>0, <2>2, Zenon
<1> QED
  BY <1>10, <1>12, <1>13, <1>14, ZenonT(40) DEF Next

\* The invariant bounds the history by both values of the counter.
LEMMA CoverEnough ==
  ASSUME NumRanks = 1, CoverInv
  PROVE  CounterCoversActs
<1>1. /\ WatchedIdx \in Rows /\ acts.rank = 0 /\ 0 \in Ranks /\ acts.count \in Nat
  <2>1. acts \in HistoryType
    BY Zenon DEF CoverInv, Inv, TypeOK, HistoryType
  <2> QED
    BY <2>1, WatchedMitigated, OneRank DEF HistoryType, CoverInv
<1>2. cactus[0][WatchedIdx] \in Nat /\ cactus_prev[0][WatchedIdx] \in Nat
  <2>1. /\ cactus \in [Ranks -> [Rows -> Nat]]
        /\ cactus_prev \in [Ranks -> [Rows -> Nat]]
    BY Zenon DEF CoverInv, Inv, TypeOK
  <2> QED
    BY <1>1, <2>1
<1> QED
  BY <1>1, <1>2 DEF CoverInv, Covered, CounterCoversActs

\* With one rank and cactus_reset 1, since any neighbour of any row was last
\* refreshed, by a REFab or by a mitigation, the row has been activated at most
\* as often as the current and the previous value of its counter say together,
\* although counters are reset by index and rows refreshed by number
\* (cactus_preact, cactus_mitig_counter, cactus_refresh, BankState::UpdateState).
THEOREM CountersCover ==
  ASSUME NumRanks = 1, Factor = 1
  PROVE  Spec => []CounterCoversActs
<1>1. Init => CoverInv
  BY CoverInit
<1>2. CoverInv /\ [Next]_vars => CoverInv'
  BY CoverStep
<1>3. CoverInv => CounterCoversActs
  BY CoverEnough
<1> QED
  BY <1>1, <1>2, <1>3, PTL DEF Spec
=============================================================================
