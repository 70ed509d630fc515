---------------------------- MODULE CactusProofs ----------------------------
(***************************************************************************)
(* Proofs about module Cactus, last part: the greedy register, and the     *)
(* theorems, for every number of ranks, banks and rows, every threshold,   *)
(* every permutation of the rows and every tref mode.                      *)
(***************************************************************************)
EXTENDS CactusStepProofs

\* Every step keeps RegisterUnused.
LEMMA UnusedStep ==
  ASSUME Inv, [Next]_vars
  PROVE  RegisterUnused'
<1> SUFFICES ASSUME TrefMode # "max", NEW s \in Ranks
             PROVE  tref_max_counter_idx'[s] = NoIdx
  BY SMTT(30) DEF RegisterUnused
<1>0. /\ TypeOK /\ DrainConsistent /\ tref_max_counter_idx[s] = NoIdx
      /\ tref_max_counter_idx \in [Ranks -> Rows \cup {NoIdx}]
  BY Zenon DEF Inv, RegisterUnused, TypeOK
<1>1. CASE UNCHANGED tref_max_counter_idx
  BY <1>0, <1>1
<1>2. CASE IssueRFMab
  <2>1. PICK r \in Ranks :
          \/ tref_max_counter_idx' = [tref_max_counter_idx EXCEPT ![r] = NoIdx]
          \/ UNCHANGED tref_max_counter_idx
    BY <1>2, RFMabEffect
  <2> QED
    BY <1>0, <2>1
<1>3. CASE IssueREFab
  BY <1>0, <1>3, HeadRefresh, ZenonT(40) DEF IssueREFab
<1>4. ASSUME NEW r \in Ranks, NEW b \in Banks, NEW row \in Rows,
             IssueActivate(r, b, row)
      PROVE  UNCHANGED tref_max_counter_idx
  BY <1>4, SMTT(30) DEF IssueActivate
<1>5. CASE \/ RefreshClockTick \/ ChannelStateClockTick \/ IssuePREab
           \/ \E r \in Ranks, b \in Banks : IssuePrecharge(r, b)
           \/ IssueOther \/ UNCHANGED vars
  BY <1>1, <1>5, QuietSteps
<1> QED
  BY <1>1, <1>2, <1>3, <1>4, <1>5 DEF Next

\* Every step keeps MaxOfTouched: a mitigation or a reset lowers only other
\* counters or clears the register, an ACTIVATE compares before it keeps it.
LEMMA MaxStep ==
  ASSUME Inv, [Next]_vars
  PROVE  MaxOfTouched'
<1> DEFINE val(s, i) == CounterVal(cactus[s], cactus_prev[s], i)
           MaxOf(s) == LET m == tref_max_counter_idx[s] IN
                       /\ m = NoIdx <=> touched[s] = {}
                       /\ m # NoIdx => /\ m \in touched[s]
                                       /\ \A i \in touched[s] : val(s, i) <= val(s, m)
<1>0. /\ TypeOK /\ MaxOfTouched
      /\ cactus \in [Ranks -> [Rows -> Nat]]
      /\ cactus_prev \in [Ranks -> [Rows -> Nat]]
      /\ tref_max_counter_idx \in [Ranks -> Rows \cup {NoIdx}]
      /\ touched \in [Ranks -> SUBSET Rows]
  BY Zenon DEF Inv, TypeOK
<1>00. NoIdx \notin Rows
  BY DEF Rows, NoIdx
<1>01. ASSUME UNCHANGED <<cactus, cactus_prev, tref_max_counter_idx, touched>>
       PROVE  MaxOfTouched'
  BY <1>0, <1>01 DEF MaxOfTouched
<1>02. SUFFICES ASSUME NEW s \in Ranks,
                       ~UNCHANGED <<cactus, cactus_prev, tref_max_counter_idx, touched>>
                PROVE  MaxOf(s)'
  BY <1>01, SMTT(30) DEF MaxOfTouched
<1>03. MaxOf(s)
  BY <1>0, SMTT(30) DEF MaxOfTouched
<1>04. ASSUME cactus'[s] = cactus[s], cactus_prev'[s] = cactus_prev[s],
              tref_max_counter_idx'[s] = tref_max_counter_idx[s],
              touched'[s] = touched[s]
       PROVE  MaxOf(s)'
  BY <1>03, <1>04, SMTT(30)
<1>05. ASSUME tref_max_counter_idx'[s] = NoIdx, touched'[s] = {}
       PROVE  MaxOf(s)'
  BY <1>05, SMTT(30)
\* A step that keeps the register and lowers no more than other counters.
<1>06. ASSUME tref_max_counter_idx'[s] = tref_max_counter_idx[s],
              touched'[s] = touched[s],
              NEW m \in Rows, m = tref_max_counter_idx[s],
              val(s, m)' = val(s, m), val(s, m) \in Nat,
              \A i \in Rows : val(s, i)' <= val(s, i)
                              /\ val(s, i)' \in Nat /\ val(s, i) \in Nat
       PROVE  MaxOf(s)'
  <2>1. m # NoIdx /\ touched[s] \subseteq Rows /\ m \in touched[s]
    BY <1>0, <1>00, <1>03, <1>06, SMTT(30)
  <2> HIDE DEF val
  <2>2. \A i \in touched[s] : val(s, i) <= val(s, m)
    BY <1>03, <1>06, <2>1, SMTT(30)
  <2>3. \A i \in touched[s] : val(s, i)' <= val(s, m)'
    BY <1>06, <2>1, <2>2, SMTT(30)
  <2> QED
    BY <1>06, <2>1, <2>3, SMTT(30)
<1>4. CASE IssueRFMab
  <2>1. PICK r \in Ranks, i \in Rows :
          /\ cactus_prev' = [cactus_prev EXCEPT ![r][i] = cactus[r][i]]
          /\ cactus' = [cactus EXCEPT ![r][i] = 0]
          /\ IF tref_max_counter_idx[r] = i
             THEN /\ tref_max_counter_idx' = [tref_max_counter_idx EXCEPT ![r] = NoIdx]
                  /\ touched' = [touched EXCEPT ![r] = {}]
             ELSE UNCHANGED <<tref_max_counter_idx, touched>>
    BY <1>4, RFMabEffect, SMTT(30)
  <2>2. CASE s # r
    BY <1>0, <1>04, <2>1, <2>2, SMTT(30)
  <2>3. CASE s = r /\ tref_max_counter_idx[r] \in {i, NoIdx}
    <3>1. touched'[s] = {} /\ tref_max_counter_idx'[s] = NoIdx
      BY <1>0, <1>03, <2>1, <2>3, SMTT(30)
    <3> QED
      BY <1>05, <3>1, Zenon
  <2>4. CASE s = r /\ tref_max_counter_idx[r] \notin {i, NoIdx}
    <3>1. PICK m \in Rows : m = tref_max_counter_idx[s] /\ m # i
      BY <1>0, <2>4, SMTT(30)
    <3>2. \A k \in Rows : /\ cactus'[s][k] = IF k = i THEN 0 ELSE cactus[s][k]
                          /\ cactus_prev'[s][k] = IF k = i THEN cactus[s][k]
                                                  ELSE cactus_prev[s][k]
      BY <1>0, <2>1, <2>4, SMTT(30)
    <3>3. \A k \in Rows : cactus[s][k] \in Nat /\ cactus_prev[s][k] \in Nat
      BY <1>0, SMTT(30)
    <3>4. \A k \in Rows : /\ val(s, k)' <= val(s, k)
                          /\ val(s, k)' \in Nat /\ val(s, k) \in Nat
      BY <3>2, <3>3, SMTT(30) DEF CounterVal
    <3>5. val(s, m)' = val(s, m)
      BY <3>1, <3>2 DEF CounterVal
    <3>6. UNCHANGED <<tref_max_counter_idx, touched>>
      BY <2>1, <2>4, SMTT(30)
    <3> QED
      BY <1>06, <3>1, <3>4, <3>5, <3>6, Zenon
  <2> QED
    BY <2>2, <2>3, <2>4, Zenon
<1>5. CASE IssueREFab
  <2> DEFINE r == Head(refresh_q)
             t == TrefTarget(r)
             x == MaxAfterReset(r)
  <2>1. r \in Ranks
    BY <1>5, HeadRefresh, ZenonT(40) DEF IssueREFab, Inv
  <2>2. /\ cactus' = [cactus EXCEPT ![r] =
             [i \in Rows |-> IF i = t THEN 0 ELSE CurAfterReset(r)[i]]]
        /\ cactus_prev' = [cactus_prev EXCEPT ![r] =
             [i \in Rows |-> IF i = t THEN CurAfterReset(r)[i]
                             ELSE PrevAfterReset(r)[i]]]
        /\ tref_max_counter_idx' = [tref_max_counter_idx EXCEPT ![r] =
             IF x = NoIdx \/ x = t THEN NoIdx ELSE @]
        /\ touched' = [touched EXCEPT ![r] = IF x = NoIdx \/ x = t THEN {} ELSE @]
    BY <1>5, Zenon DEF IssueREFab
  <2>3. x = IF tref_max_counter_idx[r] \in ResetRange THEN NoIdx
            ELSE tref_max_counter_idx[r]
    BY SMTT(30) DEF MaxAfterReset
  <2> HIDE DEF r, t, x
  <2>4. CASE s # r
    BY <1>0, <1>04, <2>1, <2>2, <2>4, ZenonT(40)
  <2>5. CASE s = r /\ (x = NoIdx \/ x = t)
    <3>1. touched'[s] = {} /\ tref_max_counter_idx'[s] = NoIdx
      BY <1>0, <2>2, <2>5, ZenonT(40)
    <3> QED
      BY <1>05, <3>1, ZenonT(40)
  <2>6. CASE s = r /\ x # NoIdx /\ x # t
    <3>1. PICK m \in Rows : m = tref_max_counter_idx[s] /\ m \notin ResetRange /\ m # t
      BY <1>0, <2>3, <2>6, SMTT(30)
    <3>2. \A k \in Rows :
            /\ cactus'[s][k] = IF k = t THEN 0 ELSE CurAfterReset(r)[k]
            /\ cactus_prev'[s][k] = IF k = t THEN CurAfterReset(r)[k]
                                    ELSE PrevAfterReset(r)[k]
      BY <1>0, <2>2, <2>6, ZenonT(40)
    <3>3. \A k \in Rows :
            /\ CurAfterReset(r)[k] = IF k \in ResetRange THEN 0 ELSE cactus[s][k]
            /\ PrevAfterReset(r)[k] = IF k \in ResetRange THEN cactus[s][k]
                                      ELSE cactus_prev[s][k]
      BY <2>6, Zenon DEF CurAfterReset, PrevAfterReset
    <3>4. \A k \in Rows : cactus[s][k] \in Nat /\ cactus_prev[s][k] \in Nat
      BY <1>0, SMTT(30)
    <3>5. \A k \in Rows : /\ val(s, k)' <= val(s, k)
                          /\ val(s, k)' \in Nat /\ val(s, k) \in Nat
      <4> TAKE k \in Rows
      <4>1. \/ cactus'[s][k] = cactus[s][k] /\ cactus_prev'[s][k] = cactus_prev[s][k]
            \/ cactus'[s][k] = 0 /\ cactus_prev'[s][k] \in {0, cactus[s][k]}
        BY <3>2, <3>3, SMTT(30)
      <4> QED
        BY <3>4, <4>1, SMTT(30) DEF CounterVal
    <3>6. val(s, m)' = val(s, m)
      <4>1. cactus'[s][m] = cactus[s][m] /\ cactus_prev'[s][m] = cactus_prev[s][m]
        BY <3>1, <3>2, <3>3, SMTT(30)
      <4> QED
        BY <4>1, SMTT(30) DEF CounterVal
    <3>7. /\ tref_max_counter_idx'[s] = tref_max_counter_idx[s]
          /\ touched'[s] = touched[s]
      BY <1>0, <2>2, <2>6, SMTT(30)
    <3> QED
      BY <1>06, <3>1, <3>5, <3>6, <3>7, Zenon
  <2> QED
    BY <2>4, <2>5, <2>6, ZenonT(40)
<1>8. ASSUME NEW r \in Ranks, NEW b \in Banks, NEW row \in Rows,
             IssueActivate(r, b, row)
      PROVE  MaxOf(s)'
  <2> DEFINE i == get_cactus_idx(r, b, row)
             cur == [cactus[r] EXCEPT ![i] = @ + 1]
             m == tref_max_counter_idx[r]
             v == CounterVal(cur, cactus_prev[r], i)
  <2>1. i \in Rows
    BY IdxOfRow, SMTT(30)
  <2>2. cactus' = [cactus EXCEPT ![r] = cur] /\ cactus_prev' = cactus_prev
    BY <1>8, SMTT(30) DEF IssueActivate
  <2>3. TrefMode = "max" =>
          /\ touched' = [touched EXCEPT ![r] = @ \cup {i}]
          /\ tref_max_counter_idx' = [tref_max_counter_idx EXCEPT ![r] =
               IF m = NoIdx \/ v > CounterVal(cur, cactus_prev[r], m) THEN i ELSE @]
    BY <1>8, ZenonT(40) DEF IssueActivate
  <2>4. TrefMode # "max" => UNCHANGED <<touched, tref_max_counter_idx>>
    BY <1>8, SMTT(30) DEF IssueActivate
  <2>5. v = CounterVal(cur, cactus_prev[r], i)
    BY Zenon
  <2>6. cur \in [Rows -> Nat]
    BY <1>0, <2>1
  <2>7. \A k \in Rows : cur[k] = IF k = i THEN cactus[r][k] + 1 ELSE cactus[r][k]
    BY <1>0, <2>1, SMTT(30)
  <2> HIDE DEF i, cur, v
  <2>8. CASE s # r
    BY <1>0, <1>04, <2>2, <2>3, <2>4, <2>8, SMTT(30)
  <2>9. CASE s = r /\ TrefMode # "max"
    <3>1. tref_max_counter_idx[s] = NoIdx /\ touched[s] = {}
      BY <1>03, <2>9, Zenon DEF Inv, RegisterUnused
    <3> QED
      BY <1>05, <2>4, <2>9, <3>1, SMTT(30)
  <2>10. CASE s = r /\ TrefMode = "max"
    <3> DEFINE new(k) == CounterVal(cur, cactus_prev[r], k)
    <3>0. PICK m2 : m2 = tref_max_counter_idx'[s]
      BY SMTT(30)
    <3>1. /\ touched'[s] = touched[s] \cup {i}
          /\ m2 = IF m = NoIdx \/ new(i) > new(m) THEN i ELSE m
      BY <1>0, <2>3, <2>5, <2>10, <3>0, SMTT(30)
    <3>2. \A k \in Rows : /\ val(s, k)' = new(k) /\ new(k) \in Nat
                          /\ k # i => new(k) = val(s, k)
                          /\ val(s, k) \in Nat /\ val(s, k) <= new(k)
      <4>1. cactus'[s] = cur /\ cactus_prev'[s] = cactus_prev[r]
        BY <1>0, <2>2, <2>10
      <4>2. \A k \in Rows : cactus[s][k] \in Nat /\ cactus_prev[s][k] \in Nat
        BY <1>0, SMTT(30)
      <4> TAKE k \in Rows
      <4>3. /\ cur[k] \in Nat /\ cactus[s][k] \in Nat /\ cactus_prev[s][k] \in Nat
            /\ cactus[s][k] <= cur[k] /\ (k # i => cur[k] = cactus[s][k])
        BY <2>6, <2>7, <2>10, <4>2, SMTT(30)
      <4>4. val(s, k)' = new(k)
        BY <4>1, SMTT(30)
      <4> DEFINE pv == IF PrevEnable THEN cactus_prev[s][k] ELSE 0
      <4>5. pv \in Nat
        BY <4>3, SMTT(30)
      <4>6. new(k) = cur[k] + pv /\ val(s, k) = cactus[s][k] + pv
        BY <2>10, SMTT(30) DEF CounterVal
      <4> HIDE DEF pv, new, val
      <4>7. new(k) \in Nat /\ val(s, k) \in Nat /\ val(s, k) <= new(k)
        BY <4>3, <4>5, <4>6, SMTT(30)
      <4>8. k # i => new(k) = val(s, k)
        BY <4>3, <4>6, SMTT(30)
      <4> QED
        BY <4>4, <4>7, <4>8
    <3>3. touched[s] \subseteq Rows /\ m \in Rows \cup {NoIdx}
      BY <1>0, SMTT(30)
    <3>4. m = NoIdx => touched[s] = {}
      BY <1>03, <2>10, SMTT(30)
    <3>5. m # NoIdx => m \in touched[s] /\ \A k \in touched[s] : val(s, k) <= val(s, m)
      BY <1>03, <2>10, SMTT(30)
    <3> HIDE DEF new, val, m
    <3>6. m2 \in touched'[s] /\ m2 \in Rows
      BY <2>1, <3>1, <3>3, <3>5, SMTT(30) DEF m
    <3>7. \A k \in touched'[s] : new(k) <= new(m2)
      <4>1. CASE m = NoIdx
        BY <2>1, <3>1, <3>2, <3>4, <4>1, SMTT(30)
      <4>2. CASE m # NoIdx
        <5>1. \A k \in touched[s] : k # i => new(k) <= new(m)
          BY <3>2, <3>3, <3>5, <4>2, SMTT(30)
        <5> QED
          BY <2>1, <3>1, <3>2, <3>3, <4>2, <5>1, SMTT(30)
      <4> QED
        BY <4>1, <4>2, SMTT(30)
    <3>8. \A k \in touched'[s] : val(s, k)' <= val(s, m2)'
      BY <2>1, <3>1, <3>2, <3>3, <3>6, <3>7, SMTT(30)
    <3>9. m2 # NoIdx
      BY <1>00, <3>6, SMTT(30)
    <3> QED
      BY <3>0, <3>6, <3>8, <3>9
  <2> QED
    BY <2>8, <2>9, <2>10, Zenon
<1>9. CASE \/ RefreshClockTick \/ ChannelStateClockTick \/ IssuePREab
           \/ \E r \in Ranks, b \in Banks : IssuePrecharge(r, b)
           \/ IssueOther \/ UNCHANGED vars
  BY <1>02, <1>9, QuietSteps
<1> QED
  BY <1>4, <1>5, <1>8, <1>9, ZenonT(40) DEF Next

\* The invariant is inductive.
LEMMA InvStep == Inv /\ [Next]_vars => Inv'
<1> SUFFICES ASSUME Inv, [Next]_vars PROVE Inv'
  OBVIOUS
<1>1. TypeOK'
  BY TypeStep
<1>2. DrainConsistent'
  BY DrainStep
<1>3. AlertProtocol'
  BY ProtocolStep
<1>4. NeighbourWatched'
  BY HistoryStep
<1>5. MaxOfTouched'
  BY MaxStep
<1>6. RegisterUnused'
  BY UnusedStep
<1> QED
  BY <1>1, <1>2, <1>3, <1>4, <1>5, <1>6 DEF Inv

\* Every reachable state satisfies the inductive invariant.
THEOREM Invariance == Spec => []Inv
BY InitInv, InvStep, PTL DEF Spec

\* The variables keep their types (TypeOK).
THEOREM TypeCorrect == Spec => []TypeOK
<1>1. Inv => TypeOK
  BY DEF Inv
<1> QED
  BY <1>1, Invariance, PTL

\* The alert handshake of every rank holds in every reachable state: a counter
\* is remembered exactly while its alert or its RFMab is outstanding, and the
\* RFMab is queued exactly once (cactus_preact, ClockTick, UpdateState).
THEOREM AlertHandshake == Spec => []AlertProtocol
<1>1. Inv => AlertProtocol
  BY DEF Inv
<1> QED
  BY <1>1, Invariance, PTL

\* The assertions of FinishRefresh and FinishRFM hold, and a drain holds back
\* the queues of the command at the front of its queue for as long as it lasts.
THEOREM DrainsConsistent == Spec => []DrainConsistent
<1>1. Inv => DrainConsistent
  BY DEF Inv
<1> QED
  BY <1>1, Invariance, PTL

\* The register of tref_mode 1 holds a largest counter among those activated
\* since it was last cleared (cactus_preact, cactus_tref_max_mitig).
THEOREM GreedyRegister == Spec => []MaxOfTouched
<1>1. Inv => MaxOfTouched
  BY SMTT(30) DEF Inv
<1> QED
  BY <1>1, Invariance, PTL

\* A step that takes an RFMab request out of rfm_q_ mitigates its counter.
LEMMA LeavesStep ==
  ASSUME Inv, [Next]_vars, NEW s \in Ranks,
         InQueue(rfm_q, s), ~InQueue(rfm_q', s)
  PROVE  /\ pending_counter_idx[s] # NoIdx
         /\ cactus'[s][pending_counter_idx[s]] = 0
         /\ acts.rank = s /\ WatchedIdx = pending_counter_idx[s] => acts'.count = 0
<1> DEFINE p == pending_counter_idx[s]
           Cleared == /\ cactus'[s][p] = 0
                      /\ acts.rank = s /\ WatchedIdx = p => acts'.count = 0
<1>0. /\ TypeOK /\ rfm_q \in Seq(Ranks) /\ NoDup(rfm_q)
      /\ cactus \in [Ranks -> [Rows -> Nat]]
      /\ p \in Rows \cup {NoIdx} /\ p # NoIdx
  BY RFMQueueFacts, Zenon DEF Inv, TypeOK, AlertProtocol
<1>02. ~UNCHANGED rfm_q
  BY SMTT(30)
<1> SUFFICES Cleared
  BY <1>0, ZenonT(40)
<1> HIDE DEF p
\* A mitigation of counter p begins the history of its rows again.
<1>03. ASSUME NEW reached, acts' = ActsRefreshed(reached), MitigReaches(s, p) => reached
       PROVE  acts.rank = s /\ WatchedIdx = p => acts'.count = 0
  <2>1. acts \in HistoryType
    BY <1>0, TypeParts, Zenon DEF HistoryOK
  <2>2. [acts EXCEPT !.count = 0].count = 0
    BY <2>1 DEF HistoryType
  <2>3. acts.rank = s /\ WatchedIdx = p => reached
    BY <1>03, WatchedMitigated, Zenon
  <2> QED
    BY <1>03, <2>2, <2>3, Zenon DEF ActsRefreshed
<1>1. CASE ChannelStateClockTick
  <2>1. rfm_q' = AddRFM(rfm_q, loop_rank) /\ loop_rank \in Ranks
    BY <1>0, <1>02, <1>1, Zenon DEF ChannelStateClockTick, TypeOK
  <2> QED
    BY <1>0, <2>1, AddRFMType, ZenonT(40)
<1>2. CASE IssueRFMab
  <2>1. PICK r \in Ranks, i \in Rows :
          /\ i = pending_counter_idx[r] /\ rfm_q' = RemoveRank(rfm_q, r)
          /\ cactus' = [cactus EXCEPT ![r][i] = 0]
          /\ acts' = ActsRefreshed(MitigReaches(r, i))
    BY <1>2, RFMabEffect, Zenon
  <2>2. s = r /\ i = p
    BY <1>0, <2>1, RemoveRankType, SMTT(30) DEF p
  <2>3. cactus'[s][p] = 0
    BY <1>0, <2>1, <2>2, SMTT(30)
  <2> QED
    BY <1>03, <2>1, <2>2, <2>3, Zenon
<1>3. CASE IssueREFab
  <2>1. PICK r \in Ranks, t \in Rows \cup {NoIdx} :
          /\ cactus' = [cactus EXCEPT ![r] =
               [i \in Rows |-> IF i = t \/ i \in ResetRange THEN 0 ELSE cactus[r][i]]]
          /\ acts' = ActsRefreshed(RefReaches(r) \/ (t # NoIdx /\ MitigReaches(r, t)))
          /\ \/ /\ t # NoIdx /\ t = pending_counter_idx[r]
                /\ rfm_q' = RemoveRank(rfm_q, r)
             \/ UNCHANGED rfm_q
    BY <1>3, REFabEffect, Zenon
  <2>2. s = r /\ t = p /\ t # NoIdx
    BY <1>0, <1>02, <2>1, RemoveRankType, SMTT(30) DEF p
  <2>3. cactus'[s][p] = 0
    BY <1>0, <2>1, <2>2, SMTT(30)
  <2> QED
    BY <1>03, <2>1, <2>2, <2>3, Zenon
<1>4. CASE RefreshClockTick \/ IssuePREab \/ IssueOther \/ UNCHANGED vars
  BY <1>02, <1>4, SMTT(30) DEF RefreshClockTick, IssuePREab, IssueOther, vars
<1>5. ASSUME NEW r \in Ranks, NEW b \in Banks, NEW row \in Rows,
             IssueActivate(r, b, row)
      PROVE  FALSE
  BY <1>02, <1>5 DEF IssueActivate
<1>6. ASSUME NEW r \in Ranks, NEW b \in Banks, IssuePrecharge(r, b)
      PROVE  FALSE
  BY <1>02, <1>6 DEF IssuePrecharge
<1> QED
  BY <1>1, <1>2, <1>3, <1>4, <1>5, <1>6, ZenonT(40) DEF Next

\* An RFMab request leaves rfm_q_ only in a step that mitigates the counter whose
\* alert asked for it and, in every bank, refreshes the neighbours of its row
\* (cactus_mitig, cactus_tref_mitig, cactus_tref_max_mitig).
THEOREM NoAlertDropped == Spec => MitigatedBeforeRFMLeaves
<1>1. Inv /\ [Next]_vars =>
        [\A r \in Ranks :
           InQueue(rfm_q, r) /\ ~InQueue(rfm_q', r)
           => LET i == pending_counter_idx[r] IN
              /\ i # NoIdx /\ cactus'[r][i] = 0
              /\ acts.rank = r /\ WatchedIdx = i => acts'.count = 0]_vars
  BY LeavesStep, Zenon
<1> QED
  BY <1>1, Invariance, PTL DEF Spec, MitigatedBeforeRFMLeaves
=============================================================================
