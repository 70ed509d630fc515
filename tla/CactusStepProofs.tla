-------------------------- MODULE CactusStepProofs --------------------------
(***************************************************************************)
(* Proofs about module Cactus, second part: every step keeps               *)
(* DrainConsistent and AlertProtocol, and what steps do to the history.    *)
(***************************************************************************)
EXTENDS CactusTypeProofs

\* Every step keeps DrainConsistent: requests are only appended behind the
\* front, and only the drained command takes the front away.
LEMMA DrainStep ==
  ASSUME Inv, [Next]_vars
  PROVE  DrainConsistent'
<1> USE DEF DrainConsistent
<1>0. TypeOK /\ DrainConsistent /\ AlertProtocol /\ QueuesOK
  BY TypeParts DEF Inv
<1>1. CASE RefreshClockTick
  <2>1. refresh_q # << >> => refresh_q' # << >> /\ Head(refresh_q') = Head(refresh_q)
    <3>1. CASE ref_clk = RefInterval
      <4>1. refresh_q' = Append(refresh_q, next_rank)
        BY <1>1, <3>1 DEF RefreshClockTick
      <4> QED
        BY <1>0, <4>1 DEF QueuesOK
    <3>2. CASE ref_clk # RefInterval
      BY <1>1, <3>2 DEF RefreshClockTick
    <3> QED
      BY <3>1, <3>2
  <2>2. UNCHANGED <<rfm_q, drainVars>>
    BY <1>1 DEF RefreshClockTick
  <2> QED
    BY <1>0, <2>1, <2>2 DEF drainVars
<1>2. CASE ChannelStateClockTick
  <2>1. rfm_q # << >> => rfm_q' # << >> /\ Head(rfm_q') = Head(rfm_q)
    <3>1. rfm_q' = AddRFM(rfm_q, loop_rank) \/ rfm_q' = rfm_q
      BY <1>2 DEF ChannelStateClockTick
    <3> QED
      BY <1>0, <3>1, RFMQueueFacts, AddRFMType, Zenon DEF QueuesOK
  <2>2. UNCHANGED <<refresh_q, drainVars>>
    BY <1>2 DEF ChannelStateClockTick
  <2> QED
    BY <1>0, <2>1, <2>2 DEF drainVars
<1>3. CASE IssuePREab
  <2>1. CASE MustFinishRFM /\ BeginRFM
    BY <1>0, <1>3, <2>1, HeadRFM DEF IssuePREab, BeginRFM
  <2>2. CASE MustFinishRefresh /\ BeginRefresh
    BY <1>0, <1>3, <2>2, HeadRefresh, SMTT(30) DEF IssuePREab, BeginRefresh
  <2> QED
    BY <1>3, <2>1, <2>2 DEF IssuePREab
<1>4. CASE IssueRFMab
  BY <1>0, <1>4, HeadRFM, SMTT(30) DEF IssueRFMab
<1>5. CASE IssueREFab
  BY <1>0, <1>5, HeadRefresh, Zenon DEF IssueREFab
<1>6. ASSUME DrainNotReady, UNCHANGED <<refresh_q, rfm_q>>
      PROVE  DrainConsistent'
  <2>1. CASE UNCHANGED drainVars
    BY <1>0, <1>6, <2>1 DEF drainVars
  <2>2. CASE MustFinishRFM /\ BeginRFM
    BY <1>0, <1>6, <2>2, HeadRFM DEF BeginRFM
  <2>3. CASE MustFinishRefresh /\ BeginRefresh
    BY <1>0, <1>6, <2>3, HeadRefresh DEF BeginRefresh
  <2> QED
    BY <1>6, <2>1, <2>2, <2>3 DEF DrainNotReady
<1>7. CASE UNCHANGED vars
  BY <1>0, <1>7, SMTT(30) DEF vars, drainVars
<1>8. ASSUME NEW r \in Ranks, NEW b \in Banks, NEW row \in Rows,
             IssueActivate(r, b, row)
      PROVE  DrainConsistent'
  BY <1>6, <1>8 DEF IssueActivate
<1>9. ASSUME NEW r \in Ranks, NEW b \in Banks, IssuePrecharge(r, b)
      PROVE  DrainConsistent'
  BY <1>6, <1>9 DEF IssuePrecharge
<1>10. CASE IssueOther
  BY <1>6, <1>10, SMTT(30) DEF IssueOther
<1> QED
  BY <1>1, <1>2, <1>3, <1>4, <1>5, <1>7, <1>8, <1>9, <1>10 DEF Next

-----------------------------------------------------------------------------
(* The steps that change the alert handshake or the counters, one fact per *)
(* action.                                                                 *)

\* What an ACTIVATE does to the counters and to the alert handshake.
LEMMA ActivateEffect ==
  ASSUME NEW r \in Ranks, NEW b \in Banks, NEW row \in Rows,
         IssueActivate(r, b, row),
         NEW i, i = get_cactus_idx(r, b, row)
  PROVE  /\ cactus' = [cactus EXCEPT ![r] = [cactus[r] EXCEPT ![i] = @ + 1]]
         /\ acts' = IF r = acts.rank /\ b = acts.bank /\ row = acts.row
                    THEN [acts EXCEPT !.count = @ + 1] ELSE acts
         /\ \/ /\ ~alert_pending[r] /\ ~rfm_inflight[r]
               /\ alert_pending' = [alert_pending EXCEPT ![r] = TRUE]
               /\ pending_counter_idx' = [pending_counter_idx EXCEPT ![r] = i]
            \/ UNCHANGED <<alert_pending, pending_counter_idx>>
         /\ UNCHANGED <<cactus_prev, rfm_inflight, rfm_q, refresh_q>>
BY ZenonT(40) DEF IssueActivate, RaisesAlert

\* What a REFab does to the counters and to the alert handshake: it cancels an
\* alert only when it mitigates the counter of that alert.
LEMMA REFabEffect ==
  ASSUME Inv, IssueREFab
  PROVE  \E r \in Ranks, t \in Rows \cup {NoIdx} :
           /\ r = Head(refresh_q) /\ t = TrefTarget(r)
           /\ cactus' = [cactus EXCEPT ![r] =
                [i \in Rows |-> IF i = t \/ i \in ResetRange THEN 0 ELSE cactus[r][i]]]
           /\ acts' = ActsRefreshed(RefReaches(r) \/ (t # NoIdx /\ MitigReaches(r, t)))
           /\ \/ /\ t # NoIdx /\ t = pending_counter_idx[r]
                 /\ pending_counter_idx' = [pending_counter_idx EXCEPT ![r] = NoIdx]
                 /\ alert_pending' = [alert_pending EXCEPT ![r] = FALSE]
                 /\ rfm_inflight' = [rfm_inflight EXCEPT ![r] = FALSE]
                 /\ rfm_q' = RemoveRank(rfm_q, r)
              \/ UNCHANGED <<pending_counter_idx, alert_pending, rfm_inflight, rfm_q>>
<1> DEFINE r == Head(refresh_q)
           t == TrefTarget(r)
<1>1. r \in Ranks
  BY HeadRefresh, Zenon DEF IssueREFab, Inv
<1>2. t \in Rows \cup {NoIdx}
  BY <1>1, TrefTargetType DEF Inv
<1>3. cactus' = [cactus EXCEPT ![r] =
        [i \in Rows |-> IF i = t \/ i \in ResetRange THEN 0 ELSE cactus[r][i]]]
  <2>1. cactus' = [cactus EXCEPT ![r] =
          [i \in Rows |-> IF i = t THEN 0 ELSE CurAfterReset(r)[i]]]
    BY Zenon DEF IssueREFab
  <2>2. [i \in Rows |-> IF i = t THEN 0 ELSE CurAfterReset(r)[i]]
          = [i \in Rows |-> IF i = t \/ i \in ResetRange THEN 0 ELSE cactus[r][i]]
    <3> HIDE DEF t
    <3> QED
      BY SMTT(30) DEF CurAfterReset
  <2> QED
    BY <2>1, <2>2, Zenon
<1>4. acts' = ActsRefreshed(RefReaches(r) \/ (t # NoIdx /\ MitigReaches(r, t)))
  BY ZenonT(40) DEF IssueREFab
<1>5. \/ /\ t # NoIdx /\ t = pending_counter_idx[r]
         /\ pending_counter_idx' = [pending_counter_idx EXCEPT ![r] = NoIdx]
         /\ alert_pending' = [alert_pending EXCEPT ![r] = FALSE]
         /\ rfm_inflight' = [rfm_inflight EXCEPT ![r] = FALSE]
         /\ rfm_q' = RemoveRank(rfm_q, r)
      \/ UNCHANGED <<pending_counter_idx, alert_pending, rfm_inflight, rfm_q>>
  BY Zenon DEF IssueREFab, Absorbs
<1> HIDE DEF t, r
<1> QED
  BY <1>1, <1>2, <1>3, <1>4, <1>5, Zenon DEF t, r

\* Every step keeps TypeOK.
LEMMA TypeStep ==
  ASSUME Inv, [Next]_vars
  PROVE  TypeOK'
<1>1. FlagsOK'
  <2>1. FlagsOK
    BY TypeParts DEF Inv
  <2> QED
    BY <2>1, FlagsStep
<1>2. QueuesOK'
  BY QueuesStep
<1>3. CountersOK'
  BY CountersStep
<1>4. RegistersOK'
  BY RegistersStep
<1>5. HistoryOK'
  BY HistoryStep
<1> QED
  BY <1>1, <1>2, <1>3, <1>4, <1>5, Zenon
     DEF TypeOK, FlagsOK, QueuesOK, CountersOK, RegistersOK, HistoryOK, HistoryType

\* Every step keeps AlertProtocol.
LEMMA ProtocolStep ==
  ASSUME Inv, [Next]_vars
  PROVE  AlertProtocol'
<1> DEFINE Handshake(pci, ap, inf, q) ==
             /\ \A r \in Ranks :
                  /\ pci[r] # NoIdx <=> ap[r] \/ inf[r]
                  /\ ~(ap[r] /\ inf[r])
                  /\ inf[r] <=> InQueue(q, r)
             /\ NoDup(q)
<1>0. /\ TypeOK /\ DrainConsistent /\ rfm_q \in Seq(Ranks) /\ NoDup(rfm_q)
      /\ Handshake(pending_counter_idx, alert_pending, rfm_inflight, rfm_q)
  BY RFMQueueFacts, SMTT(30) DEF Inv, AlertProtocol
<1>01. /\ pending_counter_idx \in [Ranks -> Rows \cup {NoIdx}]
       /\ alert_pending \in [Ranks -> BOOLEAN]
       /\ rfm_inflight \in [Ranks -> BOOLEAN]
  BY <1>0, Zenon DEF TypeOK
<1>02. ASSUME Handshake(pending_counter_idx', alert_pending', rfm_inflight', rfm_q')
       PROVE  AlertProtocol'
  BY <1>02, SMTT(30) DEF AlertProtocol, NoDup, InQueue
<1>03. ASSUME UNCHANGED <<pending_counter_idx, alert_pending, rfm_inflight, rfm_q>>
       PROVE  AlertProtocol'
  BY <1>0, <1>02, <1>03
<1>1. CASE RefreshClockTick
  BY <1>03, <1>1 DEF RefreshClockTick, trackerVars
<1>2. CASE ChannelStateClockTick
  <2>1. CASE AlertDue(loop_rank)
    <3> DEFINE r == loop_rank
    <3>1. /\ r \in Ranks /\ alert_pending[r]
          /\ rfm_q' = AddRFM(rfm_q, r)
          /\ alert_pending' = [alert_pending EXCEPT ![r] = FALSE]
          /\ rfm_inflight' = [rfm_inflight EXCEPT ![r] = TRUE]
          /\ pending_counter_idx' = pending_counter_idx
      BY <1>0, <1>2, <2>1, Zenon DEF ChannelStateClockTick, AlertDue, TypeOK
    <3>2. /\ NoDup(rfm_q')
          /\ \A x \in Ranks : InQueue(rfm_q', x) <=> InQueue(rfm_q, x) \/ x = r
      BY <1>0, <3>1, AddRFMType, Zenon
    <3> HIDE DEF r
    <3>3. Handshake(pending_counter_idx', alert_pending', rfm_inflight', rfm_q')
      BY <1>0, <1>01, <3>1, <3>2
    <3> QED
      BY <1>02, <3>3, ZenonT(40)
  <2>2. CASE ~AlertDue(loop_rank)
    BY <1>03, <1>2, <2>2 DEF ChannelStateClockTick
  <2> QED
    BY <2>1, <2>2, SMTT(30)
<1>3. CASE IssuePREab
  BY <1>03, <1>3, SMTT(30) DEF IssuePREab, trackerVars
<1>4. CASE IssueRFMab
  <2>1. PICK r \in Ranks :
          /\ ~alert_pending[r]
          /\ rfm_q' = RemoveRank(rfm_q, r)
          /\ pending_counter_idx' = [pending_counter_idx EXCEPT ![r] = NoIdx]
          /\ rfm_inflight' = [rfm_inflight EXCEPT ![r] = FALSE]
    BY <1>4, RFMabEffect, SMTT(30)
  <2>2. alert_pending' = alert_pending
    BY <1>4, SMTT(30) DEF IssueRFMab
  <2>3. /\ NoDup(rfm_q')
        /\ \A x \in Ranks : InQueue(rfm_q', x) <=> InQueue(rfm_q, x) /\ x # r
    BY <1>0, <2>1, RemoveRankType, SMTT(30)
  <2>4. Handshake(pending_counter_idx', alert_pending', rfm_inflight', rfm_q')
    BY <1>0, <1>01, <2>1, <2>2, <2>3
  <2> QED
    BY <1>02, <2>4, SMTT(30)
<1>5. CASE IssueREFab
  <2>1. PICK r \in Ranks :
          \/ /\ pending_counter_idx' = [pending_counter_idx EXCEPT ![r] = NoIdx]
             /\ alert_pending' = [alert_pending EXCEPT ![r] = FALSE]
             /\ rfm_inflight' = [rfm_inflight EXCEPT ![r] = FALSE]
             /\ rfm_q' = RemoveRank(rfm_q, r)
          \/ UNCHANGED <<pending_counter_idx, alert_pending, rfm_inflight, rfm_q>>
    BY <1>5, REFabEffect
  <2>2. CASE UNCHANGED <<pending_counter_idx, alert_pending, rfm_inflight, rfm_q>>
    BY <1>03, <2>2, SMTT(30)
  <2>3. CASE /\ pending_counter_idx' = [pending_counter_idx EXCEPT ![r] = NoIdx]
             /\ alert_pending' = [alert_pending EXCEPT ![r] = FALSE]
             /\ rfm_inflight' = [rfm_inflight EXCEPT ![r] = FALSE]
             /\ rfm_q' = RemoveRank(rfm_q, r)
    <3>1. /\ NoDup(rfm_q')
          /\ \A x \in Ranks : InQueue(rfm_q', x) <=> InQueue(rfm_q, x) /\ x # r
      BY <1>0, <2>3, RemoveRankType, SMTT(30)
    <3>2. Handshake(pending_counter_idx', alert_pending', rfm_inflight', rfm_q')
      BY <1>0, <1>01, <2>3, <3>1
    <3> QED
      BY <1>02, <3>2
  <2> QED
    BY <2>1, <2>2, <2>3, SMTT(30)
<1>7. CASE UNCHANGED vars
  BY <1>03, <1>7 DEF vars, trackerVars
<1>8. ASSUME NEW r \in Ranks, NEW b \in Banks, NEW row \in Rows,
             IssueActivate(r, b, row)
      PROVE  AlertProtocol'
  <2>1. PICK i \in Rows :
          /\ \/ /\ ~alert_pending[r] /\ ~rfm_inflight[r]
                /\ alert_pending' = [alert_pending EXCEPT ![r] = TRUE]
                /\ pending_counter_idx' = [pending_counter_idx EXCEPT ![r] = i]
             \/ UNCHANGED <<alert_pending, pending_counter_idx>>
          /\ UNCHANGED <<rfm_inflight, rfm_q>>
    BY <1>8, ActivateEffect, IdxOfRow
  <2>2. i # NoIdx
    BY SMTT(30) DEF Rows, NoIdx
  <2>3. Handshake(pending_counter_idx', alert_pending', rfm_inflight', rfm_q')
    BY <1>0, <1>01, <2>1, <2>2
  <2> QED
    BY <1>02, <2>3, Zenon
<1>9. ASSUME NEW r \in Ranks, NEW b \in Banks, IssuePrecharge(r, b)
      PROVE  AlertProtocol'
  BY <1>03, <1>9 DEF IssuePrecharge, trackerVars
<1>10. CASE IssueOther
  BY <1>03, <1>10 DEF IssueOther, trackerVars
<1> QED
  BY <1>1, <1>2, <1>3, <1>4, <1>5, <1>7, <1>8, <1>9, <1>10, SMTT(30) DEF Next

\* The steps that leave the counters, the history and the register alone.
LEMMA QuietSteps ==
  ASSUME \/ RefreshClockTick \/ ChannelStateClockTick \/ IssuePREab
         \/ \E r \in Ranks, b \in Banks : IssuePrecharge(r, b)
         \/ IssueOther \/ UNCHANGED vars
  PROVE  UNCHANGED <<cactus, cactus_prev, acts, tref_max_counter_idx, touched>>
<1>1. CASE RefreshClockTick
  BY <1>1, SMTT(30) DEF RefreshClockTick, trackerVars
<1>2. CASE ChannelStateClockTick
  BY <1>2, SMTT(30) DEF ChannelStateClockTick
<1>3. CASE IssuePREab
  BY <1>3, SMTT(30) DEF IssuePREab, trackerVars
<1>4. ASSUME NEW r \in Ranks, NEW b \in Banks, IssuePrecharge(r, b)
      PROVE  UNCHANGED <<cactus, cactus_prev, acts, tref_max_counter_idx, touched>>
  BY <1>4, SMTT(30) DEF IssuePrecharge, trackerVars
<1>5. CASE IssueOther
  BY <1>5, SMTT(30) DEF IssueOther, trackerVars
<1>6. CASE UNCHANGED vars
  BY <1>6, SMTT(30) DEF vars, trackerVars
<1> QED
  BY <1>1, <1>2, <1>3, <1>4, <1>5, <1>6, Zenon

\* Mitigating the counter of the watched row refreshes the neighbour, whatever
\* row the counter stands for in the other banks.
LEMMA WatchedMitigated ==
  ASSUME Inv
  PROVE  WatchedIdx \in Rows /\ MitigReaches(acts.rank, WatchedIdx)
<1>0. acts \in HistoryType /\ acts.victim \in Victims(acts.row)
  BY TypeParts, Zenon DEF Inv, HistoryOK, NeighbourWatched
<1>1. acts.rank \in Ranks /\ acts.bank \in Banks /\ acts.row \in Rows
  BY <1>0 DEF HistoryType
<1>2. /\ WatchedIdx \in Rows
      /\ get_cactus_row_idx(acts.rank, acts.bank, WatchedIdx) = acts.row
  <2>1. /\ WatchedIdx \in Rows
        /\ \A i \in Rows : WatchedIdx = i
             <=> get_cactus_row_idx(acts.rank, acts.bank, i) = acts.row
    BY <1>1, IdxOfRow DEF WatchedIdx
  <2> QED
    BY <2>1, Zenon
<1> QED
  BY <1>0, <1>1, <1>2, VictimsRefreshed, Zenon DEF MitigReaches
=============================================================================
