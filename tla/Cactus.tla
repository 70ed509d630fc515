------------------------------- MODULE Cactus -------------------------------
(***************************************************************************)
(* The CACTUS activation tracker of a DRAM channel, with the part of the   *)
(* controller its mitigations travel through.                              *)
(*                                                                         *)
(* Sources (DRAMsim3/src): channel_state.cc (cactus_preact,                *)
(* cactus_mitig_counter, cactus_tref_mitig, cactus_tref_max_mitig,         *)
(* cactus_refresh, ClockTick, RankNeedRFM, UpdateState), bankstate.cc      *)
(* (cactus_mitig, the rows a refresh command refreshes), command_queue.cc  *)
(* (FinishRefresh, FinishRFM), controller.cc (ClockTick) and refresh.cc.   *)
(*                                                                         *)
(* The configuration modelled is the one of configs/cactus: refresh_policy *)
(* RANK_LEVEL_STAGGERED, queue_structure PER_BANK, cactus_mode 1,          *)
(* rfm_mode 0, drfm_mode 0, moat_mode 0 and no self-refresh.               *)
(*                                                                         *)
(* One Controller::ClockTick is a run of steps, in the order of the code:  *)
(* phase "refresh", then "alert" once for every rank, then "command".      *)
(* When a command's timing constraints are met is left open, up to         *)
(* MaxStall ticks for the command a refresh or an RFM is waiting for.      *)
(***************************************************************************)
EXTENDS Integers, Sequences

CONSTANTS
  NumRanks,      \* config_.ranks
  Banks,         \* the banks of a rank (bank group and bank together)
  NumRows,       \* config_.rows, which is also cactus_size_
  RowPerm,       \* cactus_row_perms_: counter index to row, for every bank
  Threshold,     \* config_.cactus_th
  PrevEnable,    \* config_.cactus_prev_enable
  TrefMode,      \* "off", "absorb" (tref_mode 0) or "max" (tref_mode 1)
  TrefInterval,  \* config_.tref_interval
  ABODelay,      \* config_.ABO_delay_acts
  TABO,          \* config_.tABO_act
  RefInterval,   \* refresh_interval_ = tREFI / ranks
  RefChunks,     \* config_.refchunks
  Factor,        \* config_.cactus_reset
  MaxCount,      \* bound of this model: activations counted per counter
  MaxStall       \* bound of this model: ticks a drain may have to wait

Ranks == 0 .. NumRanks - 1
Rows == 0 .. NumRows - 1
NoIdx == -1

ASSUME SizeAssumption ==
  /\ NumRanks \in Nat \ {0}
  /\ NumRows \in Nat \ {0, 1}
  /\ RefInterval \in Nat \ {0}
  /\ TrefInterval \in Nat \ {0}
  /\ Threshold \in Nat /\ ABODelay \in Nat /\ TABO \in Nat
  /\ MaxCount \in Nat /\ MaxStall \in Nat

ASSUME ModeAssumption ==
  /\ PrevEnable \in BOOLEAN
  /\ TrefMode \in {"off", "absorb", "max"}

\* std::shuffle permutes the row numbers of each bank.
ASSUME PermAssumption ==
  /\ RowPerm \in [Ranks -> [Banks -> [Rows -> Rows]]]
  /\ \A r \in Ranks, b \in Banks, row \in Rows :
        \E i \in Rows : /\ RowPerm[r][b][i] = row
                        /\ \A j \in Rows : RowPerm[r][b][j] = row => j = i

\* The chunks of one window cover the counters exactly.
ASSUME ChunkAssumption ==
  /\ RefChunks \in Nat \ {0} /\ Factor \in Nat \ {0}
  /\ RefChunks % Factor = 0 /\ NumRows % RefChunks = 0

VARIABLES
  phase,                 \* the step of Controller::ClockTick to run next
  loop_rank,             \* the loop variable of ChannelState::ClockTick
  cactus,                \* cactus_, by rank
  cactus_prev,           \* cactus_prev_, by rank
  pending_counter_idx,   \* cactus_pending_counter_idx_
  alert_pending,         \* cactus_alert_pending_
  alert_age,             \* clk - cactus_last_alert_clk_ of a pending alert
  rfm_inflight,          \* cactus_rfm_inflight_
  acts_since_rfm,        \* cactus_acts_since_rfm_, up to ABODelay
  tref_refab_count,      \* cactus_tref_refab_count_ modulo TrefInterval
  tref_max_counter_idx,  \* cactus_tref_max_counter_idx_
  ref_idx,               \* ref_idx_, one for the channel
  bank_ref_idx,          \* ref_idx_ of the banks of each rank: the row to
                         \* refresh next (a REFab moves all banks of a rank)
  refresh_q, rfm_q,      \* the ranks of the queued REFab and RFMab
  is_in_ref, is_in_rfm,  \* a REFab, an RFMab is being drained for
  ref_q_indices,         \* the ranks whose queues the REFab holds back
  rfm_q_indices,         \* the ranks whose queues the RFMab holds back
  stall,                 \* ticks the drain has waited for its next command
  open,                  \* the banks of each rank with an open row
  next_rank, ref_clk,    \* next_rank_; ticks since the last refresh request
  acts,                  \* history: any row, any one of its neighbours, and the
                         \* activations of the row since the neighbour was
                         \* refreshed
  touched                \* history: counters the max register has compared

trackerVars == <<cactus, cactus_prev, pending_counter_idx, alert_pending,
                 alert_age, rfm_inflight, acts_since_rfm, tref_refab_count,
                 tref_max_counter_idx, ref_idx, bank_ref_idx, acts, touched>>
drainVars == <<is_in_ref, is_in_rfm, ref_q_indices, rfm_q_indices, stall>>
refreshVars == <<next_rank, ref_clk>>
vars == <<phase, loop_rank, trackerVars, refresh_q, rfm_q, drainVars, open,
          refreshVars>>

-----------------------------------------------------------------------------
(* Counter indices. *)

get_cactus_idx(r, b, row) == CHOOSE i \in Rows : RowPerm[r][b][i] = row

get_cactus_row_idx(r, b, i) == RowPerm[r][b][i]

\* The value a counter is compared by, and the threshold that belongs to it.
CounterVal(cur, prev, i) == cur[i] + (IF PrevEnable THEN prev[i] ELSE 0)
AlertThreshold == IF PrevEnable THEN 2 * Threshold ELSE Threshold

\* Mutant: the second lower neighbour of row 2 is forgotten.
MutantRefreshedRows(row) ==
  (IF row > 2 THEN {row - 2} ELSE {}) \cup
  (IF row > 0 THEN {row - 1} ELSE {}) \cup
  (IF row + 1 < NumRows THEN {row + 1} ELSE {}) \cup
  (IF row + 2 < NumRows THEN {row + 2} ELSE {})

\* BankState::cactus_mitig: the rows refreshed for one aggressor row.
RefreshedRows(row) ==
  (IF row > 1 THEN {row - 2} ELSE {}) \cup
  (IF row > 0 THEN {row - 1} ELSE {}) \cup
  (IF row + 1 < NumRows THEN {row + 1} ELSE {}) \cup
  (IF row + 2 < NumRows THEN {row + 2} ELSE {})

\* The neighbours of a row: every row at distance one or two.
Victims(row) == {v \in Rows : v # row /\ v - row \in -2 .. 2}

\* cactus_mitig_counter for counter i of rank r, in every bank, refreshes the
\* neighbour the history is about.
MitigReaches(r, i) ==
  /\ r = acts.rank
  /\ acts.victim \in RefreshedRows(get_cactus_row_idx(r, acts.bank, i))

\* So does a REFab of rank r, by row numbers, whatever the counters.
rows_refreshed == NumRows \div RefChunks

RefReaches(r) ==
  /\ r = acts.rank
  /\ acts.victim \in {(bank_ref_idx[r] + i) % NumRows : i \in 0 .. rows_refreshed - 1}

ActsRefreshed(reached) == IF reached THEN [acts EXCEPT !.count = 0] ELSE acts

\* Mutant: every REFab resets all counters.
MutantResetRange == Rows

\* The counters cactus_refresh resets at the current ref_idx.
ResetRange ==
  LET rows_per_ref == Factor * (NumRows \div RefChunks)
      factored_ref_idx == ref_idx % (RefChunks \div Factor)
  IN  (factored_ref_idx * rows_per_ref) ..
         ((factored_ref_idx + 1) * rows_per_ref - 1)

-----------------------------------------------------------------------------
(* The request queues: ChannelState::RankNeedRefresh and RankNeedRFM. *)

InQueue(q, r) == \E k \in DOMAIN q : q[k] = r
AddRFM(q, r) == IF InQueue(q, r) THEN q ELSE Append(q, r)
RemoveAt(q, k) == SubSeq(q, 1, k - 1) \o SubSeq(q, k + 1, Len(q))
\* Mutant: the front of the queue is removed, whosever it is.
MutantRemoveRank(q, r) == IF q = << >> THEN q ELSE Tail(q)

RemoveRank(q, r) ==
  IF InQueue(q, r)
  THEN RemoveAt(q, CHOOSE k \in DOMAIN q : /\ q[k] = r
                                           /\ \A j \in DOMAIN q : q[j] = r => k <= j)
  ELSE q

-----------------------------------------------------------------------------
Histories ==
  {h \in [rank : Ranks, bank : Banks, row : Rows, victim : Rows, count : {0}] :
     h.victim \in Victims(h.row)}

Init ==
  /\ phase = "refresh" /\ loop_rank = 0
  /\ cactus = [r \in Ranks |-> [i \in Rows |-> 0]]
  /\ cactus_prev = [r \in Ranks |-> [i \in Rows |-> 0]]
  /\ pending_counter_idx = [r \in Ranks |-> NoIdx]
  /\ alert_pending = [r \in Ranks |-> FALSE]
  /\ alert_age = [r \in Ranks |-> 0]
  /\ rfm_inflight = [r \in Ranks |-> FALSE]
  /\ acts_since_rfm = [r \in Ranks |-> 0]
  /\ tref_refab_count = [r \in Ranks |-> 0]
  /\ tref_max_counter_idx = [r \in Ranks |-> NoIdx]
  /\ ref_idx = 0 /\ bank_ref_idx = [r \in Ranks |-> 0]
  /\ refresh_q = << >> /\ rfm_q = << >>
  /\ is_in_ref = FALSE /\ is_in_rfm = FALSE
  /\ ref_q_indices = {} /\ rfm_q_indices = {} /\ stall = 0
  /\ open = [r \in Ranks |-> {}]
  /\ next_rank = 0 /\ ref_clk = 0
  /\ acts \in Histories
  /\ touched = [r \in Ranks |-> {}]

\* Mutant: the rank is not wrapped around.
MutantIterateNext == next_rank + 1

IterateNext == (next_rank + 1) % NumRanks

\* Refresh::ClockTick with InsertRefresh.
RefreshClockTick ==
  /\ phase = "refresh"
  /\ phase' = "alert" /\ loop_rank' = 0
  /\ IF ref_clk = RefInterval
     THEN /\ refresh_q' = Append(refresh_q, next_rank)
          /\ next_rank' = IterateNext
          /\ ref_clk' = 1
     ELSE /\ ref_clk' = ref_clk + 1
          /\ UNCHANGED <<refresh_q, next_rank>>
  /\ UNCHANGED <<trackerVars, rfm_q, drainVars, open>>

\* ChannelState::ClockTick, one iteration of its loop over the ranks: an alert
\* that is tABO_act old becomes an RFMab request.
AlertDue(r) == /\ alert_pending[r] /\ ~rfm_inflight[r]
               /\ alert_age[r] + 1 >= TABO

ChannelStateClockTick ==
  /\ phase = "alert"
  /\ LET r == loop_rank IN
     /\ IF AlertDue(r)
        THEN /\ rfm_q' = AddRFM(rfm_q, r)
             /\ alert_pending' = [alert_pending EXCEPT ![r] = FALSE]
             /\ alert_age' = [alert_age EXCEPT ![r] = 0]
             /\ rfm_inflight' = [rfm_inflight EXCEPT ![r] = TRUE]
        ELSE /\ alert_age' = [alert_age EXCEPT ![r] =
                               IF alert_pending[r] /\ @ < TABO THEN @ + 1 ELSE @]
             /\ UNCHANGED <<rfm_q, alert_pending, rfm_inflight>>
     /\ loop_rank' = (r + 1) % NumRanks
     /\ phase' = IF r + 1 = NumRanks THEN "command" ELSE "alert"
  /\ UNCHANGED <<cactus, cactus_prev, pending_counter_idx, acts_since_rfm,
                 tref_refab_count, tref_max_counter_idx, ref_idx, bank_ref_idx,
                 acts, touched, refresh_q, drainVars, open, refreshVars>>

-----------------------------------------------------------------------------
(* Which drain Controller::ClockTick serves: an RFM that has begun, then a *)
(* refresh that has begun, then a waiting refresh, then a waiting RFM.     *)

\* Mutants: a waiting RFM never begins; a refresh begins during an RFM; a
\* waiting refresh never begins.
MutantMustFinishRFM == is_in_rfm
MutantMustFinishRefresh == is_in_ref \/ refresh_q # << >>
MutantNoRefreshBegins == ~is_in_rfm /\ is_in_ref

MustFinishRFM ==
  is_in_rfm \/ (~is_in_ref /\ refresh_q = << >> /\ rfm_q # << >>)
MustFinishRefresh == ~is_in_rfm /\ (is_in_ref \/ refresh_q # << >>)

\* CommandQueue::FinishRFM and FinishRefresh before their command is ready:
\* the queues to hold back are computed when the drain begins, and only then.
BeginRFM ==
  /\ is_in_rfm' = TRUE
  /\ rfm_q_indices' = IF is_in_rfm THEN rfm_q_indices ELSE {Head(rfm_q)}
  /\ UNCHANGED <<is_in_ref, ref_q_indices>>
BeginRefresh ==
  /\ is_in_ref' = TRUE
  /\ ref_q_indices' = IF is_in_ref THEN ref_q_indices ELSE {Head(refresh_q)}
  /\ UNCHANGED <<is_in_rfm, rfm_q_indices>>

CommandStep == /\ phase = "command" /\ phase' = "refresh"
               /\ UNCHANGED <<loop_rank, refreshVars>>

\* A row is open in the rank: the drain precharges all banks of the rank.
IssuePREab ==
  /\ CommandStep
  /\ \/ /\ MustFinishRFM /\ BeginRFM
        /\ open[Head(rfm_q)] # {}
        /\ open' = [open EXCEPT ![Head(rfm_q)] = {}]
     \/ /\ MustFinishRefresh /\ BeginRefresh
        /\ open[Head(refresh_q)] # {}
        /\ open' = [open EXCEPT ![Head(refresh_q)] = {}]
  /\ stall' = 0
  /\ UNCHANGED <<trackerVars, refresh_q, rfm_q>>

\* The RFMab itself. UpdateState: cactus_mitig on the pending counter.
IssueRFMab ==
  /\ CommandStep /\ MustFinishRFM
  /\ LET r == Head(rfm_q)
         i == pending_counter_idx[r]
         mitig == rfm_inflight[r] /\ i # NoIdx
     IN
     /\ open[r] = {}
     /\ rfm_q' = RemoveRank(rfm_q, r)
     /\ IF mitig
        THEN /\ cactus_prev' = [cactus_prev EXCEPT ![r][i] = cactus[r][i]]
             /\ cactus' = [cactus EXCEPT ![r][i] = 0]
             /\ acts' = ActsRefreshed(MitigReaches(r, i))
             /\ pending_counter_idx' = [pending_counter_idx EXCEPT ![r] = NoIdx]
        ELSE UNCHANGED <<cactus_prev, cactus, acts, pending_counter_idx>>
     /\ IF mitig /\ tref_max_counter_idx[r] = i
        THEN /\ tref_max_counter_idx' = [tref_max_counter_idx EXCEPT ![r] = NoIdx]
             /\ touched' = [touched EXCEPT ![r] = {}]
        ELSE UNCHANGED <<tref_max_counter_idx, touched>>
     /\ IF rfm_inflight[r]
        THEN /\ rfm_inflight' = [rfm_inflight EXCEPT ![r] = FALSE]
             /\ acts_since_rfm' = [acts_since_rfm EXCEPT ![r] = 0]
        ELSE UNCHANGED <<rfm_inflight, acts_since_rfm>>
  /\ is_in_rfm' = FALSE /\ rfm_q_indices' = {} /\ stall' = 0
  /\ UNCHANGED <<alert_pending, alert_age, tref_refab_count, ref_idx,
                 bank_ref_idx, refresh_q, is_in_ref, ref_q_indices, open>>

-----------------------------------------------------------------------------
(* The REFab. UpdateState: the banks refresh their next rows and           *)
(* cactus_refresh resets one chunk of counters; then, from what that       *)
(* leaves, cactus_tref_mitig or cactus_tref_max_mitig picks a counter to   *)
(* mitigate in the REFab.                                                  *)

CurAfterReset(r) == [i \in Rows |-> IF i \in ResetRange THEN 0 ELSE cactus[r][i]]
PrevAfterReset(r) ==
  [i \in Rows |-> IF i \in ResetRange THEN cactus[r][i] ELSE cactus_prev[r][i]]
\* Mutant: the register survives the reset of its counter.
MutantMaxAfterReset(r) == tref_max_counter_idx[r]

MaxAfterReset(r) == IF tref_max_counter_idx[r] \in ResetRange
                    THEN NoIdx ELSE tref_max_counter_idx[r]

\* The counter the REFab mitigates, or NoIdx.
TrefTarget(r) ==
  LET m == MaxAfterReset(r) IN
  IF /\ TrefMode = "absorb" /\ pending_counter_idx[r] # NoIdx
     /\ alert_pending[r] \/ rfm_inflight[r]
  THEN pending_counter_idx[r]
  ELSE IF /\ TrefMode = "max"
          /\ (tref_refab_count[r] + 1) % TrefInterval = 0
          /\ m # NoIdx
          /\ CounterVal(CurAfterReset(r), PrevAfterReset(r), m) # 0
       THEN m ELSE NoIdx

\* The mitigated counter had an alert: its RFMab is cancelled.
Absorbs(r) == TrefTarget(r) # NoIdx /\ TrefTarget(r) = pending_counter_idx[r]

IssueREFab ==
  /\ CommandStep /\ MustFinishRefresh
  /\ LET r == Head(refresh_q)
         t == TrefTarget(r)
         cur == CurAfterReset(r)
         maxCleared == MaxAfterReset(r) = NoIdx \/ MaxAfterReset(r) = t
     IN
     /\ open[r] = {}
     /\ refresh_q' = RemoveRank(refresh_q, r)
     /\ cactus' = [cactus EXCEPT ![r] =
                     [i \in Rows |-> IF i = t THEN 0 ELSE cur[i]]]
     /\ cactus_prev' = [cactus_prev EXCEPT ![r] =
                     [i \in Rows |-> IF i = t THEN cur[i] ELSE PrevAfterReset(r)[i]]]
     /\ tref_max_counter_idx' = [tref_max_counter_idx EXCEPT ![r] =
                     IF maxCleared THEN NoIdx ELSE @]
     /\ touched' = [touched EXCEPT ![r] = IF maxCleared THEN {} ELSE @]
     /\ acts' = ActsRefreshed(RefReaches(r) \/ (t # NoIdx /\ MitigReaches(r, t)))
     /\ bank_ref_idx' = [bank_ref_idx EXCEPT ![r] = (@ + rows_refreshed) % NumRows]
     /\ tref_refab_count' = IF TrefMode = "max"
          THEN [tref_refab_count EXCEPT ![r] = (@ + 1) % TrefInterval]
          ELSE tref_refab_count
     /\ IF Absorbs(r)
        THEN /\ pending_counter_idx' = [pending_counter_idx EXCEPT ![r] = NoIdx]
             /\ alert_pending' = [alert_pending EXCEPT ![r] = FALSE]
             /\ alert_age' = [alert_age EXCEPT ![r] = 0]
             /\ rfm_inflight' = [rfm_inflight EXCEPT ![r] = FALSE]
             /\ acts_since_rfm' = [acts_since_rfm EXCEPT ![r] = 0]
             /\ rfm_q' = RemoveRank(rfm_q, r)
        ELSE UNCHANGED <<pending_counter_idx, alert_pending, alert_age,
                         rfm_inflight, acts_since_rfm, rfm_q>>
  /\ ref_idx' = (ref_idx + 1) % RefChunks
  /\ is_in_ref' = FALSE /\ ref_q_indices' = {} /\ stall' = 0
  /\ UNCHANGED <<is_in_rfm, rfm_q_indices, open>>

-----------------------------------------------------------------------------
(* CommandQueue::GetCommandToIssue: reached when no drain has a command    *)
(* ready in this tick.                                                     *)

DrainNotReady ==
  \/ /\ ~MustFinishRFM /\ ~MustFinishRefresh
     /\ UNCHANGED drainVars
  \/ MustFinishRFM /\ BeginRFM /\ stall < MaxStall /\ stall' = stall + 1
  \/ MustFinishRefresh /\ BeginRefresh /\ stall < MaxStall /\ stall' = stall + 1

HeldBack(r) == \/ is_in_ref' /\ r \in ref_q_indices'
               \/ is_in_rfm' /\ r \in rfm_q_indices'

\* Mutant: an alert may be raised while an RFMab is in flight.
MutantRaisesAlert(r, val) ==
  /\ val >= AlertThreshold /\ ~alert_pending[r]
  /\ acts_since_rfm[r] >= ABODelay

\* cactus_preact: the counter is over the threshold and an alert may be raised.
RaisesAlert(r, val) ==
  /\ val >= AlertThreshold
  /\ ~alert_pending[r] /\ ~rfm_inflight[r]
  /\ acts_since_rfm[r] >= ABODelay

IssueActivate(r, b, row) ==
  /\ CommandStep /\ DrainNotReady /\ ~HeldBack(r)
  /\ b \notin open[r]
  /\ LET i == get_cactus_idx(r, b, row)
         cur == [cactus[r] EXCEPT ![i] = @ + 1]
         val == CounterVal(cur, cactus_prev[r], i)
         m == tref_max_counter_idx[r]
         becomesMax == m = NoIdx \/ val > CounterVal(cur, cactus_prev[r], m)
     IN
     /\ cactus[r][i] < MaxCount
     /\ cactus' = [cactus EXCEPT ![r] = cur]
     /\ IF TrefMode = "max"
        THEN /\ touched' = [touched EXCEPT ![r] = @ \cup {i}]
             /\ tref_max_counter_idx' = [tref_max_counter_idx EXCEPT ![r] =
                  IF becomesMax THEN i ELSE @]
        ELSE UNCHANGED <<touched, tref_max_counter_idx>>
     /\ IF RaisesAlert(r, val)
        THEN /\ alert_pending' = [alert_pending EXCEPT ![r] = TRUE]
             /\ alert_age' = [alert_age EXCEPT ![r] = 0]
             /\ pending_counter_idx' = [pending_counter_idx EXCEPT ![r] = i]
        ELSE UNCHANGED <<alert_pending, alert_age, pending_counter_idx>>
     /\ acts' = IF r = acts.rank /\ b = acts.bank /\ row = acts.row
                THEN [acts EXCEPT !.count = @ + 1] ELSE acts
  /\ acts_since_rfm' = [acts_since_rfm EXCEPT ![r] =
                          IF @ < ABODelay THEN @ + 1 ELSE @]
  /\ open' = [open EXCEPT ![r] = @ \cup {b}]
  /\ UNCHANGED <<cactus_prev, rfm_inflight, tref_refab_count, ref_idx,
                 bank_ref_idx, refresh_q, rfm_q>>

IssuePrecharge(r, b) ==
  /\ CommandStep /\ DrainNotReady /\ ~HeldBack(r)
  /\ b \in open[r]
  /\ open' = [open EXCEPT ![r] = @ \ {b}]
  /\ UNCHANGED <<trackerVars, refresh_q, rfm_q>>

\* No command is ready, or a READ or WRITE, which changes nothing here.
IssueOther ==
  /\ CommandStep /\ DrainNotReady
  /\ UNCHANGED <<trackerVars, refresh_q, rfm_q, open>>

Next ==
  \/ RefreshClockTick
  \/ ChannelStateClockTick
  \/ IssuePREab
  \/ IssueRFMab
  \/ IssueREFab
  \/ \E r \in Ranks, b \in Banks, row \in Rows : IssueActivate(r, b, row)
  \/ \E r \in Ranks, b \in Banks : IssuePrecharge(r, b)
  \/ IssueOther

Spec == Init /\ [][Next]_vars

\* The simulation loop keeps ticking the controller.
FairSpec == Spec /\ WF_vars(Next)
-----------------------------------------------------------------------------
(* Properties. *)

\* The variables keep their types: counters within the model's bound, indices
\* within the tables they index.
TypeOK ==
  /\ phase \in {"refresh", "alert", "command"} /\ loop_rank \in Ranks
  /\ cactus \in [Ranks -> [Rows -> Nat]]
  /\ cactus_prev \in [Ranks -> [Rows -> Nat]]
  /\ pending_counter_idx \in [Ranks -> Rows \cup {NoIdx}]
  /\ alert_pending \in [Ranks -> BOOLEAN]
  /\ alert_age \in [Ranks -> 0 .. TABO]
  /\ rfm_inflight \in [Ranks -> BOOLEAN]
  /\ acts_since_rfm \in [Ranks -> 0 .. ABODelay]
  /\ tref_refab_count \in [Ranks -> 0 .. TrefInterval - 1]
  /\ tref_max_counter_idx \in [Ranks -> Rows \cup {NoIdx}]
  /\ ref_idx \in 0 .. RefChunks - 1
  /\ refresh_q \in Seq(Ranks) /\ rfm_q \in Seq(Ranks)
  /\ is_in_ref \in BOOLEAN /\ is_in_rfm \in BOOLEAN
  /\ ref_q_indices \subseteq Ranks /\ rfm_q_indices \subseteq Ranks
  /\ stall \in 0 .. MaxStall
  /\ open \in [Ranks -> SUBSET Banks]
  /\ next_rank \in Ranks /\ ref_clk \in 0 .. RefInterval
  /\ bank_ref_idx \in [Ranks -> Rows]
  /\ acts \in [rank : Ranks, bank : Banks, row : Rows, victim : Rows, count : Nat]
  /\ touched \in [Ranks -> SUBSET Rows]

\* The counter a row shares with rows of the other banks.
WatchedIdx == get_cactus_idx(acts.rank, acts.bank, acts.row)

\* Since any neighbour of a row was last refreshed, by a REFab or a mitigation,
\* the row has been activated at most as often as the current and the previous
\* value of its counter say together. Rows are refreshed by row number and
\* counters reset by counter index, in another order when rows are permuted;
\* but between two refreshes of the neighbour a counter is reset at most once,
\* and no mitigation misses a bank (cactus_preact, cactus_mitig_counter,
\* cactus_refresh, BankState::UpdateState). This is why configuration.cc halves
\* the threshold when cactus_reset is 1. One rank per channel, cactus_reset 1.
CounterCoversActs ==
  acts.count <= cactus[acts.rank][WatchedIdx] + cactus_prev[acts.rank][WatchedIdx]

\* The alert handshake of a rank: a counter is remembered exactly while an
\* alert is pending or its RFMab is in flight, never both, and the RFMab is
\* queued exactly once and exactly while it is in flight, whichever of REFab
\* and RFMab mitigates first (cactus_preact, ClockTick, UpdateState).
AlertProtocol ==
  /\ \A r \in Ranks :
       /\ pending_counter_idx[r] # NoIdx <=> alert_pending[r] \/ rfm_inflight[r]
       /\ ~(alert_pending[r] /\ rfm_inflight[r])
       /\ rfm_inflight[r] <=> InQueue(rfm_q, r)
  /\ \A j, k \in DOMAIN rfm_q : rfm_q[j] = rfm_q[k] => j = k

\* The assertions of FinishRefresh and FinishRFM hold, front() is never taken
\* of an empty queue, and the queues held back, computed when a drain begins,
\* are those of the command at the front for as long as the drain lasts.
DrainConsistent ==
  /\ ~(is_in_ref /\ is_in_rfm)
  /\ is_in_ref => refresh_q # << >> /\ ref_q_indices = {Head(refresh_q)}
  /\ is_in_rfm => rfm_q # << >> /\ rfm_q_indices = {Head(rfm_q)}

\* The greedy register of tref_mode 1 holds a largest counter among those
\* activated since the register was last cleared (cactus_preact,
\* cactus_mitig_counter, cactus_refresh).
MaxOfTouched ==
  \A r \in Ranks :
     LET m == tref_max_counter_idx[r] IN
     /\ m = NoIdx <=> touched[r] = {}
     /\ m # NoIdx => /\ m \in touched[r]
                     /\ \A i \in touched[r] :
                          CounterVal(cactus[r], cactus_prev[r], i)
                            <= CounterVal(cactus[r], cactus_prev[r], m)

\* An RFMab request leaves rfm_q_ only in a step that mitigates the counter
\* whose alert asked for it and, in every bank of the rank, refreshes all
\* neighbours of the counter's row: neither the RFMab itself nor a REFab that
\* cancels it drops an alert unserved.
MitigatedBeforeRFMLeaves ==
  [][\A r \in Ranks :
       InQueue(rfm_q, r) /\ ~InQueue(rfm_q', r)
       => LET i == pending_counter_idx[r] IN
          /\ i # NoIdx /\ cactus'[r][i] = 0
          /\ acts.rank = r /\ WatchedIdx = i => acts'.count = 0]_vars

\* Every alert is served: its RFMab is requested, drained for and issued, or a
\* REFab absorbs it, although refreshes go first (Controller::ClockTick).
AlertServed ==
  \A r \in Ranks : alert_pending[r] ~> pending_counter_idx[r] = NoIdx

\* No rank is ever owed two refreshes: each REFab is drained for and issued
\* before the next one for its rank is due, although an RFM that has begun
\* goes first (Controller::ClockTick, FinishRefresh, FinishRFM). It needs a
\* RefInterval that leaves room for two drains; the tREFI of the shipped
\* configurations is about ten times as long as one.
RefreshOnTime ==
  \A j, k \in DOMAIN refresh_q : refresh_q[j] = refresh_q[k] => j = k

\* What channel_state.h says of the register: "tracks the currently largest
\* live CACTUS counter".
RegisterIsLargest ==
  \A r \in Ranks : tref_max_counter_idx[r] # NoIdx =>
     \A i \in Rows : CounterVal(cactus[r], cactus_prev[r], i) <=
        CounterVal(cactus[r], cactus_prev[r], tref_max_counter_idx[r])
=============================================================================
