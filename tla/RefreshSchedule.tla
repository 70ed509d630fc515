--------------------------- MODULE RefreshSchedule ---------------------------
(***************************************************************************)
(* Which bank is refreshed when, and which chunk of the activation         *)
(* counters is reset with it.                                              *)
(*                                                                         *)
(* Sources (DRAMsim3/src): refresh.cc; channel_state.cc (the NeedRefresh   *)
(* functions, UpdateState of the refresh commands, UpdateREFCounter);      *)
(* bankstate.cc (UpdateState of the refresh commands).                     *)
(*                                                                         *)
(* A refresh command names a rank, a bank group and a bank, with Any where *)
(* it addresses all of them: REFab <<r, Any, Any>>, REFsb <<r, Any, b>>,   *)
(* REFRESH_BANK <<r, g, b>>. Row pointers count in chunks of               *)
(* rows_refreshed rows. Self-refresh is off, as in every configuration of  *)
(* the repository.                                                         *)
(***************************************************************************)
EXTENDS Integers, Sequences, FiniteSets

CONSTANTS
  Policies,       \* the values of refresh_policy considered: "simultaneous",
                  \* "rank", "bankset" and "bank"
  NumRanks, Bankgroups, BanksPerGroup,
  RefChunks,      \* config_.refchunks
  MaxQueue        \* bound of this model: refreshes the controller may be behind

Any == -1
Ranks == 0 .. NumRanks - 1
Groups == 0 .. Bankgroups - 1
BanksOfGroup == 0 .. BanksPerGroup - 1
Chunks == 0 .. RefChunks - 1

ASSUME ScheduleAssumption ==
  /\ Policies \subseteq {"simultaneous", "rank", "bankset", "bank"}
  /\ {NumRanks, Bankgroups, BanksPerGroup, RefChunks, MaxQueue} \subseteq Nat \ {0}

AllBanks == Ranks \X Groups \X BanksOfGroup

VARIABLES
  refresh_policy,                 \* refresh_policy_, from the configuration
  next_rank, next_bg, next_bank,  \* the target of the next request
  refresh_q,                      \* refresh_q_
  fgr_counter, ref_idx,           \* of the channel
  bank_fgr, bank_ref_idx,         \* fgr_counter_ and ref_idx_ of each bank
  age,          \* history: requests since each target was last requested
  reset_age     \* history: REFabs and REFsbs since each chunk of counters of
                \* a rank was reset by cactus_refresh

\* config_.fgr: two refresh commands for each chunk.
Fgr == refresh_policy = "bankset"

\* Everything a refresh command of this policy can address.
Targets ==
  CASE refresh_policy \in {"simultaneous", "rank"} -> Ranks \X {Any} \X {Any}
    [] refresh_policy = "bankset" -> Ranks \X {Any} \X BanksOfGroup
    [] refresh_policy = "bank" -> Ranks \X Groups \X BanksOfGroup

nextVars == <<next_rank, next_bg, next_bank>>
vars == <<refresh_policy, nextVars, refresh_q, fgr_counter, ref_idx, bank_fgr,
          bank_ref_idx, age, reset_age>>

Init ==
  /\ refresh_policy \in Policies
  /\ next_rank = 0 /\ next_bg = 0 /\ next_bank = 0
  /\ refresh_q = << >>
  /\ fgr_counter = 0 /\ ref_idx = 0
  /\ bank_fgr = [b \in AllBanks |-> 0]
  /\ bank_ref_idx = [b \in AllBanks |-> 0]
  /\ age = [t \in Targets |-> 0]
  /\ reset_age = [r \in Ranks |-> [c \in Chunks |-> 0]]

-----------------------------------------------------------------------------
(* Refresh::IterateNext. The bankset case has no return: it runs on into   *)
(* the bank case.                                                          *)

\* Mutant: the bank does not wrap around.
MutantNextBank(n) == [n EXCEPT !.bank = @ + 1]

\* One step of the digits <<group, bank, rank>>: the bank and the rank move on
\* when the digit before them wraps.
NextBank(n) == IF n.bank + 1 = BanksPerGroup
               THEN [n EXCEPT !.bank = 0, !.rank = (@ + 1) % NumRanks]
               ELSE [n EXCEPT !.bank = @ + 1]

\* Mutant: the bank moves on with every group.
MutantNextGroup(n) == NextBank([n EXCEPT !.bg = (@ + 1) % Bankgroups])

NextGroup(n) == IF n.bg + 1 = Bankgroups THEN NextBank([n EXCEPT !.bg = 0])
                ELSE [n EXCEPT !.bg = @ + 1]

\* Mutant: the bankset case has only the code it runs on into.
MutantIterateNext(n) ==
  IF refresh_policy = "rank" THEN [n EXCEPT !.rank = (@ + 1) % NumRanks]
  ELSE NextGroup(n)

IterateNext(n) ==
  CASE refresh_policy = "rank" -> [n EXCEPT !.rank = (@ + 1) % NumRanks]
    [] refresh_policy = "bankset" -> NextGroup(NextBank(n))
    [] refresh_policy = "bank" -> NextGroup(n)

\* The target of a request made at position n.
TargetAt(n) ==
  CASE refresh_policy = "simultaneous" -> <<0, Any, Any>>
    [] refresh_policy = "rank" -> <<n.rank, Any, Any>>
    [] refresh_policy = "bankset" -> <<n.rank, Any, n.bank>>
    [] refresh_policy = "bank" -> <<n.rank, n.bg, n.bank>>

\* Refresh::InsertRefresh, when ClockTick finds the interval over. The loop of
\* the simultaneous policy leaves after the first rank.
InsertRefresh ==
  /\ Len(refresh_q) < MaxQueue
  /\ LET n == [rank |-> next_rank, bg |-> next_bg, bank |-> next_bank]
         t == TargetAt(n)
         n2 == IF refresh_policy = "simultaneous" THEN n ELSE IterateNext(n)
     IN
     /\ refresh_q' = Append(refresh_q, t)
     /\ age' = [u \in Targets |-> IF u = t THEN 0 ELSE age[u] + 1]
     /\ next_rank' = n2.rank /\ next_bg' = n2.bg /\ next_bank' = n2.bank
  /\ UNCHANGED <<refresh_policy, fgr_counter, ref_idx, bank_fgr, bank_ref_idx,
                 reset_age>>

-----------------------------------------------------------------------------
(* The refresh command at the front of the queue is issued.                *)

Covers(t, b) == \A k \in 1 .. 3 : t[k] \in {Any, b[k]}

IsREFab(t) == t[3] = Any
IsREFsb(t) == t[2] = Any /\ t[3] # Any

\* Mutant: the counter is compared one command too late.
MutantShouldReset(t) ==
  IsREFab(t) \/ (IsREFsb(t) /\ fgr_counter % (2 * BanksPerGroup) = 8)

\* should_reset of ChannelState::UpdateState.
ShouldReset(t) ==
  \/ IsREFab(t)
  \/ IsREFsb(t) /\ (fgr_counter + 1) % (2 * BanksPerGroup) = 7

\* Mutant: a bank moves on with every command.
MutantAdvances(b) == TRUE

\* A bank moves on to its next rows: with every command, or every second one.
Advances(b) == ~Fgr \/ bank_fgr[b] = 1

\* ChannelState::UpdateREFCounter; a REFRESH_BANK does not reach it.
UpdateREFCounter(t) ==
  LET fgr2 == (fgr_counter + 1) % (IF IsREFsb(t) THEN 2 * BanksPerGroup ELSE 2)
  IN  IF IsREFab(t) \/ IsREFsb(t)
      THEN /\ fgr_counter' = fgr2
           /\ ref_idx' = IF fgr2 = 0 \/ (IsREFab(t) /\ ~Fgr)
                         THEN (ref_idx + 1) % RefChunks ELSE ref_idx
      ELSE UNCHANGED <<fgr_counter, ref_idx>>

IssueRefresh ==
  /\ refresh_q # << >>
  /\ LET t == Head(refresh_q) IN
     /\ refresh_q' = Tail(refresh_q)
     /\ bank_fgr' = [b \in AllBanks |->
          IF Covers(t, b) THEN 1 - bank_fgr[b] ELSE bank_fgr[b]]
     /\ bank_ref_idx' = [b \in AllBanks |->
          IF Covers(t, b) /\ Advances(b) THEN (bank_ref_idx[b] + 1) % RefChunks
          ELSE bank_ref_idx[b]]
     /\ reset_age' = [r \in Ranks |-> [c \in Chunks |->
          IF ~(IsREFab(t) \/ IsREFsb(t)) THEN reset_age[r][c]
          ELSE IF ShouldReset(t) /\ r = t[1] /\ c = ref_idx THEN 0
          ELSE reset_age[r][c] + 1]]
     /\ UpdateREFCounter(t)
  /\ UNCHANGED <<refresh_policy, nextVars, age>>

Next == InsertRefresh \/ IssueRefresh

Spec == Init /\ [][Next]_vars
-----------------------------------------------------------------------------
(* Properties. *)

\* The positions and counters stay within the tables they index.
TypeOK ==
  /\ refresh_policy \in Policies
  /\ next_rank \in Ranks /\ next_bg \in Groups /\ next_bank \in BanksOfGroup
  /\ refresh_q \in Seq(Targets) /\ Len(refresh_q) <= MaxQueue
  /\ fgr_counter \in 0 .. 2 * BanksPerGroup - 1 /\ ref_idx \in Chunks
  /\ bank_fgr \in [AllBanks -> {0, 1}] /\ bank_ref_idx \in [AllBanks -> Chunks]
  /\ age \in [Targets -> Nat]
  /\ reset_age \in [Ranks -> [Chunks -> Nat]]

\* The requests between two for the same target if targets take turns: the
\* simultaneous policy asks for all ranks each time, the staggered ones for one
\* target after the other.
Round == IF refresh_policy = "simultaneous" THEN 1 ELSE Cardinality(Targets)

\* What refresh.cc says of the policies ("Fully staggered", "the order ... is
\* static"): no target is passed over in a round of requests.
Rotation == \A t \in Targets : age[t] < Round

\* What InsertRefresh and IterateNext do guarantee: no target waits for two
\* full rounds, and only the bankset policy, whose position skips a set
\* whenever next_bg_ wraps, exceeds one.
RequestedInTime ==
  \A t \in Targets : age[t] < IF refresh_policy = "bankset" THEN 2 * Round ELSE Round

\* Two banks are never more than one chunk of rows apart, whatever the policy
\* (IterateNext, BankState::UpdateState).
BanksInStep ==
  \A a, b \in AllBanks :
     (bank_ref_idx[a] - bank_ref_idx[b]) % RefChunks \in {0, 1, RefChunks - 1}

\* The chunk whose counters are reset and the rows each bank refreshes stay
\* within one chunk of each other, although the channel counts all commands and
\* a bank only its own (UpdateREFCounter, BankState::UpdateState). REFRESH_BANK
\* moves only the banks, so the bank policy is left out.
CountersInStep ==
  refresh_policy # "bank" => \A b \in AllBanks :
     (bank_ref_idx[b] - ref_idx) % RefChunks \in {0, 1, RefChunks - 1}

\* With one rank, the counters of every chunk are reset once in every window of
\* RefChunks refreshes of the rank (UpdateState's should_reset, cactus_refresh).
\* UpdateState does not call cactus_refresh for a REFRESH_BANK: under the bank
\* policy no counter is ever reset, so that policy is left out.
EveryChunkReset ==
  refresh_policy # "bank" => \A r \in Ranks, c \in Chunks :
     reset_age[r][c] <= RefChunks * (IF Fgr THEN 2 * BanksPerGroup ELSE 1)
=============================================================================
