----------------------------- MODULE Controller -----------------------------
(***************************************************************************)
(* The path of a transaction through one channel: accepted into the read   *)
(* queue, the write buffer or the unified queue, turned into a command in  *)
(* the queue of its bank, issued when its row is open, and returned        *)
(* (controller.cc, command_queue.cc).                                      *)
(*                                                                         *)
(* A tick of the code issues at most one command and then schedules at     *)
(* most one transaction; `phase' is the half that comes next.  Between     *)
(* ticks the processors add transactions and collect finished ones.        *)
(* Which of the commands that may go is ready is a matter of DRAM timing,  *)
(* and is left open; `stall' bounds how long timing alone holds all of     *)
(* them back.  The precharge of a refresh or an RFM, which closes the rows *)
(* under the commands that wait for them, is an action of its own.         *)
(*                                                                         *)
(* The simulator carries no data.  `ver' and `dram' add it: the version    *)
(* the last accepted write gave an address, and the one the DRAM holds.    *)
(***************************************************************************)
EXTENDS Naturals, FiniteSets, SequencesExt

CONSTANTS Addrs,          \* the addresses used
          Banks, BankOf,  \* ... and the bank
          RowOf,          \* ... and row each of them is in
          NoRow,          \* the open row of a closed bank
          Unified,        \* config unified_queue
          RowPolicy,      \* config row_buf_policy
          TransQueueSize, \* config trans_queue_size
          CmdQueueSize,   \* config cmd_queue_size
          LowMark,        \* the 8 of ScheduleTransaction
          RowHitLimit,    \* the 4 of ArbitratePrecharge
          MaxVersion,     \* bound of the model: writes accepted per address
          MaxTrans,       \* bound of the model: transactions accepted
          MaxStall,       \* bound of the model: ticks lost to timing
          MaxCloses       \* bound of the model: precharges for a refresh

ASSUME ControllerAssumption ==
  /\ BankOf \in [Addrs -> Banks]
  /\ \A a \in Addrs : RowOf[a] # NoRow
  /\ Unified \in BOOLEAN
  /\ RowPolicy \in {"OPEN_PAGE", "CLOSE_PAGE", "SOFT_CLOSE_PAGE"}
  /\ TransQueueSize \in Nat \ {0} /\ CmdQueueSize \in Nat \ {0}
  /\ {LowMark, RowHitLimit, MaxVersion, MaxTrans, MaxStall, MaxCloses}
       \subseteq Nat

VARIABLES queue,          \* unified_queue_, read_queue_, write_buffer_
          pending_rd,     \* pending_rd_q_: how many reads of each address
          pending_wr,     \* pending_wr_q_: the addresses with a write
          write_draining,
          cmds,           \* queues_ of the command queue, one per bank
          open_row, row_hits,
          done_rd,        \* return_queue_: reads of an address, by version
          done_wr,        \* return_queue_: writes of an address
          phase, stall, accepted, closes,
          ver, dram

vars == <<queue, pending_rd, pending_wr, write_draining, cmds, open_row,
          row_hits, done_rd, done_wr, phase, stall, accepted, closes, ver,
          dram>>

transVars == <<queue, pending_rd, pending_wr, write_draining, done_rd, done_wr>>

Versions == 0 .. MaxVersion
Rows == {RowOf[a] : a \in Addrs}

\* A transaction, and the command it becomes; pre is the auto-precharge.
Trans == [addr : Addrs, is_write : BOOLEAN]
Cmds == [addr : Addrs, is_write : BOOLEAN, pre : BOOLEAN]

QueueNames == IF Unified THEN {"unified"} ELSE {"read", "write"}

Init ==
  /\ queue = [q \in QueueNames |-> <<>>]
  /\ pending_rd = [a \in Addrs |-> 0]
  /\ pending_wr = {}
  /\ write_draining = 0
  /\ cmds = [b \in Banks |-> <<>>]
  /\ open_row = [b \in Banks |-> NoRow]
  /\ row_hits = [b \in Banks |-> 0]
  /\ done_rd = [a \in Addrs |-> [v \in Versions |-> 0]]
  /\ done_wr = [a \in Addrs |-> 0]
  /\ phase = "issue" /\ stall = 0 /\ accepted = 0 /\ closes = 0
  /\ ver = [a \in Addrs |-> 0]
  /\ dram = [a \in Addrs |-> 0]

-----------------------------------------------------------------------------
(* Between ticks: transactions come and go. *)

QueueFor(is_write) ==
  IF Unified THEN "unified" ELSE IF is_write THEN "write" ELSE "read"

MutantWillAcceptTransaction(is_write) == Len(queue[QueueFor(is_write)]) <= TransQueueSize

WillAcceptTransaction(is_write) == Len(queue[QueueFor(is_write)]) < TransQueueSize

PushTransaction(a, is_write) ==
  queue' = [queue EXCEPT ![QueueFor(is_write)] =
              Append(@, [addr |-> a, is_write |-> is_write])]

\* A read of an address with a write pending takes the buffered value; one of
\* an address that is already being read rides along.
AddRead(a) ==
  IF a \in pending_wr
  THEN /\ done_rd' = [done_rd EXCEPT ![a][ver[a]] = @ + 1]
       /\ UNCHANGED <<pending_rd, queue>>
  ELSE /\ pending_rd' = [pending_rd EXCEPT ![a] = @ + 1]
       /\ IF pending_rd[a] = 0 THEN PushTransaction(a, FALSE) ELSE UNCHANGED queue
       /\ UNCHANGED done_rd

MutantAddWrite(a) ==
  /\ done_wr' = [done_wr EXCEPT ![a] = @ + 1]
  /\ ver' = [ver EXCEPT ![a] = @ + 1]
  /\ pending_wr' = pending_wr \cup {a}
  /\ PushTransaction(a, TRUE)

\* A write of an address with a write pending merges into it.
AddWrite(a) ==
  /\ done_wr' = [done_wr EXCEPT ![a] = @ + 1]
  /\ ver' = [ver EXCEPT ![a] = @ + 1]
  /\ IF a \in pending_wr
     THEN UNCHANGED <<pending_wr, queue>>
     ELSE /\ pending_wr' = pending_wr \cup {a}
          /\ PushTransaction(a, TRUE)

AddTransaction(a, is_write) ==
  /\ phase = "issue" /\ accepted < MaxTrans
  /\ is_write => ver[a] < MaxVersion
  /\ WillAcceptTransaction(is_write)
  /\ accepted' = accepted + 1
  /\ IF is_write
     THEN AddWrite(a) /\ UNCHANGED <<pending_rd, done_rd>>
     ELSE AddRead(a) /\ UNCHANGED <<pending_wr, done_wr, ver>>
  /\ UNCHANGED <<write_draining, cmds, open_row, row_hits, phase, stall, closes, dram>>

ReturnRead(a, v) ==
  /\ phase = "issue"
  /\ done_rd[a][v] > 0
  /\ done_rd' = [done_rd EXCEPT ![a][v] = @ - 1]
  /\ UNCHANGED <<queue, pending_rd, pending_wr, write_draining, cmds, open_row,
                 row_hits, done_wr, phase, stall, accepted, closes, ver, dram>>

ReturnWrite(a) ==
  /\ phase = "issue"
  /\ done_wr[a] > 0
  /\ done_wr' = [done_wr EXCEPT ![a] = @ - 1]
  /\ UNCHANGED <<queue, pending_rd, pending_wr, write_draining, cmds, open_row,
                 row_hits, done_rd, phase, stall, accepted, closes, ver, dram>>

-----------------------------------------------------------------------------
(* First half of a tick: at most one command is issued. *)

Hit(b, k) == RowOf[cmds[b][k].addr] = open_row[b]

MutantArbitratePrecharge(b) == row_hits[b] >= RowHitLimit

\* A row is closed for the oldest command of its bank only, and not while
\* younger ones still hit it unless the limit on hits is reached.
ArbitratePrecharge(b) ==
  \/ \A k \in DOMAIN cmds[b] : ~ Hit(b, k)
  \/ row_hits[b] >= RowHitLimit

MutantHasRWDependency(b, k) == FALSE

HasRWDependency(b, k) ==
  \E j \in 1 .. k - 1 :
    ~ cmds[b][j].is_write /\ cmds[b][j].addr = cmds[b][k].addr

CanActivate(b) == cmds[b] # <<>> /\ open_row[b] = NoRow

CanPrecharge(b) ==
  /\ cmds[b] # <<>> /\ open_row[b] # NoRow /\ ~ Hit(b, 1)
  /\ ArbitratePrecharge(b)

CanReadWrite(b, k) ==
  /\ open_row[b] # NoRow /\ Hit(b, k)
  /\ ~ (cmds[b][k].is_write /\ HasRWDependency(b, k))

CanIssue == \E b \in Banks : \/ CanActivate(b)
                             \/ CanPrecharge(b)
                             \/ \E k \in DOMAIN cmds[b] : CanReadWrite(b, k)

IssueActivate(b) ==
  /\ phase = "issue" /\ CanActivate(b)
  /\ open_row' = [open_row EXCEPT ![b] = RowOf[cmds[b][1].addr]]
  /\ phase' = "schedule" /\ stall' = 0
  /\ UNCHANGED <<transVars, cmds, row_hits, accepted, closes, ver, dram>>

IssuePrecharge(b) ==
  /\ phase = "issue" /\ CanPrecharge(b)
  /\ open_row' = [open_row EXCEPT ![b] = NoRow]
  /\ row_hits' = [row_hits EXCEPT ![b] = 0]
  /\ phase' = "schedule" /\ stall' = 0
  /\ UNCHANGED <<transVars, cmds, accepted, closes, ver, dram>>

MutantCompleteRead(a) ==
  /\ pending_rd' = [pending_rd EXCEPT ![a] = @ - 1]
  /\ done_rd' = [done_rd EXCEPT ![a][dram[a]] = @ + 1]
  /\ UNCHANGED <<pending_wr, dram>>

\* All the reads that wait for the address are answered at once.
CompleteRead(a) ==
  /\ pending_rd' = [pending_rd EXCEPT ![a] = 0]
  /\ done_rd' = [done_rd EXCEPT ![a][dram[a]] = @ + pending_rd[a]]
  /\ UNCHANGED <<pending_wr, dram>>

CompleteWrite(a) ==
  /\ pending_wr' = pending_wr \ {a}
  /\ dram' = [dram EXCEPT ![a] = ver[a]]
  /\ UNCHANGED <<pending_rd, done_rd>>

IssueReadWrite(b, k) ==
  LET c == cmds[b][k] IN
  /\ phase = "issue" /\ CanReadWrite(b, k)
  /\ cmds' = [cmds EXCEPT ![b] = RemoveAt(@, k)]
  /\ IF c.is_write THEN CompleteWrite(c.addr) ELSE CompleteRead(c.addr)
  /\ open_row' = [open_row EXCEPT ![b] = IF c.pre THEN NoRow ELSE @]
  /\ row_hits' = [row_hits EXCEPT ![b] = IF c.pre THEN 0 ELSE @ + 1]
  /\ phase' = "schedule" /\ stall' = 0
  /\ UNCHANGED <<queue, write_draining, done_wr, accepted, closes, ver>>

\* PREab or PREsb on the way to a refresh or an RFM.
IssuePreAll(bs) ==
  /\ phase = "issue" /\ closes < MaxCloses
  /\ \E b \in bs : open_row[b] # NoRow
  /\ open_row' = [b \in Banks |-> IF b \in bs THEN NoRow ELSE open_row[b]]
  /\ row_hits' = [b \in Banks |-> IF b \in bs THEN 0 ELSE row_hits[b]]
  /\ closes' = closes + 1
  /\ phase' = "schedule" /\ stall' = 0
  /\ UNCHANGED <<transVars, cmds, accepted, ver, dram>>

IssueNothing ==
  /\ phase = "issue"
  /\ CanIssue => stall < MaxStall
  /\ stall' = IF CanIssue THEN stall + 1 ELSE stall
  /\ phase' = "schedule"
  /\ UNCHANGED <<transVars, cmds, open_row, row_hits, accepted, closes, ver, dram>>

-----------------------------------------------------------------------------
(* Second half of a tick: at most one transaction becomes a command. *)

WillAcceptCommand(b) == Len(cmds[b]) < CmdQueueSize

QueueEmpty == \A b \in Banks : cmds[b] = <<>>

StartDraining ==
  LET n == Len(queue["write"])
  IN  n >= TransQueueSize \/ (n > LowMark /\ QueueEmpty)

\* write_draining_ as ScheduleTransaction finds or first sets it.
Draining ==
  IF ~ Unified /\ write_draining = 0 /\ StartDraining
  THEN Len(queue["write"])
  ELSE write_draining

SelectedQueue(draining) ==
  IF Unified THEN "unified" ELSE IF draining > 0 THEN "write" ELSE "read"

\* Under SOFT_CLOSE_PAGE the row stays open if a later transaction wants it.
AutoPrecharge(ts, k) ==
  \/ RowPolicy = "CLOSE_PAGE"
  \/ /\ RowPolicy = "SOFT_CLOSE_PAGE"
     /\ ~ \E j \in k + 1 .. Len(ts) :
            /\ BankOf[ts[j].addr] = BankOf[ts[k].addr]
            /\ RowOf[ts[j].addr] = RowOf[ts[k].addr]

TransToCommand(ts, k) ==
  [addr |-> ts[k].addr, is_write |-> ts[k].is_write, pre |-> AutoPrecharge(ts, k)]

Acceptable(ts) == {k \in DOMAIN ts : WillAcceptCommand(BankOf[ts[k].addr])}

MutantBlocked(t) == FALSE

\* The R->W dependency: a buffered write waits for the reads of its address.
Blocked(t) == ~ Unified /\ t.is_write /\ pending_rd[t.addr] > 0

MutantCountdown(q, draining) == draining

Countdown(q, draining) == IF q = "write" THEN draining - 1 ELSE draining

ScheduleTransaction ==
  LET q  == SelectedQueue(Draining)
      ts == queue[q]
      k  == Min(Acceptable(ts))
  IN
  /\ phase = "schedule"
  /\ phase' = "issue"
  /\ IF Acceptable(ts) = {} THEN /\ write_draining' = Draining
                                 /\ UNCHANGED <<cmds, queue>>
     ELSE IF Blocked(ts[k]) THEN /\ write_draining' = 0
                                 /\ UNCHANGED <<cmds, queue>>
     ELSE /\ write_draining' = Countdown(q, Draining)
          /\ cmds' = [cmds EXCEPT ![BankOf[ts[k].addr]] =
                        Append(@, TransToCommand(ts, k))]
          /\ queue' = [queue EXCEPT ![q] = RemoveAt(@, k)]
  /\ UNCHANGED <<pending_rd, pending_wr, open_row, row_hits, done_rd, done_wr,
                 stall, accepted, closes, ver, dram>>

-----------------------------------------------------------------------------
Issue ==
  \/ \E b \in Banks : IssueActivate(b) \/ IssuePrecharge(b)
  \/ \E b \in Banks : \E k \in DOMAIN cmds[b] : IssueReadWrite(b, k)
  \/ \E bs \in SUBSET Banks : IssuePreAll(bs)
  \/ IssueNothing

Return ==
  \E a \in Addrs : ReturnWrite(a) \/ \E v \in Versions : ReturnRead(a, v)

Next ==
  \/ \E a \in Addrs, is_write \in BOOLEAN : AddTransaction(a, is_write)
  \/ Return
  \/ Issue
  \/ ScheduleTransaction

Spec == Init /\ [][Next]_vars

\* The simulator's loop keeps ticking, and a tick collects what is finished.
FairSpec == Spec /\ WF_vars(Issue) /\ WF_vars(ScheduleTransaction) /\ WF_vars(Return)

-----------------------------------------------------------------------------
(* Properties. *)

\* The type invariant: among the rest, no queue outgrows its capacity and the
\* open row of a bank is a row of that bank.
TypeOK ==
  /\ queue \in [QueueNames -> Seq(Trans)]
  /\ \A q \in QueueNames : Len(queue[q]) <= TransQueueSize
  /\ pending_rd \in [Addrs -> 0 .. MaxTrans] /\ pending_wr \subseteq Addrs
  /\ write_draining \in 0 .. TransQueueSize
  /\ cmds \in [Banks -> Seq(Cmds)]
  /\ \A b \in Banks : /\ Len(cmds[b]) <= CmdQueueSize
                      /\ \A k \in DOMAIN cmds[b] : BankOf[cmds[b][k].addr] = b
  /\ open_row \in [Banks -> Rows \cup {NoRow}]
  /\ row_hits \in [Banks -> 0 .. MaxTrans]
  /\ done_rd \in [Addrs -> [Versions -> 0 .. MaxTrans]]
  /\ done_wr \in [Addrs -> 0 .. MaxTrans]
  /\ phase \in {"issue", "schedule"} /\ stall \in 0 .. MaxStall
  /\ accepted \in 0 .. MaxTrans /\ closes \in 0 .. MaxCloses
  /\ ver \in [Addrs -> Versions] /\ dram \in [Addrs -> Versions]

\* How often a transaction is in the queues of the controller or, as a
\* command, in those of the command queue.
Copies(a, is_write) ==
  LET Wanted(t) == t.addr = a /\ t.is_write = is_write
      In(s) == Cardinality({k \in DOMAIN s : Wanted(s[k])})
  IN  MapThenSumSet(LAMBDA q : In(queue[q]), QueueNames) + In(cmds[BankOf[a]])

\* An address is in pending_rd_q_ (pending_wr_q_) exactly when one read (write)
\* of it is queued, so that none of the exits of IssueCommand and EraseRWCommand
\* ("not in read queue!", "not in write queue!", "cannot find cmd!") is reached
\* and no pending transaction is forgotten.
PendingIsQueued ==
  \A a \in Addrs : /\ Copies(a, FALSE) = IF pending_rd[a] > 0 THEN 1 ELSE 0
                   /\ Copies(a, TRUE) = IF a \in pending_wr THEN 1 ELSE 0

\* write_draining_, which is set from the size of the write buffer and counted
\* down by itself, never asks for more writes than the buffer holds: a drain
\* does not go on with an empty buffer selected (ScheduleTransaction).
DrainWithinBuffer == ~ Unified => write_draining <= Len(queue["write"])

\* The reads of an address owed a version: those in the return queue and those
\* still pending, which will be given what the DRAM holds.
Owed == [a \in Addrs |-> [v \in Versions |->
           done_rd[a][v] + IF v = dram[a] THEN pending_rd[a] ELSE 0]]

Port == INSTANCE MemoryPort WITH latest <- ver, owed <- Owed

\* The controller implements the memory port: whatever it merges, forwards and
\* reorders, a read is answered with the last write accepted before it.
ImplementsPort == Port!PortSpec

\* Every read that AddTransaction accepts is answered by a later IssueCommand:
\* whenever reads of an address are pending, there comes a time when none is.
\* No more than MaxTrans transactions come, so this says that the controller has
\* no state in which a read is stuck, not that newer ones cannot overtake it for
\* as long as they keep coming.
EveryReadReturns ==
  \A a \in Addrs : []<>(pending_rd[a] = 0)

\* The oldest command of bank b is for address a.
Oldest(b, a) == cmds[b] # <<>> /\ Head(cmds[b]).addr = a

\* The oldest commands of a bank are issued, none stays at the head: row hits of
\* younger commands, the limit on them, refreshes that close its row and the
\* write-after-read order delay it, but no set of commands waits for itself
\* (ArbitratePrecharge, GetFirstReadyInQueue). With MaxTrans transactions, as
\* above.
OldestIssues ==
  \A b \in Banks, a \in Addrs : []<>~Oldest(b, a)
=============================================================================
