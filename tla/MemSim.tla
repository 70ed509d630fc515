------------------------------- MODULE MemSim -------------------------------
(***************************************************************************)
(* The processor side of the simulator (memsim): cores with a reorder      *)
(* buffer run their traces, miss in the shared L3 cache, and wait for the  *)
(* memory, which answers through the MSHR table.                           *)
(*                                                                         *)
(* main() cycles the cores one after the other, starting one further in    *)
(* every cycle, and then the memory: `turn' is the position in that order, *)
(* NumCores being the memory's.  mcore_cycle retires, retries the request  *)
(* of a sleeping core, and takes up to CORE_WIDTH instructions, each in    *)
(* two steps: `stage' is the step that comes next, `slot' the instruction. *)
(*                                                                         *)
(* Time: an entry waits for a number of core cycles, or for the memory     *)
(* (Mem).  DEFAULT_MEM_DELAY, after which the code gives a request up as   *)
(* lost, is taken to be longer than any answer takes.                      *)
(*                                                                         *)
(* The memory is seen through what memsim can tell of it: a read it takes  *)
(* is in the read queue of a channel until it becomes a command, and is    *)
(* answered some time after that, so that more reads may be outstanding    *)
(* than a queue holds.  L3_PERFECT is off, as it is by default.            *)
(***************************************************************************)
EXTENDS MCache, Integers, FiniteSets, Functions, TLC

CONSTANTS NumCores,     \* num_threads
          VPages,       \* the virtual pages of a core
          Pages,        \* the physical pages
          Page0,        \* ... of which number 0
          NoPage,       \* what an unmapped virtual page maps to
          LinesInPage,  \* lines_in_page
          RobSize, CoreWidth, L3Latency,
          ReplPolicies, \* the values of L3_REPL considered
          InstLimit,    \* INST_LIMIT
          TraceLen,     \* instructions in a trace
          ChannelOf,    \* the channel of a line
          ReadQueueSize \* trans_queue_size: the reads in the queue of a channel

ASSUME MemSimAssumption ==
  /\ NumCores \in Nat \ {0} /\ LinesInPage \in Nat \ {0}
  /\ Page0 \in Pages /\ NoPage \notin Pages
  /\ Lines = Pages \X (0 .. LinesInPage - 1)
  /\ CoreWidth \in Nat \ {0} /\ RobSize \in Nat \ {0} /\ CoreWidth <= RobSize
  /\ L3Latency \in Nat /\ InstLimit \in Nat /\ TraceLen \in Nat \ {0}
  /\ ReadQueueSize \in Nat \ {0} /\ Lines \subseteq DOMAIN ChannelOf
  /\ ReplPolicies \subseteq {"LRU", "RND", "SRRIP"}

VARIABLES rob,     \* ROB of a core: ptr, size and the physical entries
          sleep,   \* the request a sleeping core retries, or Awake
          thread,  \* trace position of a core: next record, inst_num, done
          l3, pt, ipt,
          repl_policy,  \* of the L3, from the command line
          mshr,    \* MSHR entries of the lines the memory is asked for
          read_queue,   \* the lines in the read_queue_ of their channel
          offset, turn, stage, slot,
          status   \* "running", "finished", or the assertion that failed

vars == <<rob, sleep, thread, l3, pt, ipt, mshr, read_queue, offset, turn, stage, slot, status,
          repl_policy>>

Cores == 0 .. NumCores - 1
Slots == 0 .. RobSize - 1
Mem == L3Latency + 1        \* waiting for the memory
Awake == [line |-> NoLine, robid |-> 0, inst |-> 0]
VAddrs == VPages \X (0 .. LinesInPage - 1)

Core == (offset + turn) % NumCores    \* the core whose turn it is

MutantReservedPages == {}

ReservedPages == {Page0}

Init ==
  /\ rob = [c \in Cores |-> [ptr |-> 0, size |-> 0, entries |->
              [i \in Slots |-> [inst |-> 0, line |-> NoLine, wait |-> 0]]]]
  /\ sleep = [c \in Cores |-> Awake]
  /\ thread \in [Cores -> [va : VAddrs, wb : BOOLEAN, inst : {0}, done : {FALSE}]]
  /\ l3 = EmptySet /\ repl_policy \in ReplPolicies
  /\ pt = [cv \in Cores \X VPages |-> NoPage] /\ ipt = ReservedPages
  /\ mshr = << >> /\ read_queue = {}
  /\ offset = 0 /\ turn = 0 /\ stage = "retire" /\ slot = 0
  /\ status = "running"

-----------------------------------------------------------------------------
memVars == <<mshr, read_queue>>
coreVars == <<rob, sleep, thread, l3, pt, ipt, memVars>>

EndTurn ==
  /\ turn' = turn + 1 /\ stage' = "retire" /\ slot' = 0
  /\ UNCHANGED offset

GoOn(s) == stage' = s /\ UNCHANGED <<offset, turn, slot>>

\* The next instruction, or the end of the turn after CORE_WIDTH of them.
NextSlot ==
  IF slot + 1 = CoreWidth
  THEN EndTurn
  ELSE stage' = "fetch" /\ slot' = slot + 1 /\ UNCHANGED <<offset, turn>>

\* WillAcceptTransaction for a read of line l, reads and writes in queues of
\* their own.
WillAccept(l) ==
  Cardinality({m \in read_queue : ChannelOf[m] = ChannelOf[l]}) < ReadQueueSize

\* memsys_mshr_insert with its assertion.
MshrInsert(l, c, robid, inst) ==
  IF l \in DOMAIN mshr
  THEN status' = "mshr" /\ UNCHANGED mshr
  ELSE /\ mshr' = (l :> [core |-> c, robid |-> robid, inst |-> inst]) @@ mshr
       /\ UNCHANGED status

\* memsys_access: AddTransaction, then memsys_mshr_insert. A read of a line that
\* is still being written back is served from the write buffer and does not
\* enter the queue; whether it is, is left open. Nor does a second read of a line.
AcceptRead(l, c, robid, inst) ==
  /\ \/ UNCHANGED read_queue
     \/ l \notin DOMAIN mshr /\ read_queue' = read_queue \cup {l}
  /\ MshrInsert(l, c, robid, inst)

-----------------------------------------------------------------------------
(* mcore_rob_retire and mcore_retry_sleeping_request. *)

\* A core cycle passes for the entries that wait for the cache.
Elapse(r) ==
  [r EXCEPT !.entries =
     [i \in Slots |-> [@[i] EXCEPT !.wait = IF @ \in 1 .. L3Latency THEN @ - 1 ELSE @]]]

Ready(r, n) == \A i \in 0 .. n - 1 : r.entries[(r.ptr + i) % RobSize].wait = 0

\* The loop looks at the entry at ptr without asking again whether the ROB
\* still holds one.
Retire(r) ==
  IF r.size = 0 THEN r
  ELSE LET n == Max({m \in 0 .. CoreWidth : Ready(r, m)})
       IN  [r EXCEPT !.ptr = (@ + n) % RobSize, !.size = @ - n]

Asleep(c) == sleep[c] # Awake

RetireAndGo ==
  LET c == Core IN
  /\ stage = "retire" /\ turn < NumCores /\ ~ Asleep(c)
  /\ rob' = [rob EXCEPT ![c] = Retire(Elapse(@))]
  /\ GoOn("fetch")
  /\ UNCHANGED <<sleep, thread, l3, pt, ipt, memVars, status>>

RetireAndRetry ==
  LET c == Core
      z == sleep[c]
  IN
  /\ stage = "retire" /\ turn < NumCores /\ Asleep(c) /\ WillAccept(z.line)
  /\ AcceptRead(z.line, c, z.robid, z.inst)
  /\ rob' = [rob EXCEPT ![c] =
               [Retire(Elapse(@)) EXCEPT !.entries[z.robid].wait = Mem,
                                         !.entries[z.robid].inst = z.inst]]
  /\ sleep' = [sleep EXCEPT ![c] = Awake]
  /\ GoOn("fetch")
  /\ UNCHANGED <<thread, l3, pt, ipt>>


RetireAndSleepOn ==
  LET c == Core IN
  /\ stage = "retire" /\ turn < NumCores /\ Asleep(c) /\ ~ WillAccept(sleep[c].line)
  /\ rob' = [rob EXCEPT ![c] = Retire(Elapse(@))]
  /\ EndTurn
  /\ UNCHANGED <<sleep, thread, l3, pt, ipt, memVars, status>>

-----------------------------------------------------------------------------
(* One instruction: count it and translate the address of the trace record. *)

Records == VAddrs \X BOOLEAN

\* mcore_read_trace: at the end of the trace, or when the core reaches its
\* limit, the trace starts over.
ReadTrace(t, rec) ==
  LET wrap == t.inst >= TraceLen \/ (~ t.done /\ t.inst >= InstLimit)
  IN  [va |-> rec[1], wb |-> rec[2], inst |-> IF wrap THEN 0 ELSE t.inst,
       done |-> t.done \/ wrap]

RobFull ==
  /\ stage = "fetch" /\ rob[Core].size = RobSize
  /\ EndTurn
  /\ UNCHANGED <<coreVars, status>>

FreePages == Pages \ ipt

\* os_vpn_to_pfn: a virtual page is given a free physical page at first use.
Translate(c, vpn) ==
  IF pt[c, vpn] # NoPage
  THEN UNCHANGED <<pt, ipt, status>>
  ELSE IF 100 * (Cardinality(ipt) - 1) >= 95 * Cardinality(Pages) \/ FreePages = {}
  THEN status' = "out of pages" /\ UNCHANGED <<pt, ipt>>
  ELSE \E p \in FreePages : /\ pt' = [pt EXCEPT ![c, vpn] = p]
                            /\ ipt' = ipt \cup {p}
                            /\ UNCHANGED status

Fetch ==
  LET c == Core
      t == [thread[c] EXCEPT !.inst = @ + 1]
  IN
  /\ stage = "fetch" /\ rob[c].size # RobSize
  /\ \/ /\ ~ t.done /\ t.inst > InstLimit
        /\ \E rec \in Records : thread' = [thread EXCEPT ![c] = ReadTrace(t, rec)]
     \/ /\ t.done \/ t.inst <= InstLimit
        /\ thread' = [thread EXCEPT ![c] = t]
  /\ Translate(c, thread'[c].va[1])
  /\ GoOn("execute")
  /\ UNCHANGED <<rob, sleep, l3, memVars>>

-----------------------------------------------------------------------------
(* ... and run it: if it is the one the record is for, access the cache. *)

Line(c) == LET va == thread[c].va IN <<pt[c, va[1]], va[2]>>

RobId(c) == (rob[c].ptr + rob[c].size) % RobSize

RobInsert(c, inst, wait) ==
  rob' = [rob EXCEPT ![c].size = @ + 1,
                     ![c].entries[RobId(c)] =
                        [inst |-> inst, line |-> Line(c), wait |-> wait]]

\* The record is used and the next one is read, which may reset inst_num.
Consume(c) == \E rec \in Records : thread' = [thread EXCEPT ![c] = ReadTrace(@, rec)]

ExecuteOther ==
  LET c == Core IN
  /\ stage = "execute" /\ thread[c].inst < TraceLen
  /\ RobInsert(c, thread[c].inst, 0)
  /\ NextSlot
  /\ UNCHANGED <<sleep, thread, l3, pt, ipt, memVars, status>>

ExecuteWrite ==
  LET c == Core IN
  /\ stage = "execute" /\ thread[c].wb
  /\ Consume(c)
  /\ l3' = MarkDirty(l3, Line(c))
  /\ RobInsert(c, thread'[c].inst, 0)
  /\ NextSlot
  /\ UNCHANGED <<sleep, pt, ipt, memVars, status>>

ExecuteHit ==
  LET c == Core IN
  /\ stage = "execute" /\ ~ thread[c].wb /\ IsHit(l3, Line(c))
  /\ Consume(c)
  /\ l3' = Access(l3, Line(c))
  /\ RobInsert(c, thread'[c].inst, L3Latency)
  /\ NextSlot
  /\ UNCHANGED <<sleep, pt, ipt, memVars, status>>

MutantMissWait == L3Latency

\* A miss waits for the memory.
MissWait == Mem

\* The line is installed at once, whether or not the memory takes the read.
\* The dirty line it evicts is handed to the memory, which may refuse it.
ExecuteMiss ==
  LET c == Core IN
  /\ stage = "execute" /\ ~ thread[c].wb /\ ~ IsHit(l3, Line(c))
  /\ Consume(c)
  /\ \E w \in Victims(l3, repl_policy) :
        l3' = Install(l3, Line(c), w, repl_policy)
  /\ RobInsert(c, thread'[c].inst, MissWait)
  /\ \/ /\ WillAccept(Line(c))
        /\ AcceptRead(Line(c), c, RobId(c), thread'[c].inst)
        /\ NextSlot
        /\ UNCHANGED sleep
     \/ /\ ~ WillAccept(Line(c))
        /\ sleep' = [sleep EXCEPT ![c] =
             [line |-> Line(c), robid |-> RobId(c), inst |-> thread'[c].inst]]
        /\ EndTurn
        /\ UNCHANGED <<memVars, status>>
  /\ UNCHANGED <<pt, ipt>>

-----------------------------------------------------------------------------
(* The turn of the memory, and the end of a cycle of main(). *)

MutantWakeup(e) == rob' = [rob EXCEPT ![e.core].entries[rob[e.core].ptr].wait = 0]

Wakeup(e) == rob' = [rob EXCEPT ![e.core].entries[e.robid].wait = 0]

\* ScheduleTransaction: a read becomes a command and leaves its queue.
Dequeue(l) ==
  /\ turn = NumCores
  /\ read_queue' = read_queue \ {l}
  /\ UNCHANGED <<rob, sleep, thread, l3, pt, ipt, mshr, offset, turn, stage, slot, status>>

\* memsys_callback and mcore_rob_wakeup.
Answer(l) ==
  LET e == mshr[l] IN
  /\ turn = NumCores /\ l \notin read_queue
  /\ IF rob[e.core].entries[e.robid].inst = e.inst
     THEN Wakeup(e) /\ UNCHANGED status
     ELSE status' = "zombie" /\ UNCHANGED rob
  /\ mshr' = Restrict(mshr, DOMAIN mshr \ {l})
  /\ UNCHANGED <<sleep, thread, l3, pt, ipt, read_queue, offset, turn, stage, slot>>

MutantNextOffset == offset + 1

\* cycle % num_threads
NextOffset == (offset + 1) % NumCores

EndCycle ==
  /\ turn = NumCores
  /\ offset' = NextOffset
  /\ turn' = 0
  /\ status' = IF \A c \in Cores : thread[c].done THEN "finished" ELSE status
  /\ UNCHANGED <<coreVars, stage, slot>>

CoreStep ==
  \/ RetireAndGo \/ RetireAndRetry \/ RetireAndSleepOn
  \/ RobFull \/ Fetch
  \/ ExecuteOther \/ ExecuteWrite \/ ExecuteHit \/ ExecuteMiss

Next ==
  /\ status = "running" /\ UNCHANGED repl_policy
  /\ \/ CoreStep
     \/ \E l \in read_queue : Dequeue(l)
     \/ \E l \in DOMAIN mshr : Answer(l)
     \/ EndCycle

Spec == Init /\ [][Next]_vars

\* What only CoreStep and EndCycle do: the position in the loop moves on. What
\* only Answer does: an MSHR entry goes.
place == <<turn, stage, slot>>
MoveOn == /\ status = "running" /\ turn' \in 0 .. NumCores
          /\ stage' \in {"retire", "fetch", "execute"} /\ slot' \in 0 .. CoreWidth - 1
Answered(l) == /\ status = "running" /\ l \in DOMAIN mshr
               /\ mshr' = Restrict(mshr, DOMAIN mshr \ {l})

\* The loop of main() goes on, and the memory answers every read it accepted.
FairSpec == Spec /\ WF_place(MoveOn) /\ \A l \in Lines : WF_mshr(Answered(l))

-----------------------------------------------------------------------------
(* Properties. *)

Live(c) == {(rob[c].ptr + i) % RobSize : i \in 0 .. rob[c].size - 1}

\* The type invariant.
TypeOK ==
  /\ \A c \in Cores :
       /\ rob[c].ptr \in Slots
       /\ rob[c].entries \in [Slots -> [inst : 0 .. TraceLen,
                                        line : Lines \cup {NoLine}, wait : 0 .. Mem]]
       /\ sleep[c] \in [line : Lines \cup {NoLine}, robid : Slots, inst : 0 .. TraceLen]
       /\ thread[c] \in [va : VAddrs, wb : BOOLEAN, inst : 0 .. TraceLen, done : BOOLEAN]
  /\ l3 \in [Ways -> Entries]
  /\ pt \in [Cores \X VPages -> Pages \cup {NoPage}] /\ ipt \subseteq Pages
  /\ DOMAIN mshr \subseteq Lines /\ read_queue \subseteq DOMAIN mshr
  /\ offset \in Cores /\ turn \in 0 .. NumCores
  /\ stage \in {"retire", "fetch", "execute"} /\ slot \in 0 .. CoreWidth - 1

\* Although the retire loop never checks the size again, a core retires only
\* what it holds: the (unsigned) size neither wraps nor outgrows the ROB.
RobInBounds == \A c \in Cores : rob[c].size \in 0 .. RobSize

\* An instruction waits for the memory exactly when the MSHR of its line, or
\* the retry of its sleeping core, will wake it, and each of these wakes one:
\* no wakeup is lost and none reaches an instruction it was not meant for.
WaitersTracked ==
  status \in {"running", "finished"} =>
    \A c \in Cores, i \in Slots :
      LET e == rob[c].entries[i] IN
      (i \in Live(c) /\ e.wait = Mem) <=>
        \/ \E l \in DOMAIN mshr :
             l = e.line /\ mshr[l] = [core |-> c, robid |-> i, inst |-> e.inst]
        \/ sleep[c] = [line |-> e.line, robid |-> i, inst |-> e.inst] /\ Asleep(c)

\* No wakeup finds another instruction in its slot (ZOMBIEWAKEUP), however the
\* numbers restart with the trace.
NoZombie == status # "zombie"

\* Two virtual pages never share a physical page, and line 0, by which
\* memsys_access means "nothing to write back", is never cached.
FramesExclusive ==
  /\ \A x, y \in DOMAIN pt : pt[x] = pt[y] /\ pt[x] # NoPage => x = y
  /\ ~ IsHit(l3, <<Page0, 0>>)

\* A line the memory is asked for is not asked for again before the answer:
\* the assertion of memsys_mshr_insert.
MissesOnce == status # "mshr"

=============================================================================
