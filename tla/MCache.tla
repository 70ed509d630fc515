------------------------------- MODULE MCache -------------------------------
(***************************************************************************)
(* One set of the shared L3 cache (memsim/mcache.c): a function from ways  *)
(* to entries and the operations on it.                                    *)
(*                                                                         *)
(* The code stamps an entry with the access counter; only the order of the *)
(* stamps of a set matters, so `last' is the rank of the stamp, 1 for the  *)
(* least recently used way.  `repl' is the repl_policy of the cache.       *)
(***************************************************************************)
EXTENDS Naturals, FiniteSetsExt

CONSTANTS Lines,    \* the line addresses
          NoLine,   \* the tag of an entry that never held a line
          Assoc,    \* assocs
          SrripMax, SrripInit

ASSUME CacheAssumption ==
  /\ NoLine \notin Lines /\ Assoc \in Nat \ {0}
  /\ SrripMax \in Nat /\ SrripInit \in Nat

Ways == 1 .. Assoc

Entries == [valid : BOOLEAN, dirty : BOOLEAN, tag : Lines \cup {NoLine},
            ripctr : 0 .. SrripMax, last : Ways]

EmptySet == [w \in Ways |-> [valid |-> FALSE, dirty |-> FALSE, tag |-> NoLine,
                             ripctr |-> 0, last |-> w]]

HitWays(s, l) == {w \in Ways : s[w].valid /\ s[w].tag = l}

\* The outcome of mcache_access.
IsHit(s, l) == HitWays(s, l) # {}

\* Way w becomes the most recently used one.
Touch(s, w) ==
  [x \in Ways |-> [s[x] EXCEPT !.last = IF x = w THEN Assoc
                                        ELSE IF @ > s[w].last THEN @ - 1 ELSE @]]

Access(s, l) ==
  IF IsHit(s, l)
  THEN LET w == Min(HitWays(s, l)) IN [Touch(s, w) EXCEPT ![w].ripctr = SrripMax]
  ELSE s

MarkDirty(s, l) ==
  IF IsHit(s, l) THEN [s EXCEPT ![Min(HitWays(s, l))].dirty = TRUE] ELSE s

InvalidWays(s) == {w \in Ways : ~ s[w].valid}

MinRip(s) == Min({s[w].ripctr : w \in Ways})

\* The ways find_victim may return: the first invalid one, or the choice of
\* the replacement policy.
Victims(s, repl) ==
  IF InvalidWays(s) # {} THEN {Min(InvalidWays(s))}
  ELSE CASE repl = "LRU"   -> {w \in Ways : s[w].last = 1}
         [] repl = "RND"   -> Ways
         [] repl = "SRRIP" -> {Min({w \in Ways : s[w].ripctr = MinRip(s)})}

\* SRRIP counts all ways of a full set down until one of them reaches 0.
Aged(s, repl) ==
  IF repl = "SRRIP" /\ InvalidWays(s) = {}
  THEN [w \in Ways |-> [s[w] EXCEPT !.ripctr = @ - MinRip(s)]]
  ELSE s

Install(s, l, w, repl) ==
  [Touch(Aged(s, repl), w) EXCEPT ![w] =
     [@ EXCEPT !.valid = TRUE, !.dirty = FALSE, !.tag = l, !.ripctr = SrripInit]]
=============================================================================
