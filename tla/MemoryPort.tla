----------------------------- MODULE MemoryPort -----------------------------
(***************************************************************************)
(* What a memory controller promises the processors, whatever it buffers,  *)
(* merges, forwards or reorders: a read is answered with the value of the  *)
(* last write accepted before the read, and every answer belongs to a read *)
(* that is still owed one.                                                 *)
(*                                                                         *)
(* Values are version numbers: the k-th write accepted for an address      *)
(* writes version k.                                                       *)
(***************************************************************************)
EXTENDS Naturals

CONSTANTS Addrs,
          MaxVersion    \* bound of the model: writes accepted per address

Versions == 0 .. MaxVersion

VARIABLES latest,   \* the version of the last accepted write
          owed      \* how many reads of an address are owed which version

portVars == <<latest, owed>>

PortInit ==
  /\ latest = [a \in Addrs |-> 0]
  /\ owed = [a \in Addrs |-> [v \in Versions |-> 0]]

AcceptWrite(a) ==
  /\ latest[a] < MaxVersion
  /\ latest' = [latest EXCEPT ![a] = @ + 1]
  /\ UNCHANGED owed

AcceptRead(a) ==
  /\ owed' = [owed EXCEPT ![a][latest[a]] = @ + 1]
  /\ UNCHANGED latest

Answer(a, v) ==
  /\ owed[a][v] > 0
  /\ owed' = [owed EXCEPT ![a][v] = @ - 1]
  /\ UNCHANGED latest

PortNext ==
  \E a \in Addrs : \/ AcceptWrite(a)
                   \/ AcceptRead(a)
                   \/ \E v \in Versions : Answer(a, v)

PortSpec == PortInit /\ [][PortNext]_portVars
=============================================================================
