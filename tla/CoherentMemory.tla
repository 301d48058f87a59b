-------------------------- MODULE CoherentMemory --------------------------
(***************************************************************************)
(* What the memory views promise, without their data structures: a memory  *)
(* shared by harts that each have a store buffer.  A buffered store is seen *)
(* by the later loads of its hart at once and by everybody when it drains. *)
(* A load reads before its instruction retires; the stores that retire in  *)
(* between are older than it, and overwrite what it has read.              *)
(***************************************************************************)
EXTENDS Naturals, Sequences

CONSTANTS Views, LoadIds, Addr, Byte, Footprints, Null

VARIABLES
  mem,      \* the shared memory
  buffer,   \* of each hart: the data of its undrained stores, oldest first
  reads,    \* of each hart: the data of its unretired loads, by their id
  taken,    \* of each hart: the load its next retirement must consume, or Null
  pending,  \* of each hart: what became of the store to be consumed likewise
  open      \* FALSE once the trace has been rejected

vars == <<mem, buffer, reads, taken, pending, open>>

Writes  == UNION {[fp -> Byte] : fp \in Footprints}
Nothing == [l \in {} |-> Null]

Init ==
  /\ mem \in [Addr -> Byte]
  /\ buffer = [v \in Views |-> <<>>]
  /\ reads = [v \in Views |-> Nothing]
  /\ taken = [v \in Views |-> Null]
  /\ pending = [v \in Views |-> "none"]
  /\ open = TRUE

Over(new, old) == [a \in DOMAIN old |-> IF a \in DOMAIN new THEN new[a] ELSE old[a]]

\* What hart v reads at a: the newest of its buffered stores to a, or memory.
Seen(v, a) ==
  LET hits == {i \in 1 .. Len(buffer[v]) : a \in DOMAIN buffer[v][i]}
  IN  IF hits = {} THEN mem[a]
      ELSE buffer[v][CHOOSE i \in hits : \A j \in hits : j <= i][a]

Read(v, id, fp) ==
  /\ open
  /\ reads' = [reads EXCEPT ![v] =
       [l \in DOMAIN @ \cup {id} |->
          IF l = id THEN [a \in fp |-> Seen(v, a)] ELSE @[l]]]
  /\ UNCHANGED <<mem, buffer, taken, pending, open>>

Take(v, id) ==
  /\ open
  /\ taken[v] = Null
  /\ id \in DOMAIN reads[v]
  /\ taken' = [taken EXCEPT ![v] = id]
  /\ UNCHANGED <<mem, buffer, reads, pending, open>>

\* A mispredicted branch: the loads that are not committed yet never happened.
Squash(v) ==
  /\ open
  /\ reads' = [reads EXCEPT ![v] = [l \in DOMAIN @ \cap {taken[v]} |-> @[l]]]
  /\ UNCHANGED <<mem, buffer, taken, pending, open>>

Put(v, bytes) ==
  /\ open
  /\ pending[v] = "none"
  /\ buffer' = [buffer EXCEPT ![v] = Append(@, bytes)]
  /\ pending' = [pending EXCEPT ![v] = "buffered"]
  /\ UNCHANGED <<mem, reads, taken, open>>

Drain(v, i) ==
  /\ open
  /\ mem' = Over(buffer[v][i], mem)
  /\ buffer' = [buffer EXCEPT ![v] = SubSeq(@, 1, i - 1) \o SubSeq(@, i + 1, Len(@))]
  /\ pending' = [pending EXCEPT ![v] =
       IF @ = "buffered" /\ i = Len(buffer[v]) THEN "drained" ELSE @]
  /\ UNCHANGED <<reads, taken, open>>

\* An instruction retires.  It consumes the load and the store that were
\* committed for it; a store that drained before its instruction retired is
\* never accepted.
Retire(v) ==
  /\ open
  /\ pending[v] # "drained"
  /\ reads' = [reads EXCEPT ![v] =
       [l \in DOMAIN @ \ {taken[v]} |->
          IF pending[v] = "buffered" THEN Over(buffer[v][Len(buffer[v])], @[l]) ELSE @[l]]]
  /\ taken' = [taken EXCEPT ![v] = Null]
  /\ pending' = [pending EXCEPT ![v] = "none"]
  /\ UNCHANGED <<mem, buffer, open>>

\* Any other command or access is a mismatch, and the end of the run.
Reject ==
  /\ open
  /\ open' = FALSE
  /\ buffer' = [v \in Views |-> <<>>]
  /\ reads' = [v \in Views |-> Nothing]
  /\ taken' = [v \in Views |-> Null]
  /\ pending' = [v \in Views |-> "none"]
  /\ UNCHANGED mem

Next ==
  \/ \E v \in Views :
       \/ \E id \in LoadIds, fp \in Footprints : Read(v, id, fp)
       \/ \E id \in LoadIds : Take(v, id)
       \/ Squash(v)
       \/ \E bytes \in Writes : Put(v, bytes)
       \/ \E i \in 1 .. Len(buffer[v]) : Drain(v, i)
       \/ Retire(v)
  \/ Reject

Spec == Init /\ [][Next]_vars
=============================================================================
