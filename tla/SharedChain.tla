---------------------------- MODULE SharedChain ----------------------------
(***************************************************************************)
(* What every shared chain of the transport library promises: one          *)
(* append-only list of items, and clients that walk it from the head.      *)
(*                                                                         *)
(* The chain classes (EtcdChain, RedisChain and the shared memory chain)   *)
(* all offer head / loadUntil / fetchNext / appendAfter; the detailed      *)
(* modules name these operations and implement this one.  The promise the  *)
(* applications rely on is in Extend: an append takes effect only for a    *)
(* client that has walked over EVERY item already on the chain, so what it *)
(* appends was decided in full knowledge of the chain, and the items of    *)
(* one call become visible together and next to each other.                *)
(***************************************************************************)
EXTENDS Naturals, Sequences

CONSTANTS
  Client,   \* the chain objects and threads that read and write the chain
  Item      \* the identities of the items (storage ids)

VARIABLES
  chain,    \* the items on the chain, oldest first (the head is not an item)
  position  \* how many items of the chain each client has walked over

chainVars == <<chain, position>>

ChainTypeOK ==
  /\ chain \in Seq(Item)
  /\ position \in [Client -> 0..Len(chain)]

ChainInit ==
  /\ chain = <<>>
  /\ position = [c \in Client |-> 0]

\* No item is on the chain twice.
Distinct(s) == \A i, j \in 1..Len(s) : s[i] = s[j] => i = j

\* fetchNext that finds an item.
Advance(c) ==
  /\ position[c] < Len(chain)
  /\ position' = [position EXCEPT ![c] = @ + 1]
  /\ UNCHANGED chain

\* head, loadUntil, a restart: the client resumes from some item of the chain.
Seek(c) ==
  /\ \E k \in 0..Len(chain) : position' = [position EXCEPT ![c] = k]
  /\ UNCHANGED chain

\* appendAfter that returns true: the client was at the end of the chain.
\* It may stay there (C++) or step onto the last new item (Node, .NET).
Extend(c) ==
  /\ position[c] = Len(chain)
  /\ chain' \in Seq(Item)
  /\ Len(chain') > Len(chain)
  /\ \A i \in 1..Len(chain) : chain'[i] = chain[i]
  /\ Distinct(chain')
  /\ \/ position' = position
     \/ position' = [position EXCEPT ![c] = Len(chain')]

ChainNext == \E c \in Client : Advance(c) \/ Seek(c) \/ Extend(c)

ChainSpec == ChainInit /\ [][ChainNext]_chainVars
=============================================================================
