---------------------------- MODULE ShmExtraData ----------------------------
(***************************************************************************)
(* Extra data of the shared memory chain: saveExtraData, loadExtraData,    *)
(* saveExtraBytes and loadExtraBytes of LockFreeInBoostSharedMemoryChain,  *)
(* for one key and each protection strategy.                               *)
(*                                                                         *)
(* A datum is a number of words, each a version number, so that a read     *)
(* that mixes two of them can be told.  Memory is copied word by word.     *)
(* Trivially copyable data (inPlace) are assigned inside the named object  *)
(* and always have one size; bytes live in a named array that is destroyed *)
(* and constructed again when the length changes, and are handed to the    *)
(* caller through a view that is copied after the guard is gone.  Under    *)
(* LockFreeAndWasteMemory each save fills a block of its own and then sets *)
(* an offset, and no block is ever destroyed.  The strategy Unsafe is the  *)
(* locked one without the lock and promises nothing; it is left out.       *)
(***************************************************************************)
EXTENDS Naturals, Sequences, FiniteSets

CONSTANTS
  User,         \* threads of the processes attached to the segment
  Block,        \* addresses for the data
  None,         \* no client, no block
  MaxSaves      \* how many times the key is saved (bound)

ASSUME ExtraDataAssumption ==
  /\ None \notin User \cup Block
  /\ MaxSaves \in Nat

Junk == 0                            \* a word nobody saved
Words == UNION {[1..n -> 0..(MaxSaves + 1)] : n \in {1, 2}}
Whole(v, n) == [i \in 1..n |-> v]    \* the datum of version v and length n

VARIABLES
  lockFree,  \* the strategy: LockFreeAndWasteMemory, or one with a lock
             \* (MutexProtected, SpinLockProtected)
  inPlace,   \* whether the data type is trivially copyable
  keyWasThere, \* whether the key was saved before these clients came
  mem,       \* what each block holds, <<>> if it is not constructed
  key,       \* the block the key's name leads to; lock free: that its offset
             \* leads to; None when there is no such name
  offset,    \* lock free: whether the named offset exists
  holder,    \* who holds mutex_
  doing,     \* where each client is
  datum,     \* the datum a client is saving
  at,        \* the block a client writes into, or its view leads to
  size,      \* the length its view has
  got,       \* the words it has written or read so far
  saved,     \* history: the data in the order the saves took effect
  since      \* history: Len(saved) when the client's load began

setting == <<lockFree, inPlace, keyWasThere>>
dataVars == <<setting, mem, key, offset, holder, doing, datum, at, size, got, saved, since>>

Length == IF inPlace THEN {2} ELSE {1, 2}

Doings == {"idle", "save", "replace", "construct", "write", "publish", "wrote",
           "load", "find", "read", "done"}

DataTypeOK ==
  /\ {lockFree, inPlace, keyWasThere} \subseteq BOOLEAN
  /\ mem \in [Block -> Words \cup {<<>>}]
  /\ key \in Block \cup {None}
  /\ offset \in BOOLEAN
  /\ holder \in User \cup {None}
  /\ doing \in [User -> Doings]
  /\ at \in [User -> Block \cup {None}]
  /\ datum \in [User -> Words \cup {<<>>}]
  /\ size \in [User -> 0..2]
  /\ \A c \in User : Len(got[c]) <= 2
  /\ saved \in Seq(Words)
  /\ since \in [User -> Nat]

\* The template parameters and the type of the data are any, and so is what
\* earlier clients did.
DataInit ==
  /\ lockFree \in BOOLEAN /\ inPlace \in BOOLEAN /\ keyWasThere \in BOOLEAN
  /\ holder = None
  /\ offset = (lockFree /\ keyWasThere)
  /\ doing = [c \in User |-> "idle"]
  /\ datum = [c \in User |-> <<>>]
  /\ at = [c \in User |-> None]
  /\ size = [c \in User |-> 0]
  /\ got = [c \in User |-> <<>>]
  /\ since = [c \in User |-> 0]
  /\ IF keyWasThere
     THEN \E b \in Block, n \in Length :
            /\ key = b
            /\ mem = [x \in Block |-> IF x = b THEN Whole(1, n) ELSE <<>>]
            /\ saved = <<Whole(1, n)>>
     ELSE /\ key = None
          /\ mem = [x \in Block |-> <<>>]
          /\ saved = <<>>

Goto(c, where) == doing' = [doing EXCEPT ![c] = where]

\* IPCMutexWrapperGuard: acquired at its construction; the lock-free
\* strategy has none.
Acquire(c) == IF ~lockFree
              THEN holder = None /\ holder' = c
              ELSE UNCHANGED holder
Release == holder' = IF ~lockFree THEN None ELSE holder

-----------------------------------------------------------------------------
\* saveExtraData / saveExtraBytes is called with a datum not saved before.
BeginSave(c) ==
  /\ doing[c] \in {"idle", "done"}
  /\ \E v \in 2..(MaxSaves + 1), n \in Length :
       /\ \A i \in 1..Len(saved) : saved[i][1] # v
       /\ \A d \in User : datum[d] # <<>> => datum[d][1] # v
       /\ datum' = [datum EXCEPT ![c] = Whole(v, n)]
  /\ got' = [got EXCEPT ![c] = <<>>]
  /\ Goto(c, "save")
  /\ UNCHANGED <<setting, mem, key, offset, holder, at, size, saved, since>>

\* Under the guard, find what the key names: an array of the same
\* length, or an object of the type, is overwritten where it is.
FindForSave(c) ==
  /\ doing[c] = "save" /\ ~lockFree
  /\ Acquire(c)
  /\ at' = [at EXCEPT ![c] = key]
  /\ Goto(c, IF key = None THEN "construct"
             ELSE IF Len(mem[key]) = Len(datum[c]) THEN "write" ELSE "replace")
  /\ UNCHANGED <<setting, mem, key, offset, datum, size, got, saved, since>>

\* An array of another length is destroyed first.
DestroyOld(c) ==
  /\ doing[c] = "replace"
  /\ mem' = [mem EXCEPT ![at[c]] = <<>>]
  /\ key' = None
  /\ Goto(c, "construct")
  /\ UNCHANGED <<setting, offset, holder, datum, at, size, got, saved, since>>

\* Construct a new named array (or object), initialised to nothing in
\* particular.
ConstructNew(c) ==
  /\ doing[c] = "construct"
  /\ \E b \in {x \in Block : mem[x] = <<>>} :
       /\ mem' = [mem EXCEPT ![b] = Whole(Junk, Len(datum[c]))]
       /\ key' = b
       /\ at' = [at EXCEPT ![c] = b]
  /\ Goto(c, "write")
  /\ UNCHANGED <<setting, offset, holder, datum, size, got, saved, since>>

\* One word of the memcpy or assignment.
WriteWord(c) ==
  /\ doing[c] = "write"
  /\ Len(got[c]) < Len(datum[c])
  /\ LET i == Len(got[c]) + 1 IN
       /\ mem' = IF i <= Len(mem[at[c]])
                 THEN [mem EXCEPT ![at[c]][i] = datum[c][i]] ELSE mem
       /\ got' = [got EXCEPT ![c] = Append(@, datum[c][i])]
  /\ UNCHANGED <<setting, key, offset, holder, doing, datum, at, size, saved, since>>

\* The last word is there and the guard goes.
EndSave(c) ==
  /\ doing[c] = "write"
  /\ Len(got[c]) = Len(datum[c])
  /\ Release
  /\ saved' = Append(saved, datum[c])
  /\ datum' = [datum EXCEPT ![c] = <<>>]
  /\ Goto(c, "idle")
  /\ UNCHANGED <<setting, mem, key, offset, at, size, got, since>>

\* Fault: memory is not wasted, the block in use is filled again.
FillBlock_Reuse(c) ==
  /\ doing[c] = "save" /\ lockFree
  /\ key # None
  /\ mem' = [mem EXCEPT ![key] = datum[c]]
  /\ at' = [at EXCEPT ![c] = key]
  /\ Goto(c, "publish")
  /\ UNCHANGED <<setting, key, offset, holder, datum, size, got, saved, since>>

\* Lock free: a private block is constructed and filled.
FillBlock(c) ==
  /\ doing[c] = "save" /\ lockFree
  /\ \E b \in {x \in Block : mem[x] = <<>>} :
       /\ mem' = [mem EXCEPT ![b] = datum[c]]
       /\ at' = [at EXCEPT ![c] = b]
  /\ Goto(c, "publish")
  /\ UNCHANGED <<setting, key, offset, holder, datum, size, got, saved, since>>

\* Lock free: the named offset is found, or constructed with the value 0.
FindOrConstructOffset(c) ==
  /\ doing[c] = "publish"
  /\ offset' = TRUE
  /\ Goto(c, "wrote")
  /\ UNCHANGED <<setting, mem, key, holder, datum, at, size, got, saved, since>>

\* Lock free: and set to lead to the block.
StoreOffset(c) ==
  /\ doing[c] = "wrote"
  /\ key' = at[c]
  /\ saved' = Append(saved, datum[c])
  /\ datum' = [datum EXCEPT ![c] = <<>>]
  /\ Goto(c, "idle")
  /\ UNCHANGED <<setting, mem, offset, holder, at, size, got, since>>

-----------------------------------------------------------------------------
\* loadExtraData / loadExtraBytes is called.
BeginLoad(c) ==
  /\ doing[c] \in {"idle", "done"}
  /\ since' = [since EXCEPT ![c] = Len(saved)]
  /\ got' = [got EXCEPT ![c] = <<>>]
  /\ Goto(c, "load")
  /\ UNCHANGED <<setting, mem, key, offset, holder, datum, at, size, saved>>

\* Fault: a load takes no guard.
LockForLoad_NoGuard(c) ==
  /\ doing[c] = "load"
  /\ Goto(c, "find")
  /\ UNCHANGED <<setting, mem, key, offset, holder, datum, at, size, got, saved, since>>

\* The guard, if there is one, is taken.
LockForLoad(c) ==
  /\ doing[c] = "load"
  /\ Acquire(c)
  /\ Goto(c, "find")
  /\ UNCHANGED <<setting, mem, key, offset, datum, at, size, got, saved, since>>

\* Nothing under that name: nullopt.
FindNothing(c) ==
  /\ doing[c] = "find"
  /\ IF lockFree THEN ~offset ELSE key = None
  /\ Release
  /\ Goto(c, "idle")
  /\ UNCHANGED <<setting, mem, key, offset, datum, at, size, got, saved, since>>

\* The key leads to something.  A view of bytes outlives the guard; an
\* object is copied under it.  Lock free: an offset that is still 0 leads to
\* itself, and what is read there is no datum.
FindForLoad(c) ==
  /\ doing[c] = "find"
  /\ IF lockFree THEN offset ELSE key # None
  /\ at' = [at EXCEPT ![c] = key]
  /\ size' = [size EXCEPT ![c] = IF key = None THEN 1 ELSE Len(mem[key])]
  /\ IF inPlace THEN UNCHANGED holder ELSE Release
  /\ Goto(c, "read")
  /\ UNCHANGED <<setting, mem, key, offset, datum, got, saved, since>>

\* One word of the copy; where no datum is constructed there is junk.
ReadWord(c) ==
  /\ doing[c] = "read"
  /\ Len(got[c]) < size[c]
  /\ LET i == Len(got[c]) + 1
         there == at[c] # None /\ i <= Len(mem[at[c]])
     IN got' = [got EXCEPT ![c] =
                  Append(@, IF there THEN mem[at[c]][i] ELSE Junk)]
  /\ UNCHANGED <<setting, mem, key, offset, holder, doing, datum, at, size, saved, since>>

EndLoad(c) ==
  /\ doing[c] = "read"
  /\ Len(got[c]) = size[c]
  /\ IF inPlace THEN Release ELSE UNCHANGED holder
  /\ Goto(c, "done")
  /\ UNCHANGED <<setting, mem, key, offset, datum, at, size, got, saved, since>>

Step(c) ==
  \/ FindForSave(c) \/ DestroyOld(c) \/ ConstructNew(c)
  \/ WriteWord(c) \/ EndSave(c)
  \/ FillBlock(c) \/ FindOrConstructOffset(c) \/ StoreOffset(c)
  \/ LockForLoad(c) \/ FindNothing(c) \/ FindForLoad(c)
  \/ ReadWord(c) \/ EndLoad(c)

DataNext == \E c \in User : BeginSave(c) \/ BeginLoad(c) \/ Step(c)

DataSpec == DataInit /\ [][DataNext]_dataVars

-----------------------------------------------------------------------------
\* A load that returns data returns one datum that some save put there,
\* whole, not superseded before the load began: extra data behave like a
\* register.  It is so for objects under a lock, and without one for a key
\* that is there already (saveExtraData / loadExtraData); not so for bytes
\* under a lock, whose view outlives the guard, nor for the first save of a
\* key without one, whose offset is 0 for a moment.
LoadsWhatWasSaved ==
  (IF lockFree THEN keyWasThere ELSE inPlace) =>
    \A c \in User : doing[c] = "done" =>
      \E i \in 1..Len(saved) : i >= since[c] /\ got[c] = saved[i]

\* What was once saved stays found: no later load comes back empty
\* (the key is never without a datum while somebody can look).
NeverForgotten ==
  [][\A c \in User : FindNothing(c) => since[c] = 0]_dataVars
=============================================================================
