---------------------------- MODULE ShmSpinLock ----------------------------
(***************************************************************************)
(* The inter-process spin lock of the shared memory chain                  *)
(* (BoostSharedMemoryChain_SpinLock), which protects the chain's extra     *)
(* data and serves as its data lock.                                       *)
(*                                                                         *)
(* It is a ticket lock on three atomic words in the segment: the number    *)
(* dispenser, the service registrar (the ticket being served) and the      *)
(* owner registrar (pid and thread of the holder, 0 when there is none).   *)
(* A waiter that has polled 10000 times without its turn coming looks at   *)
(* the owner: if there is none, or its process is gone, the waiter moves   *)
(* the service registrar to its own ticket and takes the lock over; a      *)
(* thread that finds itself passed over draws a new ticket.                *)
(*                                                                         *)
(* Every action is one access to shared memory, except that the load of    *)
(* the service registrar in front of a compare-exchange that stores back   *)
(* what it expects is merged with it.  A thread stands for a process: the  *)
(* lock only distinguishes processes that run from processes that do not.  *)
(***************************************************************************)
EXTENDS Naturals, FiniteSets

CONSTANTS
  Thread,        \* the threads, each in a process of its own
  Nobody,        \* owner registrar 0
  MaxCalls,      \* how often the threads lock, all together (bound)
  MayDie       \* whether processes may die

ASSUME SpinAssumption ==
  /\ Nobody \notin Thread
  /\ MaxCalls \in Nat
  /\ MayDie \in BOOLEAN

VARIABLES
  numberDispenser, serviceRegistrar, ownerRegistrar,
  stage,             \* where each thread is
  myNumber,          \* its ticket
  currentlyServing,  \* the last service registrar value it loaded
  currentOwner,      \* the last owner registrar value it loaded
  lastOwner,         \* the owner it saw 10000 polls ago
  calls,             \* how many calls of lock() there have been
  slowHandover       \* history: a waiter gave up on the owner word, after its
                     \* 10000 polls, while the thread whose turn it was was
                     \* alive but between two instructions

lockVars == <<numberDispenser, serviceRegistrar, ownerRegistrar, stage, myNumber,
              currentlyServing, currentOwner, lastOwner, calls, slowHandover>>

shared == <<numberDispenser, serviceRegistrar, ownerRegistrar>>
locals == <<myNumber, currentlyServing, currentOwner, lastOwner, calls,
            slowHandover>>

Stages == {"out",        \* not holding and not waiting
           "draw",       \* about to take a (new) ticket
           "poll",       \* in the loop, about to load the service registrar
           "turn",       \* its turn: about to load the owner
           "claim",      \* about to compare-exchange the owner
           "behind",     \* 10000 polls: about to load the owner
           "skip",       \* about to move the service registrar to itself
           "skipclaim",  \* and then to claim the ownership
           "critical",   \* lock() has returned
           "unlocking",  \* owner registrar cleared, service not yet advanced
           "dead"}       \* its process is gone

LockTypeOK ==
  /\ numberDispenser \in Nat
  /\ serviceRegistrar \in Nat
  /\ ownerRegistrar \in Thread \cup {Nobody}
  /\ stage \in [Thread -> Stages]
  /\ myNumber \in [Thread -> Nat]
  /\ currentlyServing \in [Thread -> Nat]
  /\ currentOwner \in [Thread -> Thread \cup {Nobody}]
  /\ lastOwner \in [Thread -> Thread \cup {Nobody}]
  /\ calls \in Nat
  /\ slowHandover \in BOOLEAN

LockInit ==
  /\ numberDispenser = 0
  /\ serviceRegistrar = 0
  /\ ownerRegistrar = Nobody
  /\ stage = [t \in Thread |-> "out"]
  /\ myNumber = [t \in Thread |-> 0]
  /\ currentlyServing = [t \in Thread |-> 0]
  /\ currentOwner = [t \in Thread |-> Nobody]
  /\ lastOwner = [t \in Thread |-> Nobody]
  /\ calls = 0
  /\ slowHandover = FALSE

GoOn(t, where) == stage' = [stage EXCEPT ![t] = where]

\* What was loaded in this round of the loop is loaded again before it is
\* used again.
ForgetLoads(t) ==
  /\ currentlyServing' = [currentlyServing EXCEPT ![t] = 0]
  /\ currentOwner' = [currentOwner EXCEPT ![t] = Nobody]

\* The locals of lock() are gone, with its frame or with the whole process.
ForgetLocals(t) ==
  /\ ForgetLoads(t)
  /\ lastOwner' = [lastOwner EXCEPT ![t] = Nobody]

-----------------------------------------------------------------------------
\* lock() is called.
CallLock(t) ==
  /\ stage[t] = "out"
  /\ calls < MaxCalls
  /\ calls' = calls + 1
  /\ GoOn(t, "draw")
  /\ UNCHANGED <<shared, myNumber, currentlyServing, currentOwner, lastOwner,
                 slowHandover>>

\* numberDispenser_->fetch_add(1) and the start of the inner loop.
DrawNumber(t) ==
  /\ stage[t] = "draw"
  /\ myNumber' = [myNumber EXCEPT ![t] = numberDispenser]
  /\ numberDispenser' = numberDispenser + 1
  /\ GoOn(t, "poll")
  /\ UNCHANGED <<serviceRegistrar, ownerRegistrar, currentlyServing,
                 currentOwner, lastOwner, calls, slowHandover>>

\* Fault: a thread that was skipped does not notice.
GotSkipped_Never(t) == stage[t] = "poll" /\ FALSE

\* "we got skipped, start again"
GotSkipped(t) ==
  /\ stage[t] = "poll"
  /\ serviceRegistrar > myNumber[t]
  /\ ForgetLocals(t)
  /\ myNumber' = [myNumber EXCEPT ![t] = 0]
  /\ GoOn(t, "draw")
  /\ UNCHANGED <<shared, calls, slowHandover>>

\* "our turn": the compare-exchange of the service registrar confirms it.
OurTurn(t) ==
  /\ stage[t] = "poll"
  /\ serviceRegistrar = myNumber[t]
  /\ GoOn(t, "turn")
  /\ UNCHANGED <<shared, locals>>

LoadOwnerAtTurn(t) ==
  /\ stage[t] = "turn"
  /\ currentOwner' = [currentOwner EXCEPT ![t] = ownerRegistrar]
  /\ GoOn(t, "claim")
  /\ UNCHANGED <<shared, myNumber, currentlyServing, lastOwner, calls,
                 slowHandover>>

\* The compare-exchange of the owner registrar from the value loaded, at
\* the turn (stage "claim") or after skipping others (stage "skipclaim").
ClaimOwnership(t) ==
  /\ stage[t] \in {"claim", "skipclaim"}
  /\ ownerRegistrar = currentOwner[t]
  /\ ownerRegistrar' = t
  /\ GoOn(t, "critical")
  /\ ForgetLocals(t)
  /\ UNCHANGED <<numberDispenser, serviceRegistrar, myNumber, calls,
                 slowHandover>>

ClaimFails(t) ==
  /\ stage[t] \in {"claim", "skipclaim"}
  /\ ownerRegistrar # currentOwner[t]
  /\ GoOn(t, "poll")
  /\ ForgetLoads(t)
  /\ UNCHANGED <<shared, myNumber, lastOwner, calls, slowHandover>>

\* Somebody is in front.  A poll that does not complete the count of 10000
\* changes nothing; this is the one that does.
PolledLong(t) ==
  /\ stage[t] = "poll"
  /\ serviceRegistrar < myNumber[t]
  /\ currentlyServing' = [currentlyServing EXCEPT ![t] = serviceRegistrar]
  /\ GoOn(t, "behind")
  /\ UNCHANGED <<shared, myNumber, currentOwner, lastOwner, calls, slowHandover>>

\* pidIsRunning
Running(t) == stage[t] # "dead"

\* The thread whose ticket is being served is alive, and not yet or no
\* longer inside; t polls meanwhile.
HandingOverBefore(t) ==
  \E u \in Thread \ {t} : /\ stage[u] \notin {"out", "draw", "critical", "dead"}
                          /\ myNumber[u] = serviceRegistrar

\* The owner is loaded: it changed since the last 10000 polls, or its
\* process runs: keep polling.
OwnerAlive(t) ==
  /\ stage[t] = "behind"
  /\ \/ ownerRegistrar # lastOwner[t]
     \/ ownerRegistrar # Nobody /\ Running(ownerRegistrar)
  /\ lastOwner' = [lastOwner EXCEPT ![t] = ownerRegistrar]
  /\ GoOn(t, "poll")
  /\ ForgetLoads(t)
  /\ UNCHANGED <<shared, myNumber, calls, slowHandover>>

\* Fault: the owner's process is not looked up.
OwnerGone_NoPidCheck(t) ==
  /\ stage[t] = "behind"
  /\ ownerRegistrar = lastOwner[t]
  /\ currentOwner' = [currentOwner EXCEPT ![t] = ownerRegistrar]
  /\ GoOn(t, "skip")
  /\ slowHandover' = (slowHandover \/ HandingOverBefore(t))
  /\ UNCHANGED <<shared, myNumber, currentlyServing, lastOwner, calls>>

\* There is no owner, or its process does not run.
OwnerGone(t) ==
  /\ stage[t] = "behind"
  /\ ownerRegistrar = lastOwner[t]
  /\ ownerRegistrar # Nobody => ~Running(ownerRegistrar)
  /\ currentOwner' = [currentOwner EXCEPT ![t] = ownerRegistrar]
  /\ GoOn(t, "skip")
  /\ slowHandover' = (slowHandover \/ HandingOverBefore(t))
  /\ UNCHANGED <<shared, myNumber, currentlyServing, lastOwner, calls>>

\* Fault: a store in place of the compare-exchange.
SkipOthers_Store(t) ==
  /\ stage[t] = "skip"
  /\ serviceRegistrar' = myNumber[t]
  /\ GoOn(t, "skipclaim")
  /\ UNCHANGED <<numberDispenser, ownerRegistrar, locals>>

\* The compare-exchange of the service registrar from the value loaded to
\* the thread's own ticket.
SkipOthers(t) ==
  /\ stage[t] = "skip"
  /\ serviceRegistrar = currentlyServing[t]
  /\ serviceRegistrar' = myNumber[t]
  /\ GoOn(t, "skipclaim")
  /\ UNCHANGED <<numberDispenser, ownerRegistrar, locals>>

SkipFails(t) ==
  /\ stage[t] = "skip"
  /\ serviceRegistrar # currentlyServing[t]
  /\ GoOn(t, "poll")
  /\ ForgetLoads(t)
  /\ UNCHANGED <<shared, myNumber, lastOwner, calls, slowHandover>>

\* unlock(): the two stores.
ClearOwner(t) ==
  /\ stage[t] = "critical"
  /\ ownerRegistrar' = Nobody
  /\ GoOn(t, "unlocking")
  /\ UNCHANGED <<numberDispenser, serviceRegistrar, locals>>

AdvanceService(t) ==
  /\ stage[t] = "unlocking"
  /\ serviceRegistrar' = serviceRegistrar + 1
  /\ myNumber' = [myNumber EXCEPT ![t] = 0]
  /\ GoOn(t, "out")
  /\ UNCHANGED <<numberDispenser, ownerRegistrar, currentlyServing, currentOwner,
                 lastOwner, calls, slowHandover>>

\* The process dies, wherever it is; the words it wrote stay as they are.
Die(t) ==
  /\ MayDie
  /\ stage[t] \notin {"out", "dead"}
  /\ GoOn(t, "dead")
  /\ ForgetLocals(t)
  /\ myNumber' = [myNumber EXCEPT ![t] = 0]
  /\ UNCHANGED <<shared, calls, slowHandover>>

\* What a thread inside lock() and unlock() does of itself.
LockStep(t) ==
  \/ DrawNumber(t)
  \/ GotSkipped(t) \/ OurTurn(t) \/ PolledLong(t)
  \/ LoadOwnerAtTurn(t) \/ ClaimOwnership(t) \/ ClaimFails(t)
  \/ OwnerAlive(t) \/ OwnerGone(t) \/ SkipOthers(t) \/ SkipFails(t)
  \/ ClearOwner(t) \/ AdvanceService(t)

LockNext == \E t \in Thread : CallLock(t) \/ LockStep(t) \/ Die(t)

LockSpec == LockInit /\ [][LockNext]_lockVars

\* The operating system runs every live thread again and again, and the
\* sections under the lock are short and leave it by the guard's destructor.
FairLockSpec == LockSpec /\ \A t \in Thread : WF_lockVars(LockStep(t))

-----------------------------------------------------------------------------
\* Two live threads are never both past lock() and not yet in unlock(), and
\* the one that is there is on record as the owner, which is all that the
\* takeover looks at; provided that no hand-over has ever lasted 10000 polls.
MutualExclusion ==
  ~slowHandover =>
    \A t \in Thread : stage[t] = "critical" =>
      /\ ownerRegistrar = t
      /\ \A u \in Thread : stage[u] = "critical" => t = u

\* Service never returns to a ticket it has left, whatever is skipped: a
\* thread that saw a larger number is right to give its ticket up.
ServiceNeverGoesBack == [][serviceRegistrar' >= serviceRegistrar]_lockVars

\* As long as no hand-over has lasted 10000 polls, whoever waits gets in or is
\* killed, however many others die on the way, wherever they die and however
\* often the rest lock again: passing over a waiter costs the death of the one
\* in front of it.  After a slow hand-over a takeover costs nobody's life, and
\* all that is left is that a waiter does not stay on one ticket: it gets in,
\* is killed, or finds that it was passed over and draws again, which the
\* next slow hand-overs may repeat for ever.
EveryoneGetsIn ==
  \A t \in Thread :
    stage[t] = "poll" ~> \/ stage[t] \in {"critical", "dead"}
                         \/ slowHandover /\ stage[t] = "draw"

\* "check if the process in front has quit": nobody is skipped while the
\* thread whose ticket is being served is alive.
TakeoverOnlyFromQuit ==
  [][\A t \in Thread : SkipOthers(t) =>
        \A u \in Thread :
          stage[u] \notin {"out", "draw"} /\ myNumber[u] = serviceRegistrar
             => ~Running(u)]_lockVars
=============================================================================
