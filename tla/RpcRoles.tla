------------------------------ MODULE RpcRoles ------------------------------
(***************************************************************************)
(* What the users of remote calls are: facilities that ask until they are  *)
(* stopped, one-shot calls that have a thread take their client away when  *)
(* they are answered, calls that want no answer, remote facilities that are*)
(* registered and deregistered, and servers with replies or without.       *)
(***************************************************************************)
EXTENDS RpcConnections

CONSTANTS Scenario,   \* a transport, what each caller does, what servers do
          MaxClient   \* bound: clients that a connection gives a number to

VARIABLES role,     \* what each caller is
          signed,   \* requests to this locator have an identity
          serves,   \* what each server is: wrapped without replies, or with
          reap      \* of a one-shot call: was it done, and the threads that
                    \* will take its client away

roleVars == <<role, signed, serves, reap>>

Roles == {"facility", "oneshot", "noreply", "remote", "native", "sync", "idle"}

RpcRolesTypeOK ==
  /\ role \in [Caller -> Roles] /\ signed \in BOOLEAN
  /\ serves \in [Server -> {"replying", "silent", "absent"}]
  /\ reap \in [Caller -> [done : BOOLEAN, due : 0..2]]

\* A server that was there before the clients were.
Serving == [Down EXCEPT !.up = TRUE, !.ready = TRUE]

Cast(x) ==
  /\ role = x.role /\ serves = x.serves /\ signed = x.signed /\ faults = x.faults
  /\ reap = [c \in Caller |-> [done |-> FALSE, due |-> 0]]

Starts(c) == user[c].o = 0 /\ \A o \in 1..Len(conn) : conn[o].counter < MaxClient
Asked(c)  == \E i \in 1..Len(asker) : asker[i].by = c

\* The one request of a one-shot call, with what follows of it in the call.
AsksOnce(c) == ~Asked(c) \/ user[c].at # "ready"

\* A thread that was to take the client away has its turn.
Reaps(c) == reap[c].due > 0 /\ reap' = [reap EXCEPT ![c].due = @ - 1]

\* The callbacks: an answer is taken once; one that could not be read has its
\* thread too, and the call is not marked as done.
OneShotHears(garbled) ==
  reap' = [c \in Caller |->
    IF role[c] # "oneshot" \/ reap[c].done THEN reap[c]
    ELSE IF \E i \in 1..Len(asker) : asker[i].by = c /\ heard'[i] # heard[i]
         THEN [done |-> TRUE, due |-> reap[c].due + 1]
    ELSE IF c \in garbled THEN [reap[c] EXCEPT !.due = @ + 1]
    ELSE reap[c]]
=============================================================================
