---------------------------- MODULE MCBroadcast ----------------------------
(* Instances of Broadcast. *)
EXTENDS Broadcast

CONSTANTS a, b, r, h, i1, i2, t, any

MCKind == {"zeromq", "nng", "multicast", "singlecast", "redis", "rabbitmq", "shm"}

\* a and b are importers (r publishes where publishing takes a thread), or a
\* fetches while b imports, or they are threads of the facility: a handler and
\* the control thread, or two threads that bring requests.
Two   == a :> "importer" @@ b :> "importer" @@ r :> "idle"
Fetch == a :> "fetcher" @@ b :> "importer" @@ r :> "reaper"
Alone == a :> "fetcher" @@ b :> "idle" @@ r :> "reaper"
Facil == a :> "handler" @@ b :> "control" @@ r :> "idle"
Both  == a :> "handler" @@ b :> "handler" @@ r :> "idle"

L(i) == [host |-> h, ident |-> i]
First  == [loc |-> L(i1), filter |-> any]
Second == [loc |-> L(i2), filter |-> t]
MCWanted == { First, Second }
MCExported == { L(i1) }

\* Both want the same, or not.
Same   == [c \in Caller |-> First]
Differ == [c \in Caller |-> IF c = b THEN Second ELSE First]

Cast(kinds, castings, wants) == [kind : kinds, role : castings, want : wants]

\* Importers and fetches on every transport, and the facility.
MCScenario == Cast(MCKind, {Two, Facil}, {Same})
         \cup Cast(MCKind \ {"nng", "shm"}, {Fetch}, {Same})
         \cup Cast({"nng", "shm"}, {Alone}, {Same})
         \cup Cast({"zeromq", "rabbitmq"}, {Both}, {Same})
         \cup Cast({"zeromq", "rabbitmq"}, {Two}, {Differ})
         \cup Cast({"redis", "rabbitmq"}, {Fetch}, {Differ})
=============================================================================
