------------------------------- MODULE MCRpc -------------------------------
(* Instances of Rpc. *)
EXTENDS Rpc

CONSTANTS a, b, s1, s2

MCKind == {"redis", "rabbitmq", "socket_rpc", "grpc_interop"}
Messaging == MCKind \ {"grpc_interop"}

Casting(kinds, x, y, unary, identity, servers, there, f) ==
  [kind : kinds, role : {a :> x @@ b :> y}, single : unary, signed : identity,
   serves : {servers}, serving : {there}, faults : {f}]

One   == s1 :> "replying" @@ s2 :> "absent"
Two   == s1 :> "replying" @@ s2 :> "replying"
Quiet == s1 :> "silent" @@ s2 :> "absent"
Mute  == s1 :> "replying" @@ s2 :> "silent"

\* Facilities that stop and are stopped again; one-shot calls and one that
\* wants no answer; a remote facility that comes and goes; a server that comes
\* late, a second one, and one that is silent.
MCScenario ==
  Casting(Messaging, "facility", "facility", {FALSE}, {FALSE}, One, {s1}, MaxFaults)
  \cup Casting(Messaging, "facility", "idle", {FALSE}, {TRUE}, One, {}, 0)
  \cup Casting(Messaging \ {"redis"}, "remote", "idle", {FALSE}, {FALSE}, One, {s1}, 0)
  \cup Casting({"redis"}, "remote", "idle", {FALSE}, {FALSE}, One, {s1}, MaxFaults)
  \cup Casting(Messaging, "oneshot", "noreply", {FALSE}, {TRUE}, One, {s1}, 0)
  \cup Casting(Messaging, "noreply", "oneshot", {FALSE}, {FALSE}, One, {s1}, MaxFaults)
  \cup Casting(Messaging \ {"socket_rpc"}, "facility", "idle", {FALSE}, BOOLEAN, Mute, {s1}, MaxFaults)
  \cup Casting({"socket_rpc"}, "facility", "idle", {FALSE}, BOOLEAN, Quiet, {}, 0)
  \cup Casting({"redis", "rabbitmq"}, "facility", "idle", {FALSE}, {FALSE}, Two, {s1}, MaxFaults)
  \cup Casting({"grpc_interop"}, "remote", "facility", {FALSE}, {FALSE}, One, {s1}, MaxFaults)
  \cup Casting({"grpc_interop"}, "remote", "idle", {TRUE}, {FALSE}, One, {s1}, MaxFaults)
  \cup Casting({"grpc_interop"}, "facility", "idle", {FALSE}, {FALSE}, One, {}, 0)
  \cup Casting({"grpc_interop"}, "native", "sync", BOOLEAN, BOOLEAN, One, {}, 0)
=============================================================================
