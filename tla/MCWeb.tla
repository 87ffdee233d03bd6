------------------------------- MODULE MCWeb -------------------------------
(* Instances of Web. *)
EXTENDS Web

CONSTANTS a, b, s

MCKind == {"websocket_rpc", "websocket"}

Plain == [ignoreTopic |-> FALSE, portless |-> FALSE, guarded |-> FALSE]
NoFilter == a :> "none" @@ b :> "none"

CallScene(x, y, tls, identity, replies, thereAtFirst, f) ==
  [kind : {"websocket_rpc"}, role : {a :> x @@ b :> y}, secure : tls, signed : identity,
   serves : {s :> replies}, there : thereAtFirst, faults : {f}, manner : {Plain},
   filter : {NoFilter}]

ListenScene(x, y, tls, how, topics, exporter, thereAtFirst, f) ==
  [kind : {"websocket"}, role : {a :> x @@ b :> y}, secure : tls, signed : {FALSE},
   serves : {s :> exporter}, there : thereAtFirst, faults : {f}, manner : how,
   filter : topics]

Filters == a :> "string" @@ b :> "regex"

Ignoring == [Plain EXCEPT !.ignoreTopic = TRUE]
Portless == [Plain EXCEPT !.portless = TRUE]
Guarded  == [Plain EXCEPT !.guarded = TRUE]

\* Facilities, one-shot calls, one that wants no answer and a remote facility
\* that comes and goes, with and without TLS, before and after their server;
\* importers that come and go, lazy ones and fetches, with and without topics.
MCScenario ==
  CallScene("facility", "idle", {FALSE}, {FALSE}, "replying", {TRUE}, 0)
  \cup CallScene("facility", "idle", {TRUE}, {FALSE}, "replying", {FALSE}, 0)
  \cup CallScene("facility", "idle", {FALSE}, {FALSE}, "silent", {FALSE}, 0)
  \cup CallScene("facility", "idle", {FALSE}, {TRUE}, "silent", {TRUE}, MaxFaults)
  \cup CallScene("facility", "oneshot", {FALSE}, {FALSE}, "replying", {TRUE}, MaxFaults)
  \cup CallScene("oneshot", "idle", {FALSE}, BOOLEAN, "replying", {TRUE}, 0)
  \cup CallScene("noreply", "idle", {FALSE}, BOOLEAN, "replying", {TRUE}, 0)
  \cup CallScene("remote", "idle", {FALSE}, {FALSE}, "replying", {TRUE}, MaxFaults)
  \cup ListenScene("importer", "fetch", {FALSE}, {Plain}, {Filters}, "exporter", {TRUE}, 0)
  \cup ListenScene("typedFetch", "idle", {TRUE}, {Plain}, {NoFilter}, "typedExporter", {TRUE}, 0)
  \cup ListenScene("lazy", "idle", {TRUE}, {Plain}, {NoFilter}, "exporter", {FALSE}, 0)
  \cup ListenScene("lazy", "typedLazy", {FALSE}, {Guarded}, {NoFilter}, "exporter", {TRUE}, 0)
  \cup ListenScene("importer", "typedImporter", {FALSE}, {Ignoring}, {NoFilter}, "exporter",
                   {TRUE}, 0)
  \cup ListenScene("lazy", "lazy", {FALSE}, {Portless}, {NoFilter}, "exporter", {TRUE}, 0)
=============================================================================
