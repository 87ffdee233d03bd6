------------------------------ MODULE WebLinks ------------------------------
(***************************************************************************)
(* The connections of WebSocketComponent.cpp.  A subscriber or a client of *)
(* remote calls is a chain of handlers on a thread of its own, each of     *)
(* which starts the next: resolve, connect, perhaps a TLS handshake, the   *)
(* handshake of the web socket, and reads without end.  A publisher or a   *)
(* server of remote calls has one thread too, and a chain of handlers for  *)
(* each connection that it has accepted.                                   *)
(*                                                                         *)
(* The threads are detached when they are made, so th_.join() throws in    *)
(* every destructor.  OneSubscriber's catches it; the others do not, and a *)
(* destructor that throws ends the process.                                *)
(***************************************************************************)
EXTENDS RpcConnections

CONSTANT MaxSess   \* bound: TCP connections in one behaviour

VARIABLES secure,  \* stream_.index() is 2: there is a TLS layer
          chain,   \* of each client object: the handler that is due
          sess,    \* the TCP connections, with what is under way on them
          site,    \* the component of the server's process, and its port
          ended    \* the client's process has come to its end

linkVars == <<secure, chain, sess, site, ended>>

\* What the remote calls keep besides the connections.
callVars == <<kind, clientVars, asker, heard, server, queue, undefVars>>

ChainAt == {"resolving", "connecting", "securing", "shaking", "splicing", "sending", "writing",
            "reading", "failed", "idle"}
PeerAt == {"backlog", "accepted", "securing", "shaking", "good", "gone"}

Resolving == [at |-> "resolving", s |-> 0]

\* hello: the request to upgrade was sent; up, down: data to the server and
\* back; allowed: writeAuthorized_; path: its handler is in pathToClientMap_.
NewSess == [peer |-> "backlog", cut |-> FALSE, hello |-> ~secure, up |-> <<>>,
            down |-> <<>>, allowed |-> FALSE, path |-> FALSE]

\* made: the port listens; ran: its thread runs; visited: finalizeEnvironment
\* has gone through the ports; stuck: clientHandlersMutex_ is held by a thread
\* that waits for it.
Off == [made |-> FALSE, visited |-> FALSE, started |-> FALSE, ran |-> FALSE, stuck |-> FALSE]

LinkTypeOK ==
  /\ \A o \in 1..Len(chain) : chain[o].at \in ChainAt /\ chain[o].s \in 0..Len(sess)
  /\ Len(sess) <= MaxSess
  /\ \A k \in 1..Len(sess) :
       /\ sess[k].peer \in PeerAt
       /\ {sess[k].cut, sess[k].hello, sess[k].allowed, sess[k].path} \subseteq BOOLEAN
  /\ site \in [made : BOOLEAN, visited : BOOLEAN, started : BOOLEAN, ran : BOOLEAN,
               stuck : BOOLEAN]
  /\ {secure, ended} \subseteq BOOLEAN

\* A port that was there before the clients were.
There == [made |-> TRUE, visited |-> TRUE, started |-> TRUE, ran |-> TRUE, stuck |-> FALSE]

LinkInit == chain = <<>> /\ sess = <<>> /\ site \in {Off, There} /\ ended = FALSE

\* A connection that has broken has lost what was under way.
Broken(x) == [x EXCEPT !.cut = TRUE, !.up = <<>>, !.down = <<>>]
AllBroken == [k \in 1..Len(sess) |-> Broken(sess[k])]

Breaks(k) == /\ ~sess[k].cut /\ Fault
             /\ sess' = [sess EXCEPT ![k] = Broken(@)]
             /\ UNCHANGED <<secure, chain, site, ended>>

--------------------------------------------------------------------------
(* The client's chain.                                                     *)

Due(o, at) == ~ended /\ chain[o].at = at
Turns(o, at) == chain' = [chain EXCEPT ![o].at = at]

\* The name of the host is resolved, or is not.
Resolves(o) ==
  /\ Due(o, "resolving")
  /\ \/ Turns(o, "connecting") /\ UNCHANGED faults
     \/ Turns(o, "failed") /\ Fault
  /\ UNCHANGED <<secure, sess, site, ended>>

\* A port that listens lets clients connect before anybody accepts them.
Connects(o) ==
  /\ Due(o, "connecting")
  /\ \/ /\ site.made /\ Len(sess) < MaxSess
        /\ sess' = Append(sess, NewSess)
        /\ chain' = [chain EXCEPT ![o] = [at |-> IF secure THEN "securing" ELSE "shaking",
                                          s  |-> Len(sess) + 1]]
     \/ /\ ~site.made
        /\ Turns(o, "failed") /\ UNCHANGED sess
  /\ UNCHANGED <<secure, site, ended, faults>>

\* The TLS handshake; the request to upgrade comes after it.
Secures(o) ==
  /\ Due(o, "securing")
  /\ LET k == chain[o].s
     IN  \/ /\ sess[k].peer = "securing" /\ ~sess[k].cut
            /\ sess' = [sess EXCEPT ![k].hello = TRUE]
            /\ Turns(o, "shaking")
         \/ /\ sess[k].cut
            /\ Turns(o, "failed") /\ UNCHANGED sess
  /\ UNCHANGED <<secure, site, ended, faults>>

\* The server has answered; its own handler may not have run yet.
Answered(o) == sess[chain[o].s].peer \in {"shaking", "good"} /\ ~sess[chain[o].s].cut

\* The handshake of the web socket failed, or a read did.
FailsToRead(o, at) ==
  /\ Due(o, at) /\ sess[chain[o].s].cut
  /\ Turns(o, "failed")
  /\ UNCHANGED <<secure, sess, site, ended, faults>>

\* The process ends, and its connections with it.
ClientEnds == ended' = TRUE /\ sess' = AllBroken

--------------------------------------------------------------------------
(* The server's handlers.                                                  *)

Runs == site.ran /\ ~site.stuck

\* OneClientHandler's constructor reads the request on the server's thread,
\* which is what a connection without TLS has to wait for.
Accepts(k) ==
  /\ Runs /\ sess[k].peer = "backlog" /\ (secure \/ ~sess[k].cut)
  /\ \A j \in 1..(k - 1) : sess[j].peer # "backlog"
  /\ sess' = [sess EXCEPT ![k].peer = "accepted"]
  /\ UNCHANGED <<secure, chain, site, ended, faults>>

\* run, onRun: dispatched to the strand of the connection.
Dispatches(k) ==
  /\ Runs /\ sess[k].peer = "accepted"
  /\ sess' = [sess EXCEPT ![k].peer = IF secure THEN "securing" ELSE "shaking"]
  /\ UNCHANGED <<secure, chain, site, ended, faults>>

\* The TLS handshake is over, and the request is read after it.
Upgrades(k) ==
  /\ Runs /\ sess[k].peer = "securing" /\ sess[k].hello /\ ~sess[k].cut
  /\ sess' = [sess EXCEPT ![k].peer = "shaking"]
  /\ UNCHANGED <<secure, chain, site, ended, faults>>

\* What the server keeps of a connection whose handler it has removed.
Removed(x) == [x EXCEPT !.peer = "gone", !.path = FALSE]

\* An end of the server's process, by itself or by an uncaught exception.
SiteEnds ==
  /\ site' = Off
  /\ sess' = [k \in 1..Len(sess) |-> Removed(Broken(sess[k]))]
  /\ UNCHANGED <<secure, chain, ended>>

\* A plain connection that breaks before its request is read, or one with
\* TLS between the handshake and the request: the read throws.
ReadThrows(k) ==
  /\ Runs /\ sess[k].cut
  /\ sess[k].peer = IF secure THEN "securing" ELSE "backlog"

\* getPublisher, websocket_setRPCServer: a port of an environment that has
\* started runs at once.
Opens ==
  /\ ~site.made
  /\ site' = [site EXCEPT !.made = TRUE, !.ran = site.started]
  /\ UNCHANGED <<secure, chain, sess, ended, faults>>

\* finalizeEnvironment goes through the ports, under the mutex of their map,
\* and runs those that it finds.
RunsPorts ==
  /\ ~site.visited
  /\ site' = [site EXCEPT !.visited = TRUE, !.ran = site.made]
  /\ UNCHANGED <<secure, chain, sess, ended>>

\* started_ = true, when both mutexes have been released.
SetsStarted ==
  /\ site.visited /\ ~site.started
  /\ site' = [site EXCEPT !.started = TRUE]
  /\ UNCHANGED <<secure, chain, sess, ended>>

WebFinalizeEnvironment == RunsPorts \/ SetsStarted

\* A port that was made between the two: nobody runs it any more.
Overlooked == site.made /\ site.started /\ ~site.ran
=============================================================================
