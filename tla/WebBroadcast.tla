---------------------------- MODULE WebBroadcast ----------------------------
(***************************************************************************)
(* Broadcasts over web sockets: OneSubscriber, OnePublisher and the        *)
(* functions of WebSocketComponent.cpp that use them.  One locator is      *)
(* explored, so the component has at most one subscriber at a time, which  *)
(* all listeners share: chain[1].  When its connection fails it moves to a *)
(* new object.  Publications are numbered.                                 *)
(***************************************************************************)
EXTENDS WebLinks

CONSTANT MaxSent   \* bound: publications in one behaviour

VARIABLES manner,   \* how the locator is used
          filter,   \* each caller's topic: none, a string, a regular expression
          sub,      \* the subscriber: initialData_ and the clients, by age
          owner,    \* who each id was given to
          ids,      \* subscriberClientIDToSubscriberLocatorMap_
          got,      \* what the callback of each id was called with
          sent,     \* publications so far
          torn,     \* the clients were changed while they were gone through
          doubled,  \* a subscriber that runs was run again
          deaf      \* a subscriber that cannot be initialized is in the map

shareVars == <<manner, filter>>
subVars == <<sub, owner, ids, got, sent, torn, doubled, deaf>>
webBroadcastVars == <<shareVars, subVars>>

WebSocket == kind = "websocket"

\* ignoreTopic, and a locator that leaves the port out; guarded: the publisher
\* has a protocol that wants initial data before it writes anything.
Manner == [ignoreTopic : BOOLEAN, portless : BOOLEAN, guarded : BOOLEAN]

NoSub == [initial |-> FALSE, clients |-> <<>>, hand |-> 0]

WebBroadcastTypeOK ==
  /\ manner \in Manner /\ filter \in [Caller -> {"none", "string", "regex"}]
  /\ WebSocket => Len(chain) <= 1
  /\ sub.initial \in BOOLEAN /\ sub.clients \in Seq(Id) /\ sub.hand \in 0..MaxSent
  /\ owner \in Seq(Caller) /\ Len(owner) <= MaxId /\ ids \subseteq Id
  /\ \A i \in Id : got[i] \in Seq([m : 1..MaxSent, whole : BOOLEAN])
  /\ sent \in 0..MaxSent /\ {torn, doubled, deaf} \subseteq BOOLEAN

WebBroadcastInit ==
  /\ sub = NoSub /\ owner = <<>> /\ ids = {} /\ got = [i \in Id |-> <<>>] /\ sent = 0
  /\ torn = FALSE /\ doubled = FALSE /\ deaf = FALSE

--------------------------------------------------------------------------
(* The subscriber's clients.                                               *)

\* With ignoreTopic they are gone through without clientsMutex_.
Tears == torn' = (torn \/ (manner.ignoreTopic /\ sub.hand # 0))

\* websocket_addSubscriptionClient under subscriberMapMutex_, for caller c with
\* or without initial data: the id is Len(owner').  A locator with a port finds
\* the subscriber; one without never does, and runs what insert finds.
AddSubscriptionClient(c, initial) ==
  /\ WebSocket /\ ~ended /\ Len(owner) < MaxId
  /\ owner' = Append(owner, c)
  /\ LET id == Len(owner) + 1
     IN  \/ /\ chain = <<>>
            /\ chain' = <<Resolving>>
            /\ sub' = [sub EXCEPT !.initial = initial, !.clients = <<id>>]
            /\ ids' = ids \cup {id}
            /\ UNCHANGED <<torn, doubled, faults>>
         \/ /\ chain = <<>> /\ secure /\ Fault
            /\ UNCHANGED <<chain, sub, ids, torn, doubled>>
         \/ /\ chain # <<>>
            /\ sub' = [sub EXCEPT !.clients = Append(@, id)]
            /\ ids' = ids \cup {id}
            /\ doubled' = (doubled \/ manner.portless)
            /\ Tears
            /\ UNCHANGED <<chain, faults>>
  /\ UNCHANGED <<secure, sess, site, ended, got, sent, deaf, strayed>>

\* Those of the clients q that are in S, in their order.
ClientsIn(q, S) ==
  LET kept[k \in 0..Len(q)] ==
        IF k = 0 THEN <<>> ELSE IF q[k] \in S THEN Append(kept[k - 1], q[k]) ELSE kept[k - 1]
  IN  kept[Len(q)]

\* removeClient: the clients q without id.
ClientsWithout(q, id) == ClientsIn(q, Range(q) \ {id})

\* Fault: only the map of ids forgets it.
RemoveSubscriptionClient_Half(id) ==
  /\ WebSocket /\ ~ended
  /\ ids' = ids \ {id}
  /\ UNCHANGED <<sub, torn, linkVars, owner, got, sent, doubled, deaf, faults, strayed>>

\* websocket_removeSubscriptionClient.  The last client leaves the subscriber
\* where it is.
RemoveSubscriptionClient(id) ==
  /\ WebSocket /\ ~ended
  /\ IF id \in ids
     THEN /\ sub' = [sub EXCEPT !.clients = ClientsWithout(@, id)]
          /\ ids' = ids \ {id}
          /\ Tears
     ELSE UNCHANGED <<sub, ids, torn>>
  /\ UNCHANGED <<linkVars, owner, got, sent, doubled, deaf, faults, strayed>>

--------------------------------------------------------------------------
(* The subscriber's chain of handlers.                                     *)

Subscribed(o) == WebSocket /\ o = 1

SubscriberOnResolve(o) == Subscribed(o) /\ Resolves(o) /\ UNCHANGED <<subVars, strayed>>
SubscriberOnConnect(o) == Subscribed(o) /\ Connects(o) /\ UNCHANGED <<subVars, strayed>>
SubscriberOnSSLHandshake(o) == Subscribed(o) /\ Secures(o) /\ UNCHANGED <<subVars, strayed>>

\* The initial data are written, and kept for the next connection.
SubscriberOnWebSocketHandshake(o) ==
  /\ Subscribed(o)
  /\ \/ /\ Due(o, "shaking") /\ Answered(o)
        /\ sess' = IF sub.initial THEN [sess EXCEPT ![chain[o].s].up = Append(@, 0)] ELSE sess
        /\ Turns(o, "reading")
        /\ UNCHANGED <<secure, site, ended, faults>>
     \/ FailsToRead(o, "shaking")
  /\ UNCHANGED <<subVars, strayed>>

\* Fault: after an error the old subscriber keeps its clients.
Moved_Empty == [sub EXCEPT !.clients = <<>>]

\* moveToNewOne: the new subscriber has all of the old one's.
Moved == sub

\* removeSubscriber: the map has the new one.  The old one is freed by its own
\* handler, with the io_context that the handler runs in.
SubscriberMoves(o) ==
  /\ Subscribed(o) /\ Due(o, "failed")
  /\ sub' = Moved
  /\ \/ /\ chain' = <<Resolving>>
        /\ UNCHANGED <<deaf, faults>>
     \/ /\ secure /\ Fault
        /\ chain' = <<[Resolving EXCEPT !.at = "idle"]>>
        /\ deaf' = TRUE
  /\ strayed' = TRUE
  /\ \/ UNCHANGED <<ended, sess>>
     \/ ClientEnds
  /\ UNCHANGED <<secure, site, owner, ids, got, sent, torn, doubled>>

\* The clients in the order in which onRead goes through them.
Having(f) == ClientsIn(sub.clients, {id \in Range(sub.clients) : filter[owner[id]] = f})
InOrder == IF manner.ignoreTopic THEN sub.clients
           ELSE Having("none") \o Having("string") \o Having("regex")

\* Each callback is given the message with std::move: what one has taken the
\* next does not find.  takes: the ids whose callback takes the content;
\* passes: those whose callback takes nothing.
Hears(x, id, takes, passes) ==
  LET called == x.topic \/ manner.ignoreTopic \/ filter[owner[id]] = "none"
      taken  == called /\ id \notin passes
  IN  [topic |-> x.topic /\ ~taken,
       whole |-> x.whole /\ ~(manner.ignoreTopic \/ (taken /\ id \in takes)),
       calls |-> IF called THEN x.calls \cup {<<id, x.whole>>} ELSE x.calls]

\* The calls about one message.
Untaken == [topic |-> TRUE, whole |-> TRUE, calls |-> {}]
CallsFor(takes, passes) ==
  LET after[k \in 0..Len(InOrder)] ==
        IF k = 0 THEN Untaken ELSE Hears(after[k - 1], InOrder[k], takes, passes)
  IN  after[Len(InOrder)].calls

\* A message is taken ...
SubscriberOnRead(o) ==
  /\ Subscribed(o)
  /\ \/ /\ Due(o, "reading") /\ sub.hand = 0 /\ sess[chain[o].s].down # <<>>
        /\ sub' = [sub EXCEPT !.hand = Head(sess[chain[o].s].down)]
        /\ sess' = [sess EXCEPT ![chain[o].s].down = Tail(@)]
        /\ UNCHANGED <<secure, chain, site, ended, faults>>
     \/ sub.hand = 0 /\ FailsToRead(o, "reading") /\ UNCHANGED sub
  /\ UNCHANGED <<owner, ids, got, sent, torn, doubled, deaf, strayed>>

\* Fault: the handler does not go on to the next message.
CallClients_Twice(o, takes, passes) ==
  /\ Subscribed(o) /\ Due(o, "reading") /\ sub.hand # 0
  /\ LET calls == CallsFor(takes, passes)
     IN  got' = [i \in Id |-> IF \E w \in BOOLEAN : <<i, w>> \in calls
                              THEN Append(got[i], [m |-> sub.hand, whole |-> <<i, TRUE>> \in calls])
                              ELSE got[i]]
  /\ \/ sub' = [sub EXCEPT !.hand = 0]
     \/ Len(sess[chain[o].s].down) < MaxSent /\ UNCHANGED sub
  /\ UNCHANGED <<linkVars, owner, ids, sent, torn, doubled, deaf, faults, strayed>>

\* ... and the clients are called, under clientsMutex_ unless ignoreTopic.
CallClients(o, takes, passes) ==
  /\ Subscribed(o) /\ Due(o, "reading") /\ sub.hand # 0
  /\ LET calls == CallsFor(takes, passes)
     IN  got' = [i \in Id |-> IF \E w \in BOOLEAN : <<i, w>> \in calls
                              THEN Append(got[i], [m |-> sub.hand, whole |-> <<i, TRUE>> \in calls])
                              ELSE got[i]]
  /\ sub' = [sub EXCEPT !.hand = 0]
  /\ UNCHANGED <<linkVars, owner, ids, sent, torn, doubled, deaf, faults, strayed>>

--------------------------------------------------------------------------
(* The publisher.                                                          *)

SubscriptionBreaks(k) == WebSocket /\ ~ended /\ Breaks(k) /\ UNCHANGED <<subVars, strayed>>

GetPublisher == WebSocket /\ Opens /\ UNCHANGED <<subVars, strayed>>

\* A connection without TLS that breaks before its request is the end of the
\* publisher's process: nothing catches what the read throws.
PublisherOnAccept(k) ==
  /\ WebSocket
  /\ \/ Accepts(k)
     \/ ~secure /\ ReadThrows(k) /\ SiteEnds /\ UNCHANGED faults
  /\ UNCHANGED <<subVars, strayed>>

PublisherOnRun(k) == WebSocket /\ Dispatches(k) /\ UNCHANGED <<subVars, faults, strayed>>

\* Under clientHandlersMutex_; the handler takes its connection with it.
RemoveClientHandler(k) ==
  /\ Runs
  /\ sess' = [sess EXCEPT ![k] = Removed(Broken(@))]
  /\ UNCHANGED <<secure, chain, site, ended>>

PublisherOnSslHandshake(k) ==
  /\ WebSocket
  /\ \/ Upgrades(k)
     \/ secure /\ ReadThrows(k) /\ (RemoveClientHandler(k) \/ SiteEnds) /\ UNCHANGED faults
  /\ UNCHANGED <<subVars, strayed>>

\* The handler is good, and is registered for its path.
PublisherOnWsHandshake(k) ==
  /\ WebSocket /\ Runs /\ sess[k].peer = "shaking"
  /\ \/ /\ ~sess[k].cut
        /\ sess' = [sess EXCEPT ![k].peer = "good", ![k].path = TRUE,
                                ![k].allowed = ~manner.guarded]
        /\ UNCHANGED <<secure, chain, site, ended>>
     \/ sess[k].cut /\ RemoveClientHandler(k)
  /\ UNCHANGED <<subVars, faults, strayed>>

\* The publisher's protocol lets a subscriber write whose initial data it
\* likes, and throws where it does not.
PublisherOnRead(k) ==
  /\ WebSocket /\ Runs /\ sess[k].peer = "good"
  /\ \/ /\ sess[k].up # <<>>
        /\ \/ /\ sess' = [sess EXCEPT ![k].up = Tail(@), ![k].allowed = TRUE]
              /\ UNCHANGED <<secure, chain, site, ended, faults>>
           \/ manner.guarded /\ Fault /\ RemoveClientHandler(k)
     \/ sess[k].cut /\ RemoveClientHandler(k) /\ UNCHANGED faults
  /\ UNCHANGED <<subVars, strayed>>

\* publish, which goes through the handlers of the path with
\* clientHandlersMutex_ held: one whose write fails wants that mutex, and those
\* after it get nothing.  A port that does not run publishes nothing.
Publish ==
  /\ WebSocket /\ site.made /\ ~site.stuck /\ sent < MaxSent
  /\ sent' = sent + 1
  /\ LET path == {k \in 1..Len(sess) : site.ran /\ sess[k].path /\ sess[k].allowed}
         live == {k \in path : ~sess[k].cut}
         Reach(reached) == sess' = [k \in 1..Len(sess) |->
           IF k \in reached THEN [sess[k] EXCEPT !.down = Append(@, sent')] ELSE sess[k]]
     IN  \/ Reach(live) /\ UNCHANGED site
         \/ /\ path # live
            /\ \E reached \in SUBSET live : Reach(reached)
            /\ site' = [site EXCEPT !.stuck = TRUE]
  /\ UNCHANGED <<secure, chain, ended, sub, owner, ids, got, torn, doubled, deaf, faults, strayed>>

\* The process is killed, or its acceptor fails and removePublisher frees an
\* object whose destructor joins a thread that was detached.
PublisherFails ==
  /\ WebSocket /\ site.made /\ Fault /\ SiteEnds
  /\ UNCHANGED <<subVars, strayed>>
=============================================================================
