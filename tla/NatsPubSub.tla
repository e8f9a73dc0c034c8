----------------------------- MODULE NatsPubSub -----------------------------
(***************************************************************************)
(* The status events go from one replica to the others over NATS.  Every   *)
(* replica has one connection, whose commands the server takes in order;   *)
(* a subject with handlers has one subscription of the connection, which   *)
(* the handlers share and the last of them ends.  The loop that consumes   *)
(* it waits for one handler after the other, so that handlers come and go  *)
(* in between.                                                             *)
(*                                                                         *)
(* NATS forgets a message for which nobody is subscribed.  To flush a      *)
(* connection is to wait until the server has taken what was sent.         *)
(***************************************************************************)
EXTENDS Naturals, Sequences

CONSTANTS
    Replica, Handler, Message,
    HomeOf,          \* the replica of each handler, and the one that publishes a message
    MaxSubs          \* bound on the subscriptions of a replica

HomeAssumption == HomeOf \in [Handler \union Message -> Replica]
NameAssumption == Handler \intersect Message = {} /\ 0 \notin Message
BoundAssumption == MaxSubs \in Nat \ {0}

\* A replica has one handler of the subject: the stream of the status events
\* subscribes once per process.
ApartAssumption == \A g, h \in Handler : HomeOf[g] = HomeOf[h] => g = h

VARIABLES
    wire,            \* what each connection has sent, and the server not yet taken
    known,           \* the subscriptions the server knows
    current, last,   \* each replica's subscription of the subject; how many it has made
    handlers,        \* <<subscription, handler>>: its handlers
    inbox, loop,     \* what each subscription has received; the message in the loop
                     \* and the handlers it has visited
    call, joined,    \* each handler's subscription
    sent,            \* each message's publication
    heard,           \* history: the messages a handler was called with
    audience         \* history: the handlers subscribed when a message was published

server == <<wire, known, inbox>>
subscriptions == <<current, last, handlers, loop>>
subscribers == <<call, joined, heard>>
vars == <<server, subscriptions, subscribers, sent, audience>>

Sub == Replica \X (1..MaxSubs)
None == 0
Idle == [message |-> None, visited |-> {}]

Init ==
    /\ wire = [p \in Replica |-> <<>>] /\ known = {}
    /\ current = [p \in Replica |-> None] /\ last = [p \in Replica |-> 0]
    /\ handlers = {}
    /\ inbox = [s \in Sub |-> <<>>] /\ loop = [s \in Sub |-> Idle]
    /\ call = [h \in Handler |-> "idle"] /\ joined = [h \in Handler |-> None]
    /\ sent = [m \in Message |-> "new"]
    /\ heard = [h \in Handler |-> {}] /\ audience = [m \in Message |-> {}]

SubOf(h) == <<HomeOf[h], joined[h]>>
Current(p) == <<p, current[p]>>
HandlersOf(s) == {h \in Handler : <<s, h>> \in handlers}
Command(kind, what) == [kind |-> kind, what |-> what]

-----------------------------------------------------------------------------
\* the first handler returns without waiting for the server
AfterSubscribe_Faulty(h) == "subscribed"

AfterSubscribe(h) == "flushing"

\* The first handler of the subject subscribes the connection and flushes it;
\* it is added when the flush returns.
SubscribeFirst(h) ==
    LET p == HomeOf[h]
        n == last[p] + 1
    IN /\ call[h] = "idle" /\ current[p] = None /\ n <= MaxSubs
       /\ current' = [current EXCEPT ![p] = n] /\ last' = [last EXCEPT ![p] = n]
       /\ wire' = [wire EXCEPT ![p] = @ \o <<Command("sub", n), Command("ping", h)>>]
       /\ joined' = [joined EXCEPT ![h] = n]
       /\ call' = [call EXCEPT ![h] = AfterSubscribe(h)]
       /\ handlers' = IF AfterSubscribe(h) = "subscribed"
                         THEN handlers \union {<<<<p, n>>, h>>} ELSE handlers
       /\ UNCHANGED <<known, inbox, loop, heard, sent, audience>>

\* another one is added at once
SubscribeNext(h) ==
    /\ call[h] = "idle" /\ current[HomeOf[h]] # None
    /\ handlers' = handlers \union {<<Current(HomeOf[h]), h>>}
    /\ joined' = [joined EXCEPT ![h] = current[HomeOf[h]]]
    /\ call' = [call EXCEPT ![h] = "subscribed"]
    /\ UNCHANGED <<server, current, last, loop, heard, sent, audience>>

Flushed(h) ==
    /\ call[h] = "flushed"
    /\ handlers' = handlers \union {<<SubOf(h), h>>}
    /\ call' = [call EXCEPT ![h] = "subscribed"]
    /\ UNCHANGED <<server, current, last, loop, joined, heard, sent, audience>>

\* the last handler ends the subscription
Ends(p, rest) == current[p] # None /\ ~\E h \in Handler : <<Current(p), h>> \in rest

\* unsubscribe looks for the handler in the map's subscription
Unsubscribe(h) ==
    LET p == HomeOf[h]
        rest == handlers \ {<<Current(p), h>>}
        ends == Ends(p, rest)
    IN /\ call[h] = "subscribed"
       /\ handlers' = rest
       /\ current' = IF ends THEN [current EXCEPT ![p] = None] ELSE current
       /\ wire' = IF ends THEN [wire EXCEPT ![p] = Append(@, Command("unsub", current[p]))]
                          ELSE wire
       /\ call' = [call EXCEPT ![h] = "idle"]
       /\ audience' = [m \in Message |-> audience[m] \ {h}]
       /\ UNCHANGED <<known, inbox, last, loop, joined, heard, sent>>

Publish(m) ==
    /\ sent[m] = "new"
    /\ wire' = [wire EXCEPT ![HomeOf[m]] = @ \o <<Command("pub", m), Command("ping", m)>>]
    /\ sent' = [sent EXCEPT ![m] = "flushing"]
    /\ audience' = [audience EXCEPT ![m] = {h \in Handler : call[h] = "subscribed"}]
    /\ UNCHANGED <<known, inbox, subscriptions, subscribers>>

-----------------------------------------------------------------------------
\* the server takes the next command of a connection
Take(p) ==
    LET c == Head(wire[p]) IN
    /\ wire[p] # <<>>
    /\ wire' = [wire EXCEPT ![p] = Tail(@)]
    /\ known' = CASE c.kind = "sub" -> known \union {<<p, c.what>>}
                  [] c.kind = "unsub" -> known \ {<<p, c.what>>}
                  [] OTHER -> known
    /\ inbox' = [s \in Sub |-> IF c.kind = "pub" /\ s \in known
                                  THEN Append(inbox[s], c.what) ELSE inbox[s]]
    /\ call' = IF c.kind = "ping" /\ c.what \in Handler /\ call[c.what] = "flushing"
                  THEN [call EXCEPT ![c.what] = "flushed"] ELSE call
    /\ sent' = IF c.kind = "ping" /\ c.what \in Message
                  THEN [sent EXCEPT ![c.what] = "published"] ELSE sent
    /\ UNCHANGED <<subscriptions, joined, heard, audience>>

\* the loop goes to the next message.  Messages that came in before the
\* subscription ended may still be consumed.
NextMessage(s) ==
    /\ inbox[s] # <<>> /\ loop[s].message = None
    /\ inbox' = [inbox EXCEPT ![s] = Tail(@)]
    /\ loop' = [loop EXCEPT ![s] = [message |-> Head(inbox[s]), visited |-> {}]]
    /\ UNCHANGED <<wire, known, current, last, handlers, subscribers, sent, audience>>

\* the handlers of the subscription, as they are now
ToVisit(s) == HandlersOf(s) \ loop[s].visited

Handle(s) ==
    /\ loop[s].message # None
    /\ IF ToVisit(s) = {} THEN loop' = [loop EXCEPT ![s] = Idle] /\ UNCHANGED heard
       ELSE \E h \in ToVisit(s) :
               /\ loop' = [loop EXCEPT ![s].visited = @ \union {h}]
               /\ heard' = [heard EXCEPT ![h] = @ \union {loop[s].message}]
    /\ UNCHANGED <<server, current, last, handlers, call, joined, sent, audience>>

Next ==
    \/ \E h \in Handler : SubscribeFirst(h) \/ SubscribeNext(h) \/ Flushed(h) \/ Unsubscribe(h)
    \/ \E m \in Message : Publish(m)
    \/ \E p \in Replica : Take(p)
    \/ \E s \in Sub : NextMessage(s) \/ Handle(s)

Spec == Init /\ [][Next]_vars

-----------------------------------------------------------------------------
\* The types, and that the map holds a replica's latest subscription, which has
\* a handler or will get one when the flush returns.
TypeOK ==
    /\ known \subseteq Sub /\ handlers \subseteq Sub \X Handler
    /\ \A p \in Replica : last[p] \in 0..MaxSubs /\ current[p] \in {None, last[p]}
    /\ \A p \in Replica : current[p] # None
          => \E h \in Handler : \/ <<Current(p), h>> \in handlers
                                \/ call[h] \in {"flushing", "flushed"} /\ SubOf(h) = Current(p)
    /\ \A s \in Sub : loop[s].message \in Message \union {None}
    /\ \A h \in Handler : call[h] \in {"idle", "flushing", "flushed", "subscribed"}
    /\ sent \in [Message -> {"new", "flushing", "published"}]

\* A message on its way to a handler.
OnItsWay(m, h) ==
    \E s \in Sub : /\ h \in HandlersOf(s)
                   /\ \/ \E i \in DOMAIN inbox[s] : inbox[s][i] = m
                      \/ loop[s].message = m /\ h \notin loop[s].visited

\* subscribe's comment: what is published right after it is not missed.  Who
\* has subscribed before a message is published, and stays, hears it.
PublishedIsHeard ==
    \A m \in Message : sent[m] = "published"
        => \A h \in audience[m] : m \in heard[h] \/ OnItsWay(m, h)

=============================================================================
