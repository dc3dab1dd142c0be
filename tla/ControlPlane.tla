---------------------------- MODULE ControlPlane ----------------------------
(***************************************************************************)
(* The control plane: a Server, its ConnectionManager and one subscription *)
(* service with its Roles, and Clients, each with one Instance and the     *)
(* publisher and subscriber services on it.                                *)
(*                                                                         *)
(* A client and the server exchange events over one gRPC stream, in order  *)
(* in each direction.  The server handles events one at a time and holds   *)
(* m_mutex while it does; its updater takes the same mutex.  On a client   *)
(* the event handler, the connections manager, the instance's update       *)
(* handler and the callers of unary requests are fibers of their own.  A   *)
(* client may crash at any point; what it wrote last may then be lost.     *)
(*                                                                         *)
(* At the start the streams are accepted and the subscription service has  *)
(* been created.  A tag is named after the endpoint it was issued to, an   *)
(* instance after its client.  A client has at most one publisher.         *)
(*                                                                         *)
(* Publishers have the role "publisher" and subscribe to "subscriber",     *)
(* subscribers have the role "subscriber" and subscribe to no role.  So    *)
(* the members of the first role are the subscribers of the second, its    *)
(* updates reach nobody and its latches hold nobody: m_role is the Role    *)
(* "subscriber", and what is left of the other is a drop request for every *)
(* publisher that is dropped.                                              *)
(***************************************************************************)
EXTENDS Naturals, Sequences

CONSTANTS
  Client,
  Present,     \* the clients that are operational from the start, with their publishers
  Publisher,   \* client-side subscription services with the role "publisher"
  Subscriber,  \* and with the role "subscriber"
  Home,        \* Home[e]: the client on which the service e lives
  Faulty,      \* the clients that may crash
  Stopping,    \* the services whose users stop them
  MaxStops,    \* how often they may do so
  Leaving,     \* the clients that end their instance and disconnect
  Order        \* Order[T]: the tags T as the tables of the server list them

Endpoint == Publisher \cup Subscriber

ASSUME ControlPlaneAssumption ==
  /\ Present \subseteq Client /\ Faulty \subseteq Client /\ MaxStops \in Nat
  /\ Publisher \cap Subscriber = {}
  /\ Home \in [Endpoint -> Client]
  /\ \A p, q \in Publisher : Home[p] = Home[q] => p = q

\* Each tag is listed once.
ASSUME OrderAssumption ==
  /\ Order \in [SUBSET Endpoint -> Seq(Endpoint)]
  /\ \A T \in SUBSET Endpoint :
       /\ {Order[T][i] : i \in DOMAIN Order[T]} = T
       /\ \A i, j \in DOMAIN Order[T] : Order[T][i] = Order[T][j] => i = j

VARIABLES
  \* the server
  m_streams, m_instances,
  m_instances_by_stream,  \* the instances whose stream is activated
  modified,               \* the connections changed after the last update issued
  m_instance_tags,        \* the tags issued and not dropped
  m_role,                 \* the Role "subscriber"
  reply,                  \* a response the handler writes after it released m_mutex
  fatal,                  \* the server has logged a FATAL error and is gone
  \* the streams
  up, down,
  m_can_write,            \* the streams the server's writer has not failed to write to
  \* the clients
  client,                 \* how far its registration, or its departure, has come
  m_update_channels,      \* the clients whose instance has an update channel
  m_worker_addresses,     \* the instances whose address each client knows
  m_endpoints,            \* the instances each client has made a UCX endpoint to
  connections,            \* the updates in m_connections_update_channel
  lookup,                 \* the connections manager: what it looks up or was answered
  updates,                \* the updates in the instance's channel
  failed,                 \* the clients whose update handler has thrown
  \* the client-side subscription services
  service,                \* how far the service has come
  m_tagged_endpoints,     \* the members each publisher knows
  applied,                \* history: the nonce of the update it applied last
  stops                   \* history: how often its user asked it to stop

server == <<m_streams, m_instances, m_instances_by_stream, modified, m_instance_tags,
            m_role, reply, fatal, m_can_write>>
manager == <<m_update_channels, m_worker_addresses, m_endpoints, connections, lookup>>
handler == <<updates, failed>>
services == <<service, m_tagged_endpoints, applied, stops>>
vars == <<server, up, down, client, manager, handler, services>>

\* A Role; members under each nonce so far, with m_current_nonce their number.
\* start and released are history: the nonce when a tag subscribed, and the former
\* members a drop request was sent to.
InitialRole ==
  [versions |-> << {} >>, m_issued_nonce |-> 1, m_members |-> {},
   m_subscribers |-> {p \in Publisher : Home[p] \in Present},
   m_subscriber_nonces |-> [e \in Endpoint |-> 0],
   start |-> [e \in Endpoint |-> IF e \in Publisher /\ Home[e] \in Present THEN 1 ELSE 0],
   m_latched_members |-> [e \in Endpoint |-> 0], released |-> {}]

current_nonce(r) == Len(r.versions)

Idle == [at |-> "idle", ids |-> {}]

Init ==
  /\ m_streams = Client /\ m_instances = Present /\ m_instances_by_stream = Present
  /\ modified = FALSE /\ m_role = InitialRole /\ m_instance_tags = m_role.m_subscribers
  /\ reply = << >> /\ fatal = FALSE
  /\ up = [c \in Client |-> << >>] /\ down = [c \in Client |-> << >>] /\ m_can_write = Client
  /\ client = [c \in Client |-> IF c \in Present THEN "operational" ELSE "connected"]
  /\ m_update_channels = Present
  /\ m_worker_addresses = [c \in Client |-> IF c \in Present THEN Present ELSE {}]
  /\ m_endpoints = [c \in Client |-> {}]
  /\ connections = [c \in Client |-> << >>]
  /\ lookup = [c \in Client |-> Idle]
  /\ updates = [c \in Client |-> << >>] /\ failed = {}
  /\ service = [e \in Endpoint |-> IF e \in m_role.m_subscribers THEN "running" ELSE "new"]
  /\ m_tagged_endpoints = [e \in Endpoint |-> {}]
  /\ applied = [e \in Endpoint |-> 0] /\ stops = [e \in Endpoint |-> 0]

\* The process of the client is there.
Alive(c) == client[c] # "dead"

\* m_subscription_services of the instance: a service is listed before it is
\* activated, and stays listed when its activation is refused.
m_subscription_services(c) ==
  {e \in Endpoint : Home[e] = c /\ service[e] \in {"activating", "running", "dropping", "refused"}}

\* write_event.
write_event(q, c, op, what) == [q EXCEPT ![c] = Append(@, [op |-> op, what |-> what])]

\* Events the server wrote for a client that is gone.
Lost(events) == IF events = << >> THEN << >> ELSE << [op |-> "lost"] >>

\* await_write on the server's side of the stream: nothing is written when the stream
\* was finished, or a write has failed.
Write(c, events) ==
  IF c \notin m_streams \cap m_can_write THEN down[c]
  ELSE IF Alive(c) THEN down[c] \o events ELSE Lost(down[c] \o events)

Response(op, what) == << [op |-> "response", to |-> op, what |-> what] >>

\* unary_response.  It throws when it cannot write, and that ends the server.
Respond(c, op, what) ==
  /\ down' = [down EXCEPT ![c] = Write(c, Response(op, what))]
  /\ fatal' = (c \notin m_can_write)


-----------------------------------------------------------------------------
(* Roles on the server *)

\* mark_as_modified after the members became M.
mark_as_modified(r, M) == [r EXCEPT !.m_members = M, !.versions = Append(@, M)]

add_member(r, tag) == mark_as_modified(r, r.m_members \cup {tag})

add_subscriber(r, tag) ==
  [r EXCEPT !.m_subscribers = @ \cup {tag}, !.m_subscriber_nonces[tag] = 0,
            !.start[tag] = current_nonce(r)]

\* Mutant of Releasable: a subscriber one version behind does not count.
ReleasableEarly(r) ==
  {t \in Endpoint : /\ r.m_latched_members[t] > 0
                    /\ \A p \in r.m_subscribers :
                         r.m_latched_members[t] <= r.m_subscriber_nonces[p] + 1}

\* The latched members that all subscribers have reported to know without.
Releasable(r) ==
  {t \in Endpoint : /\ r.m_latched_members[t] > 0
                    /\ \A p \in r.m_subscribers :
                         r.m_latched_members[t] <= r.m_subscriber_nonces[p]}

\* The part of evaluate_latches that changes the role; DropRequests has the rest.
evaluate_latches(r) ==
  LET R == Releasable(r)
  IN [r EXCEPT !.m_latched_members = [t \in Endpoint |-> IF t \in R THEN 0 ELSE @[t]],
               !.released = @ \cup R]

\* drop_tag of the tags T one after the other, up to the evaluation of the latches:
\* each member that leaves is latched under a nonce of its own.
drop_tag(r, T) ==
  LET left == Order[T \cap r.m_members]
      turn(t) == CHOOSE i \in DOMAIN left : left[i] = t
  IN [r EXCEPT
        !.m_subscribers = @ \ T,
        !.m_subscriber_nonces = [t \in Endpoint |-> IF t \in T THEN 0 ELSE @[t]],
        !.m_members = @ \ T,
        !.versions = @ \o [i \in DOMAIN left |-> r.m_members \ {left[j] : j \in 1 .. i}],
        !.m_latched_members = [t \in Endpoint |-> IF t \in T \cap r.m_members
                                                    THEN current_nonce(r) + turn(t)
                                                    ELSE @[t]]]

\* do_drop_tag for each of the tags T.
drop_tags(T) == drop_tag(m_role, T)

update_subscriber_nonce(r, tag, nonce) ==
  IF tag \in r.m_subscribers THEN [r EXCEPT !.m_subscriber_nonces[tag] = nonce] ELSE r

\* The requests that evaluate_latches of both roles writes to the instances of the
\* members it releases, when the role becomes r and the tags T were dropped.
DropRequests(c, r, T) ==
  LET tags == Order[{t \in Releasable(r) \cup (T \cap m_role.m_subscribers) : Home[t] = c}]
  IN [i \in DOMAIN tags |-> [op |-> "drop", what |-> tags[i]]]

-----------------------------------------------------------------------------
(* The server's event handler: one operator per event of the client c *)

Receives(c, op) == Head(up[c]).op = op
What(c) == Head(up[c]).what
Consume(c) == up' = [up EXCEPT ![c] = Tail(@)]
clients == <<m_can_write, client, manager, handler, services>>

\* ConnectionManager::register_instances, with the response.
unary_register_workers(c) ==
  /\ Receives(c, "register_workers") /\ Consume(c)
  /\ m_instances' = m_instances \cup {c}
  /\ modified' = TRUE
  /\ Respond(c, "register_workers", TRUE)
  /\ UNCHANGED <<m_streams, m_instances_by_stream, m_instance_tags, m_role, reply, clients>>

\* ConnectionManager::activate_stream.
unary_activate_stream(c) ==
  /\ Receives(c, "activate_stream") /\ Consume(c)
  /\ m_instances_by_stream' = m_instances_by_stream \cup {c}
  /\ Respond(c, "activate_stream", TRUE)
  /\ UNCHANGED <<m_streams, m_instances, modified, m_instance_tags, m_role, reply, clients>>

\* ConnectionManager::lookup_workers: instances that are gone are left out.
unary_lookup_workers(c) ==
  /\ Receives(c, "lookup_workers") /\ Consume(c)
  /\ Respond(c, "lookup_workers", What(c) \cap m_instances)
  /\ UNCHANGED <<m_streams, m_instances, m_instances_by_stream, modified, m_instance_tags, m_role,
                 reply, clients>>

\* Mutant of TagsOf: a tag is noted for its instance when it is activated.
TagsOfActive(c) == {t \in m_role.m_members \cup m_role.m_subscribers : Home[t] = c}

\* TaggedIssuer::drop_instance of the subscription service.
TagsOf(c) == {t \in m_instance_tags : Home[t] = c}

\* The service drops the tags of the instance, then the connection manager the
\* instance itself.
unary_drop_worker(c) ==
  /\ Receives(c, "drop_worker") /\ Consume(c)
  /\ m_role' = evaluate_latches(drop_tags(TagsOf(c)))
  /\ m_instance_tags' = m_instance_tags \ TagsOf(c)
  /\ m_instances' = m_instances \ {c}
  /\ m_instances_by_stream' = m_instances_by_stream \ {c}
  /\ modified' = TRUE
  /\ down' = [x \in Client |->
                Write(x, DropRequests(x, drop_tags(TagsOf(c)), TagsOf(c))
                           \o IF x = c THEN Response("drop_worker", TRUE) ELSE << >>)]
  /\ fatal' = (c \notin m_can_write)
  /\ UNCHANGED <<m_streams, reply, clients>>

\* unary_register_subscription_service: an unknown instance is refused.
unary_register_subscription_service(c) ==
  /\ Receives(c, "register") /\ Consume(c)
  /\ m_instance_tags' = IF c \in m_instances THEN m_instance_tags \cup {What(c)}
                                             ELSE m_instance_tags
  /\ reply' = << c, "register", [tag |-> What(c), ok |-> c \in m_instances] >>
  /\ UNCHANGED <<m_streams, m_instances, m_instances_by_stream, modified, m_role, fatal,
                 down, clients>>

\* SubscriptionService::activate_instance.
activate_instance(tag) ==
  IF tag \in Publisher THEN add_subscriber(m_role, tag) ELSE add_member(m_role, tag)

\* unary_activate_subscription_service: a tag that was ever issued will do.
unary_activate_subscription_service(c) ==
  LET ok == c \in m_instances
  IN /\ Receives(c, "activate") /\ Consume(c)
     /\ m_role' = IF ok THEN activate_instance(What(c)) ELSE m_role
     /\ reply' = << c, "activate", [tag |-> What(c), ok |-> ok] >>
     /\ UNCHANGED <<m_streams, m_instances, m_instances_by_stream, modified, m_instance_tags,
                    fatal, down, clients>>

\* unary_response after the two handlers above.
unary_response ==
  /\ reply # << >>
  /\ Respond(reply[1], reply[2], reply[3])
  /\ reply' = << >>
  /\ UNCHANGED <<m_streams, m_instances, m_instances_by_stream, modified, m_instance_tags,
                 m_role, up, clients>>

\* unary_drop_subscription_service: an unknown instance is refused, an unknown tag
\* an exception that ends the server.  The acknowledgement only wakes the caller.
unary_drop_subscription_service(c) ==
  /\ Receives(c, "drop") /\ Consume(c)
  /\ IF c \in m_instances /\ What(c) \in m_instance_tags
       THEN /\ m_role' = evaluate_latches(drop_tags({What(c)}))
            /\ down' = [x \in Client |->
                          Write(x, DropRequests(x, drop_tags({What(c)}), {What(c)}))]
       ELSE UNCHANGED <<m_role, down>>
  /\ m_instance_tags' = m_instance_tags \ {What(c)}
  /\ fatal' = \/ c \in m_instances /\ What(c) \notin m_instance_tags
              \/ c \notin m_can_write
  /\ UNCHANGED <<m_streams, m_instances, m_instances_by_stream, modified, reply, clients>>

\* Mutant of event_update_subscription_service: the latches wait for the next drop.
event_update_no_latches(c) ==
  /\ Receives(c, "update") /\ Consume(c)
  /\ m_role' = update_subscriber_nonce(m_role, What(c).tag, What(c).nonce)
  /\ UNCHANGED <<m_streams, m_instances, m_instances_by_stream, modified, m_instance_tags,
                 reply, fatal, down, clients>>

event_update_subscription_service(c) ==
  LET r == update_subscriber_nonce(m_role, What(c).tag, What(c).nonce)
  IN /\ Receives(c, "update") /\ Consume(c)
     /\ m_role' = evaluate_latches(r)
     /\ down' = [x \in Client |-> Write(x, DropRequests(x, r, {}))]
     /\ UNCHANGED <<m_streams, m_instances, m_instances_by_stream, modified, m_instance_tags,
                    reply, fatal, clients>>

\* Nothing but the stream itself may hold its writer, which a failed write has reset:
\* the event that is not ok may then have come without one.
NoWriter(c) ==
  /\ c \notin m_can_write \cup m_instances
  /\ \A t \in Endpoint : m_role.m_latched_members[t] > 0 => Home[t] # c

\* The stream has ended: Server::drop_stream and ConnectionManager::drop_stream.
\* Only instances of an activated stream are found.
drop_stream(c) ==
  LET T == IF c \in m_instances_by_stream THEN TagsOf(c) ELSE {}
  IN /\ Receives(c, "end") /\ Consume(c)
     /\ fatal' \in {c \notin m_streams, c \notin m_streams \/ NoWriter(c)}
     /\ m_role' = evaluate_latches(drop_tags(T))
     /\ m_instance_tags' = m_instance_tags \ T
     /\ m_instances' = m_instances \ ({c} \cap m_instances_by_stream)
     /\ m_instances_by_stream' = m_instances_by_stream \ {c}
     /\ m_streams' = m_streams \ {c}
     /\ modified' = TRUE
     /\ down' = [x \in Client |-> Write(x, DropRequests(x, drop_tags(T), T))]
     /\ UNCHANGED <<reply, clients>>

\* The writer fails to write to a client that is gone, and closes its channel.
do_write(c) ==
  /\ ~Alive(c) /\ c \in m_streams /\ down[c] # << >>
  /\ m_can_write' = m_can_write \ {c}
  /\ down' = [down EXCEPT ![c] = << >>]
  /\ UNCHANGED <<m_streams, m_instances, m_instances_by_stream, modified, m_instance_tags, m_role,
                 reply, fatal, up, client, manager, handler, services>>

\* issue_update of the role: one update for each instance with a subscriber.
RoleUpdate(c) ==
  IF /\ m_role.m_issued_nonce < current_nonce(m_role)
     /\ \E p \in m_role.m_subscribers : Home[p] = c
    THEN << [op |-> "update", nonce |-> current_nonce(m_role), what |-> m_role.m_members] >>
    ELSE << >>

\* Mutant of ConnectionsUpdate: it lists all streams, not the instances on them.
ConnectionsUpdateStreams ==
  IF modified THEN << [op |-> "connections", what |-> m_streams] >> ELSE << >>

ConnectionsUpdate ==
  IF modified THEN << [op |-> "connections", what |-> m_instances_by_stream] >> ELSE << >>

\* A turn of the updater, by its period or at a client's request: first the
\* connections, then the role.
do_issue_update ==
  /\ modified \/ m_role.m_issued_nonce < current_nonce(m_role)
  /\ modified' = FALSE
  /\ m_role' = [m_role EXCEPT !.m_issued_nonce = current_nonce(m_role)]
  /\ down' = [c \in Client |-> Write(c, ConnectionsUpdate \o RoleUpdate(c))]
  /\ UNCHANGED <<m_streams, m_instances, m_instances_by_stream, m_instance_tags, reply, fatal,
                 up, clients>>

-----------------------------------------------------------------------------
(* A client: its registration, its event handler and its connections manager *)

\* ConnectionsManager::register_ucx_addresses sends its first request.
register_ucx_addresses(c) ==
  /\ client[c] = "connected"
  /\ client' = [client EXCEPT ![c] = "registering"]
  /\ up' = write_event(up, c, "register_workers", {})
  /\ UNCHANGED <<server, down, manager, handler, services>>

\* It goes on with the response: the instance and its update channel are made, and
\* the stream is activated.
CreateInstances(c) ==
  /\ client[c] = "registered"
  /\ client' = [client EXCEPT ![c] = "activating"]
  /\ m_worker_addresses' = [m_worker_addresses EXCEPT ![c] = @ \cup {c}]
  /\ m_update_channels' = m_update_channels \cup {c}
  /\ up' = write_event(up, c, "activate_stream", {})
  /\ UNCHANGED <<server, down, m_endpoints, connections, lookup, handler, services>>

\* What the server's do_read still gets from a client that dies: it may miss the last
\* events, and then passes on one event that is not ok, if it has not done so before.
LastReads(c) ==
  IF client[c] = "left"
    THEN {up[c]}
    ELSE {Append(SubSeq(up[c], 1, n), [op |-> "end", what |-> {}]) : n \in 0 .. Len(up[c])}

\* The process ends with all its state.
Die(c) ==
  /\ client' = [client EXCEPT ![c] = "dead"]
  /\ \E q \in LastReads(c) : up' = [up EXCEPT ![c] = q]
  /\ down' = [down EXCEPT ![c] = Lost(@)]
  /\ connections' = [connections EXCEPT ![c] = << >>]
  /\ updates' = [updates EXCEPT ![c] = << >>]
  /\ lookup' = [lookup EXCEPT ![c] = Idle]
  /\ m_worker_addresses' = [m_worker_addresses EXCEPT ![c] = {}]
  /\ m_endpoints' = [m_endpoints EXCEPT ![c] = {}]
  /\ m_update_channels' = m_update_channels \ {c}
  /\ failed' = failed \ {c}
  /\ service' = [e \in Endpoint |-> IF Home[e] = c THEN "down" ELSE service[e]]
  /\ UNCHANGED <<server, m_tagged_endpoints, applied, stops>>

Crash(c) == c \in Faulty /\ client[c] \notin {"left", "dead"} /\ Die(c)

\* The event handler takes the next event off the stream.
Takes(c, op) == Head(down[c]).op = op

\* do_handle_event, a response: the promise of its request is fulfilled.
HandleResponse(c) ==
  LET m == Head(down[c])
      tag == m.what.tag
      ok == m.what.ok
      next == [register_workers |-> "registered", activate_stream |-> "operational",
               drop_worker |-> "dropped"]
  IN /\ Takes(c, "response")
     /\ down' = [down EXCEPT ![c] = Tail(@)]
     /\ client' = IF m.to \in DOMAIN next THEN [client EXCEPT ![c] = next[m.to]] ELSE client
     /\ lookup' = IF m.to = "lookup_workers"
                     THEN [lookup EXCEPT ![c] = [at |-> "answered", ids |-> m.what]]
                     ELSE lookup
     /\ service' =
          CASE m.to = "register" -> [service EXCEPT ![tag] = IF ok THEN "registered" ELSE "failed"]
            [] m.to = "activate" /\ service[tag] = "activating" ->
                 [service EXCEPT ![tag] = IF ok THEN "running" ELSE "refused"]
            [] OTHER -> service
     /\ UNCHANGED <<server, up, m_update_channels, m_worker_addresses, m_endpoints, connections,
                    handler, m_tagged_endpoints, applied, stops>>

\* do_handle_event, an update of the connections.
ForwardConnections(c) ==
  /\ Takes(c, "connections")
  /\ down' = [down EXCEPT ![c] = Tail(@)]
  /\ connections' = [connections EXCEPT ![c] = Append(@, Head(down[c]).what)]
  /\ UNCHANGED <<server, up, client, m_update_channels, m_worker_addresses, m_endpoints, lookup,
                 handler, services>>

\* An update for the instance.  It must have a channel: CHECK ends the process.
route_state_update(c) ==
  /\ Takes(c, "update") \/ Takes(c, "drop")
  /\ IF c \in m_update_channels
       THEN /\ down' = [down EXCEPT ![c] = Tail(@)]
            /\ updates' = [updates EXCEPT ![c] = Append(@, Head(down[c]))]
            /\ UNCHANGED <<server, client, up, manager, failed, services>>
       ELSE Die(c)

\* do_connections_update up to the request for the addresses it misses.
do_connections_update(c) ==
  LET new == Head(connections[c])
      missing == new \ m_worker_addresses[c]
  IN /\ Alive(c) /\ connections[c] # << >> /\ lookup[c].at = "idle"
     /\ connections' = [connections EXCEPT ![c] = Tail(@)]
     /\ m_worker_addresses' = [m_worker_addresses EXCEPT ![c] = @ \cap new]
     /\ m_update_channels' = m_update_channels \ ({c} \cap (m_worker_addresses[c] \ new))
     /\ IF missing = {}
          THEN UNCHANGED <<lookup, up>>
          ELSE /\ lookup' = [lookup EXCEPT ![c] = [at |-> "waiting", ids |-> missing]]
               /\ up' = write_event(up, c, "lookup_workers", missing)
     /\ UNCHANGED <<server, down, client, m_endpoints, handler, services>>

\* It goes on with the addresses.
RegisterAddresses(c) ==
  /\ Alive(c) /\ lookup[c].at = "answered"
  /\ m_worker_addresses' = [m_worker_addresses EXCEPT ![c] = @ \cup lookup[c].ids]
  /\ lookup' = [lookup EXCEPT ![c] = Idle]
  /\ UNCHANGED <<server, up, down, client, m_update_channels, m_endpoints, connections, handler,
                 services>>

-----------------------------------------------------------------------------
(* The instance's update handler *)

Handles(c, op) ==
  /\ Head(updates[c]).op = op
  /\ updates' = [updates EXCEPT ![c] = Tail(@)]

\* The services of the client whose subscribe_to_roles contain the role.
Followers(c) == m_subscription_services(c) \cap Publisher

\* The instances to which Client::endpoint_shared finds or makes an endpoint.
Reachable(c) == m_endpoints[c] \cup m_worker_addresses[c]

\* do_update_subscription_state when all endpoints are found: the publisher takes
\* the members over (update_tagged_instances), and its nonce is reported.
do_update_subscription_state(c) ==
  LET u == Head(updates[c])
  IN /\ Handles(c, "update")
     /\ IF Followers(c) = {}
          THEN UNCHANGED <<up, m_endpoints, services>>
          ELSE \E p \in Followers(c) :
                 LET added == u.what \ m_tagged_endpoints[p]
                     homes == {Home[t] : t \in added}
                 IN /\ homes \subseteq Reachable(c)
                    /\ m_endpoints' = [m_endpoints EXCEPT ![c] = @ \cup homes]
                    /\ m_tagged_endpoints' = [m_tagged_endpoints EXCEPT ![p] = u.what]
                    /\ applied' = [applied EXCEPT ![p] = u.nonce]
                    /\ up' = write_event(up, c, "update", [tag |-> p, nonce |-> u.nonce])
                    /\ UNCHANGED <<service, stops>>
     /\ UNCHANGED <<server, down, client, m_update_channels, m_worker_addresses, connections,
                    lookup, failed>>

\* An endpoint is not found: endpoint_shared throws, after the endpoints of removed
\* tags were erased and some of the new ones made, and the update handler ends.
FailUpdate(c) ==
  LET u == Head(updates[c])
  IN /\ Handles(c, "update")
     /\ \E p \in Followers(c) :
          LET added == u.what \ m_tagged_endpoints[p]
              found == {t \in added : Home[t] \in Reachable(c)}
          IN /\ found # added
             /\ \E S \in SUBSET found :
                  /\ m_tagged_endpoints' = [m_tagged_endpoints EXCEPT ![p] = (@ \cap u.what) \cup S]
                  /\ m_endpoints' = [m_endpoints EXCEPT ![c] = @ \cup {Home[t] : t \in S}]
     /\ failed' = failed \cup {c}
     /\ UNCHANGED <<server, up, down, client, m_update_channels, m_worker_addresses, connections,
                    lookup, service, applied, stops>>

\* The services do_handle_state_update tears down for a drop request: service.role()
\* and service.tag() are compared with themselves.
TornDown(c, tag) == m_subscription_services(c)

\* Mutant of do_drop_subscription_service: a service that is torn down asks to be
\* dropped, as one that is stopped does.
do_drop_and_request(c) ==
  LET T == TornDown(c, Head(updates[c]).what)
      tags == Order[T]
  IN /\ Handles(c, "drop")
     /\ service' = [e \in Endpoint |-> IF e \in T THEN "down" ELSE service[e]]
     /\ up' = [up EXCEPT ![c] = @ \o [i \in DOMAIN tags |-> [op |-> "drop", what |-> tags[i]]]]
     /\ UNCHANGED <<server, down, client, manager, failed, m_tagged_endpoints, applied, stops>>

do_drop_subscription_service(c) ==
  /\ Handles(c, "drop")
  /\ service' = [e \in Endpoint |-> IF e \in TornDown(c, Head(updates[c]).what)
                                      THEN "down" ELSE service[e]]
  /\ UNCHANGED <<server, up, down, client, manager, failed, m_tagged_endpoints, applied, stops>>

-----------------------------------------------------------------------------
(* Client-side subscription services, started and stopped by their users *)

ServiceStep(e, from, to, op) ==
  /\ service[e] = from
  /\ service' = [service EXCEPT ![e] = to]
  /\ stops' = IF op = "drop" THEN [stops EXCEPT ![e] = @ + 1] ELSE stops
  /\ up' = write_event(up, Home[e], op, e)
  /\ UNCHANGED <<server, down, client, manager, handler, m_tagged_endpoints, applied>>

\* do_service_start: the service asks for a tag.
do_service_start(e) ==
  client[Home[e]] = "operational" /\ ServiceStep(e, "new", "registering", "register")

\* It has its tag: it is set up, listed with the instance and activated.
activate_subscription_service(e) ==
  Alive(Home[e]) /\ client[Home[e]] # "left"
                 /\ ServiceStep(e, "registered", "activating", "activate")

\* Only a service in the state Running asks to be dropped.  It stays in that state
\* until it is torn down, so a second call, after the first was acknowledged, sends a
\* second request.
request_stop(e) ==
  /\ e \in Stopping /\ stops[e] < MaxStops /\ client[Home[e]] = "operational"
  /\ \A i \in DOMAIN up[Home[e]] : up[Home[e]][i] # [op |-> "drop", what |-> e]
  /\ \E from \in {"running", "dropping"} : ServiceStep(e, from, "dropping", "drop")

-----------------------------------------------------------------------------
(* The end of an instance and of its client *)

\* Instance::do_service_kill: once no service is listed, the instance is dropped.
do_service_kill(c) ==
  /\ c \in Leaving /\ client[c] = "operational" /\ m_subscription_services(c) = {}
  /\ client' = [client EXCEPT ![c] = "dropping"]
  /\ up' = write_event(up, c, "drop_worker", {})
  /\ UNCHANGED <<server, down, manager, handler, services>>

\* The update handler has ended, since its channel is gone: the instance ends, and
\* Client::do_service_stop finishes the stream.
do_service_stop(c) ==
  /\ client[c] = "dropped" /\ c \notin m_update_channels /\ updates[c] = << >>
  /\ client' = [client EXCEPT ![c] = "left"]
  /\ up' = write_event(up, c, "end", {})
  /\ UNCHANGED <<server, down, manager, handler, services>>

-----------------------------------------------------------------------------
do_handle_event ==
  /\ reply = << >>
  /\ \E c \in Client :
       /\ up[c] # << >>
       /\ \/ unary_register_workers(c) \/ unary_activate_stream(c) \/ unary_lookup_workers(c)
          \/ unary_drop_worker(c) \/ unary_register_subscription_service(c)
          \/ unary_activate_subscription_service(c) \/ unary_drop_subscription_service(c)
          \/ event_update_subscription_service(c) \/ drop_stream(c)

ClientNext(c) ==
  /\ Alive(c) /\ down[c] # << >>
  /\ \/ HandleResponse(c) \/ ForwardConnections(c) \/ route_state_update(c)

ManagerNext(c) ==
  \/ CreateInstances(c) \/ do_connections_update(c) \/ RegisterAddresses(c)

HandlerNext(c) ==
  /\ Alive(c) /\ c \notin failed /\ updates[c] # << >>
  /\ \/ do_update_subscription_state(c) \/ FailUpdate(c) \/ do_drop_subscription_service(c)

\* The steps of the server, of the streams and of the fibers of the clients.  What the
\* clients do when the server is gone is left out.
SystemNext ==
  /\ ~fatal
  /\ \/ \E c \in Client :
          do_write(c) \/ ClientNext(c) \/ ManagerNext(c) \/ HandlerNext(c) \/ do_service_stop(c)
     \/ \E e \in Endpoint : activate_subscription_service(e)
     \/ unary_response \/ do_issue_update \/ do_handle_event

\* What the users of the clients do, and crashes.
UserNext ==
  /\ ~fatal
  /\ \/ \E c \in Client : register_ucx_addresses(c) \/ do_service_kill(c) \/ Crash(c)
     \/ \E e \in Endpoint : do_service_start(e) \/ request_stop(e)

Next == SystemNext \/ UserNext

Spec == Init /\ [][Next]_vars

\* The fibers run, the streams deliver, and the updater wakes up by its period; when
\* services are started and stopped, and clients come and go, is left open.  No step
\* can be repeated for ever, so it is enough that some step of the system is taken.
Fairness == WF_vars(SystemNext)

FairSpec == Spec /\ Fairness

-----------------------------------------------------------------------------
(* Properties *)

Sync == INSTANCE RoleSync WITH
  Tag <- Endpoint, current <- current_nonce(m_role), version <- m_role.versions,
  m_subscribers <- m_role.m_subscribers, m_subscriber_nonces <- m_role.m_subscriber_nonces,
  start <- m_role.start, latched <- m_role.m_latched_members, released <- m_role.released,
  view <- m_tagged_endpoints

\* Over streams, fibers and clients that fail, the role does what RoleSync says: the
\* nonces that event_update_subscription_service records are of updates the publisher
\* has applied, in order, so that evaluate_latches releases a member only when no
\* publisher knows it any more.
ImplementsRoleSync == Sync!Spec

\* Whatever order registrations, drops and the ends of streams come in, the tags that
\* are issued, and with them members and subscribers, are of connected instances.
TagsOfConnected ==
  /\ m_role.m_members \cup m_role.m_subscribers \subseteq m_instance_tags
  /\ \A t \in m_instance_tags : Home[t] \in m_instances_by_stream \cap m_streams

\* A handler of the server throws (on_fatal_exception) in two cases only: a client died
\* with requests on their way and a write to it has failed, or a user called
\* request_stop twice before the service was torn down (as in a call of its own and
\* the destructor's).  Clients that leave or tear down too much do no harm.
ServerSurvives ==
  fatal => m_can_write # Client \/ \E e \in Endpoint : stops[e] > 1

\* The publisher p will not report: it was torn down, its instance takes no updates
\* any more, or it subscribed after the last update was issued and none is on its way.
Silent(p) ==
  \/ service[p] = "down"
  \/ Home[p] \in failed \/ Home[p] \notin m_update_channels
  \/ /\ m_role.m_issued_nonce = current_nonce(m_role)
     /\ m_role.m_subscriber_nonces[p] = 0
     /\ LET q == up[Home[p]] \o down[Home[p]] \o updates[Home[p]]
        IN \A i \in DOMAIN q : q[i].op # "update"

\* A dropped member is released, unless a publisher keeps silent (or the server is
\* gone): every report, and
\* every publisher that goes, has evaluate_latches look at the latches again.
LatchesReleased ==
  \A t \in Subscriber :
    m_role.m_latched_members[t] > 0 ~>
      (fatal \/ m_role.m_latched_members[t] = 0 \/ \E p \in m_role.m_subscribers : Silent(p))

\* Instance::do_service_kill, which waits for its update handler to end, returns: the
\* dropped instance disappears from the connections, and the client closes its channel.
DroppedInstanceEnds ==
  \A c \in Leaving : client[c] = "dropping" ~> fatal \/ client[c] \in {"left", "dead"}
=============================================================================
