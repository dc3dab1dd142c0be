------------------------------ MODULE DataPath ------------------------------
(***************************************************************************)
(* The data path between partitions: remote descriptors and the objects    *)
(* they stand for, a round-robin publisher, the data plane client that     *)
(* sends descriptors, the data plane server that receives them, and the    *)
(* transient pool both take their buffers from.                            *)
(*                                                                         *)
(* A remote_descriptor::Manager stores an object until the tokens of its   *)
(* descriptor come back.  Nothing in the code splits the tokens of an      *)
(* object (Storage starts with INT32_MAX, a descriptor carries them all),  *)
(* so a descriptor is the pair of its owner and the object's address.      *)
(*                                                                         *)
(* A partition's network thread runs the progress engine and the fibers    *)
(* of the client's rd_writer; they change places only where they wait.     *)
(* Tags come from the control plane: it releases a subscriber only when no *)
(* publisher lists its tag any more (RoleSyncProofs proves it), but a drop *)
(* request tears down all services of the name on its partition.           *)
(***************************************************************************)
EXTENDS Integers, Sequences, FiniteSets, FiniteSetsExt, Functions

CONSTANTS
  Instance,      \* the partitions
  Pub,           \* the partition of the publisher
  Tag,           \* the tags of the subscribers, numbers
  home,          \* home[t]: the partition of the subscriber with tag t
  Owner,         \* the partitions that store objects (the stop of others is not of interest)
  Address,       \* the addresses of stored objects, numbers
  MaxPublished,  \* bound: objects written to the publisher
  MaxStored,     \* bound: objects stored anywhere when a user stores one more
  Fiber,         \* the fibers of rd_writer (16)
  RdSize,        \* places in the channel of rd_writer (128)
  DecrementSize, \* places in the decrement channel (128)
  SinkSize,      \* places in the channel of a subscriber's network handler
  PrePosted,     \* m_pre_posted_recv_count (16)
  BlockCount,    \* blocks of a transient pool (4)
  BlockSize      \* buffers in a block (32 of the size of a receive)

ASSUME DataPathAssumption ==
  /\ Owner \subseteq Instance /\ Pub \in Owner /\ home \in [Tag -> Instance]
  /\ Tag \subseteq Nat \ {0} /\ Address \subseteq Nat
  /\ {RdSize, DecrementSize, SinkSize, PrePosted, BlockCount, BlockSize} \subseteq Nat \ {0}
  /\ PrePosted <= BlockSize /\ 1 < BlockCount   \* the server starts on one block

None == 0   \* no tag and no block: both are counted from one

VARIABLES
  service,            \* the service state of each manager: running, stopping, stopped
  m_stored_objects,
  held,               \* the descriptors in the hands of each partition's users
  releasing,          \* ... those a user waits on, their decrement message not sent yet
  arriving,           \* decrement messages on the way to each manager
  m_decrement_channel,
  lost,               \* the descriptors destroyed with their tokens
  published,          \* objects written to the publisher so far
  engine,             \* its policy engine: [pc, msg]
  tagged_endpoints,
  m_next,             \* the tag of the element it points to, or None at the end
  updates,            \* why it is updated no more: an update failed, it was torn down, or
                      \* dropped by the control plane; "on" while it is
  gone,               \* the tags that have left the role of the subscribers
  rd_channel,
  writer,             \* the fibers of rd_writer: [pc, msg, block]
  net,                \* tagged messages on the way to each partition
  recvs,              \* the blocks of the receives posted, in the order of posting
  progress,           \* the progress engine of each partition: [pc, msg, block]
  current, m_remaining,  \* the block each pool allocates from, and what is left of it
  edge,               \* each tag in the server's router: none, live, torn down with another
                      \* service of its partition, or released by a request of its own
  sink,               \* the channel of each network handler: [msg, block]
  fatal,              \* the process this one thing ended, "none" so far
  late                \* the tags torn down while messages for them were under way or to come

objects == <<service, m_stored_objects, held, releasing, arriving, m_decrement_channel>>
subscribers == <<tagged_endpoints, updates, gone>>
policy == <<published, engine, subscribers, m_next>>
pool == <<current, m_remaining>>
transport == <<rd_channel, writer, net, recvs, progress, sink>>
vars == <<objects, lost, policy, transport, pool, edge, fatal, late>>

Idle == [pc |-> "idle", msg |-> <<>>, block |-> None]
Block == 1 .. BlockCount
Descriptor == [owner : Instance, id : Address]

\* do_service_start of the managers, and of Server: its receives are posted.
Init ==
  /\ service = [i \in Instance |-> "running"]
  /\ m_stored_objects = [i \in Instance |-> {}]
  /\ held = [i \in Instance |-> {}]
  /\ releasing = [i \in Instance |-> {}]
  /\ arriving = [i \in Instance |-> {}]
  /\ m_decrement_channel = [i \in Instance |-> <<>>]
  /\ lost = {}
  /\ published = 0
  /\ engine = [pc |-> "read", msg |-> <<>>]
  /\ tagged_endpoints = {} /\ m_next = None /\ updates = "on" /\ gone = {}
  /\ rd_channel = <<>>
  /\ writer = [f \in Fiber |-> Idle]
  /\ net = [i \in Instance |-> <<>>]
  /\ recvs = [i \in Instance |-> [k \in 1 .. PrePosted |-> 1]]
  /\ progress = [i \in Instance |-> Idle]
  /\ current = [i \in Instance |-> 1]
  /\ m_remaining = [i \in Instance |-> BlockSize - PrePosted]
  /\ edge = [t \in Tag |-> "none"]
  /\ sink = [t \in Tag |-> <<>>]
  /\ fatal = "none" /\ late = {}

-----------------------------------------------------------------------------
(* The transient pool                                                      *)

\* The blocks somebody has a part of.  The pool itself keeps the current one, and a
\* receive callback keeps the block of the message it handles until it has the next.
Pinned(i) ==
  {current[i], progress[i].block}
    \cup Range(recvs[i])
    \cup {writer[f].block : f \in {f \in Fiber : i = Pub}}
    \cup UNION {{e.block : e \in Range(sink[t])} : t \in {t \in Tag : home[t] = i}}

\* Mutant of Free: the buffers do not share the ownership of their block.
FreeEarly(i) == Block \ {current[i]}

\* The last SharedReusable of a block returns it to the pool.
Free(i) == Block \ Pinned(i)

\* await_buffer(1) has room in the current block.
HasRoom(i) == m_remaining[i] > 0

\* ... and takes it.
TakeRoom(i) ==
  /\ HasRoom(i)
  /\ m_remaining' = [m_remaining EXCEPT ![i] = @ - 1]
  /\ UNCHANGED current

\* A fiber that waits in await_item gets a block (blocks are alike: any will do).
PopBlock(i) ==
  /\ Free(i) # {}
  /\ current' = [current EXCEPT ![i] = CHOOSE b \in Free(i) : TRUE]
  /\ m_remaining' = [m_remaining EXCEPT ![i] = BlockSize - 1]

-----------------------------------------------------------------------------
(* remote_descriptor::Manager                                              *)

Fail(what) == fatal' = what

\* decrement_tokens, of all tokens of an object.
decrement_tokens(i, a) ==
  IF a \in m_stored_objects[i]
    THEN /\ m_stored_objects' = [m_stored_objects EXCEPT ![i] = @ \ {a}]
         /\ UNCHANGED fatal
    ELSE Fail("check") /\ UNCHANGED m_stored_objects

\* An allocation gets an address that is not in use, which may be that of an
\* object released before (addresses are alike: any will do).
NewAddress(i) == CHOOSE a \in Address : a \notin m_stored_objects[i]

\* The objects stored anywhere.
StoredCount == MapThenSumSet(LAMBDA j : Cardinality(m_stored_objects[j]), Instance)

\* A user stores an object.
register_object(i) ==
  /\ i \in Owner /\ service[i] = "running" /\ m_stored_objects[i] # Address
  /\ StoredCount < MaxStored
  /\ LET a == NewAddress(i) IN
       /\ m_stored_objects' = [m_stored_objects EXCEPT ![i] = @ \cup {a}]
       /\ held' = [held EXCEPT ![i] = @ \cup {[owner |-> i, id |-> a]}]
  /\ UNCHANGED <<service, releasing, arriving, m_decrement_channel, lost, policy, transport, pool,
                 edge, fatal, late>>

\* A user releases a descriptor: of an object of this manager, or of another one by
\* an active message, and waits until the message is sent.
release_ownership(i, d) ==
  /\ d \in held[i]
  /\ held' = [held EXCEPT ![i] = @ \ {d}]
  /\ \/ /\ d.owner = i
        /\ decrement_tokens(i, d.id)
        /\ UNCHANGED releasing
     \/ /\ d.owner # i
        /\ releasing' = [releasing EXCEPT ![i] = @ \cup {d}]
        /\ UNCHANGED <<m_stored_objects, fatal>>
  /\ UNCHANGED <<service, arriving, m_decrement_channel, lost, policy, transport, pool, edge, late>>

\* A user destroys a descriptor: the destructor does not release it.
destroy(i, d) ==
  /\ d \in held[i]
  /\ held' = [held EXCEPT ![i] = @ \ {d}]
  /\ lost' = lost \cup {d}
  /\ UNCHANGED <<service, m_stored_objects, releasing, arriving, m_decrement_channel, policy,
                 transport, pool, edge, fatal, late>>

\* Mutant of unwrap_handle: the descriptor keeps its handle.
unwrap_handle_copy(i, j, d) ==
  /\ i # j /\ d \in held[i] /\ service[j] = "running"
  /\ held' = [held EXCEPT ![j] = @ \cup {d}]
  /\ UNCHANGED <<service, m_stored_objects, releasing, arriving, m_decrement_channel, lost, policy,
                 transport, pool, edge, fatal, late>>

\* A user takes the handle out of a descriptor and makes one of it elsewhere.
unwrap_handle(i, j, d) ==
  /\ i # j /\ d \in held[i] /\ service[j] = "running"
  /\ held' = [held EXCEPT ![i] = @ \ {d}, ![j] = @ \cup {d}]
  /\ UNCHANGED <<service, m_stored_objects, releasing, arriving, m_decrement_channel, lost, policy,
                 transport, pool, edge, fatal, late>>

\* The progress engine sends a decrement message and completes the request.
am_send(i, d) ==
  /\ progress[i].pc = "idle" /\ d \in releasing[i]
  /\ releasing' = [releasing EXCEPT ![i] = @ \ {d}]
  /\ arriving' = [arriving EXCEPT ![d.owner] = @ \cup {d.id}]
  /\ UNCHANGED <<service, m_stored_objects, held, m_decrement_channel, lost, policy, transport, pool,
                 edge, fatal, late>>

\* Mutant of active_message_callback: a message that finds the channel full is dropped.
active_message_try_write(i, a) ==
  /\ progress[i].pc = "idle" /\ a \in arriving[i] /\ service[i] # "stopped"
  /\ arriving' = [arriving EXCEPT ![i] = @ \ {a}]
  /\ m_decrement_channel' = IF Len(m_decrement_channel[i]) < DecrementSize
                              THEN [m_decrement_channel EXCEPT ![i] = Append(@, a)]
                              ELSE m_decrement_channel
  /\ UNCHANGED <<service, m_stored_objects, held, releasing, lost, policy, transport, pool, edge,
                 fatal, late>>

\* The message arrives: the callback, on the progress engine, writes it to the
\* decrement channel and waits there for a place.
active_message_callback(i, a) ==
  /\ progress[i].pc = "idle" /\ a \in arriving[i] /\ service[i] # "stopped"
  /\ arriving' = [arriving EXCEPT ![i] = @ \ {a}]
  /\ \/ /\ Len(m_decrement_channel[i]) < DecrementSize
        /\ m_decrement_channel' = [m_decrement_channel EXCEPT ![i] = Append(@, a)]
        /\ UNCHANGED progress
     \/ /\ Len(m_decrement_channel[i]) = DecrementSize
        /\ progress' = [progress EXCEPT ![i] = [pc |-> "decrement", msg |-> a, block |-> None]]
        /\ UNCHANGED m_decrement_channel
  /\ UNCHANGED <<service, m_stored_objects, held, releasing, lost, policy, rd_channel, writer, net,
                 recvs, sink, pool, edge, fatal, late>>

\* ... a place is there.
active_message_written(i) ==
  /\ progress[i].pc = "decrement" /\ Len(m_decrement_channel[i]) < DecrementSize
  /\ m_decrement_channel' = [m_decrement_channel EXCEPT ![i] = Append(@, progress[i].msg)]
  /\ progress' = [progress EXCEPT ![i] = Idle]
  /\ UNCHANGED <<service, m_stored_objects, held, releasing, arriving, lost, policy, rd_channel,
                 writer, net, recvs, sink, pool, edge, fatal, late>>

\* The decrement handler, on the main queue.
decrement_handler(i) ==
  /\ m_decrement_channel[i] # <<>>
  /\ m_decrement_channel' = [m_decrement_channel EXCEPT ![i] = Tail(@)]
  /\ decrement_tokens(i, Head(m_decrement_channel[i]))
  /\ UNCHANGED <<service, held, releasing, arriving, lost, policy, transport, pool, edge, late>>

\* The partition is destroyed, its publisher before: service_stop of the manager.
service_stop(i) ==
  /\ i \in Owner /\ service[i] = "running" /\ (i = Pub => engine.pc = "done")
  /\ service' = [service EXCEPT ![i] = "stopping"]
  /\ UNCHANGED <<m_stored_objects, held, releasing, arriving, m_decrement_channel, lost, policy,
                 transport, pool, edge, fatal, late>>

\* Mutant of do_service_stop: it does not wait for the objects.
do_service_stop_at_once(i) ==
  /\ service[i] = "stopping"
  /\ service' = [service EXCEPT ![i] = "stopped"]
  /\ UNCHANGED <<m_stored_objects, held, releasing, arriving, m_decrement_channel, lost, policy,
                 transport, pool, edge, fatal, late>>

\* do_service_stop waits for the objects, then takes the handler out of the ucx
\* worker and closes the channel.
do_service_stop(i) ==
  /\ service[i] = "stopping" /\ m_stored_objects[i] = {}
  /\ service' = [service EXCEPT ![i] = "stopped"]
  /\ UNCHANGED <<m_stored_objects, held, releasing, arriving, m_decrement_channel, lost, policy,
                 transport, pool, edge, fatal, late>>

-----------------------------------------------------------------------------
(* The publisher                                                           *)

\* begin() of a map with these keys; their order stands for that of the unordered map.
Begin(S) == {t \in S : \A u \in S : t <= u}

\* The place of m_next after an increment that wraps around at the end.
Advance(t) ==
  LET later == {u \in tagged_endpoints : u > t}
  IN  Begin(IF later = {} THEN tagged_endpoints ELSE later)

\* The element of m_next was erased and no on_update followed.
Dangling == m_next # None /\ m_next \notin tagged_endpoints

\* The teardown of the publisher has released the edge its policy engine reads from.
Unreadable == updates \in {"torn", "dropped"}

\* sub.on_next returned: ++m_next.  An update may have emptied the endpoints while
\* it waited; the iterator is the end then.  One that dangles may be of use still.
\* The engine then reads again, which dereferences the edge.
Increment ==
  \/ (m_next = None \/ Dangling) /\ Fail("policy") /\ UNCHANGED m_next
  \/ /\ m_next # None /\ m_next' \in Advance(m_next)
     /\ IF Unreadable THEN Fail("read") ELSE UNCHANGED fatal

\* The policy engine reads an object, registers it and applies the policy.  With no
\* endpoints it only logs that the object is dropped, and uses m_next all the same.
\* What it reads of an element that was erased is nothing, or the element.
apply_policy ==
  /\ engine.pc = "read" /\ published < MaxPublished /\ m_stored_objects[Pub] # Address
  /\ published' = published + 1
  /\ LET a == NewAddress(Pub)
         msg == [rd |-> [owner |-> Pub, id |-> a], tag |-> m_next]
     IN  /\ m_stored_objects' = [m_stored_objects EXCEPT ![Pub] = @ \cup {a}]
         /\ \/ /\ m_next = None \/ Dangling
               /\ Fail("policy")
               /\ UNCHANGED <<engine, m_next, rd_channel>>
            \/ /\ m_next # None /\ Len(rd_channel) < RdSize
               /\ rd_channel' = Append(rd_channel, msg)
               /\ Increment
               /\ UNCHANGED engine
            \/ /\ m_next # None /\ Len(rd_channel) = RdSize
               /\ engine' = [pc |-> "write", msg |-> msg]
               /\ UNCHANGED <<m_next, rd_channel, fatal>>
  /\ UNCHANGED <<service, held, releasing, arriving, m_decrement_channel, lost, subscribers, writer,
                 net, recvs, progress, sink, pool, edge, late>>

\* ... there is a place for the message it waits with.
on_next ==
  /\ engine.pc = "write" /\ Len(rd_channel) < RdSize
  /\ rd_channel' = Append(rd_channel, engine.msg)
  /\ engine' = [pc |-> "read", msg |-> <<>>]
  /\ Increment
  /\ UNCHANGED <<objects, lost, published, subscribers, writer, net, recvs, progress, sink,
                 pool, edge, late>>

\* The user drops the persistent channel: the engine reads no more and completes.
on_completed ==
  /\ engine.pc = "read"
  /\ engine' = [engine EXCEPT !.pc = "done"]
  /\ UNCHANGED <<objects, lost, published, subscribers, m_next, transport, pool, edge, fatal, late>>

\* An update that the control plane may issue: subscribers are set up before they are
\* members, and one that is not a member any more never becomes one again.
Updatable(tags) ==
  /\ updates = "on"
  /\ tags \cap gone = {} /\ \A t \in tags : edge[t] # "none"

\* Mutant of update_tagged_instances: on_update leaves an iterator that was set alone.
update_keeps_next(tags) ==
  /\ Updatable(tags)
  /\ tagged_endpoints' = tags
  /\ gone' = gone \cup (tagged_endpoints \ tags)
  /\ IF tags = {} THEN m_next' = None
     ELSE IF m_next # None THEN UNCHANGED m_next ELSE m_next' \in Begin(tags)
  /\ UNCHANGED <<objects, lost, published, engine, updates, transport, pool, edge, fatal, late>>

\* An update of the subscribers, between two waits of the policy engine.
update_tagged_instances(tags) ==
  /\ Updatable(tags)
  /\ tagged_endpoints' = tags
  /\ gone' = gone \cup (tagged_endpoints \ tags)
  /\ IF tags = {} THEN m_next' = None ELSE m_next' \in Begin(tags)
  /\ UNCHANGED <<objects, lost, published, engine, updates, transport, pool, edge, fatal, late>>

\* endpoint_shared throws at tag f, the worker address of whose partition is not known,
\* after the removed tags were erased and some added: on_update is not called, and the
\* update handler ends.  The removed tags are not reported, and so not released.
UpdateThrows(tags, f) ==
  /\ Updatable(tags)
  /\ f \in tags \ tagged_endpoints /\ \A t \in tagged_endpoints : home[t] # home[f]
  /\ \E S \in SUBSET {t \in tags \ tagged_endpoints : home[t] # home[f]} :
       tagged_endpoints' = (tagged_endpoints \cap tags) \cup S
  /\ updates' = "failed"
  /\ UNCHANGED <<objects, lost, published, engine, gone, m_next, transport, pool, edge, fatal, late>>

-----------------------------------------------------------------------------
(* data_plane::Client                                                      *)

\* A fiber of rd_writer takes a descriptor out of its message and asks for a buffer;
\* with the buffer it sends, and waits until the progress engine completes the send.
issue_remote_descriptor(f) ==
  /\ writer[f].pc = "idle" /\ rd_channel # <<>>
  /\ rd_channel' = Tail(rd_channel)
  /\ LET msg == Head(rd_channel) IN
       \/ /\ TakeRoom(Pub)
          /\ writer' = [writer EXCEPT ![f] = [pc |-> "send", msg |-> msg, block |-> current[Pub]]]
       \/ /\ ~HasRoom(Pub)
          /\ writer' = [writer EXCEPT ![f] = [pc |-> "pop", msg |-> msg, block |-> None]]
          /\ UNCHANGED pool
  /\ UNCHANGED <<objects, lost, policy, net, recvs, progress, sink, edge, fatal, late>>

\* ... it gets a block for its buffer.
send_await_item(f) ==
  /\ writer[f].pc = "pop"
  /\ PopBlock(Pub)
  /\ writer' = [writer EXCEPT ![f].pc = "send", ![f].block = current'[Pub]]
  /\ UNCHANGED <<objects, lost, policy, rd_channel, net, recvs, progress, sink, edge, fatal, late>>

\* Mutant of async_send: the fiber is not told that its send is complete, and waits on.
async_send_untold(f) ==
  /\ writer[f].pc = "send" /\ progress[Pub].pc = "idle"
  /\ net' = [net EXCEPT ![home[writer[f].msg.tag]] = Append(@, writer[f].msg)]
  /\ writer' = [writer EXCEPT ![f] = [@ EXCEPT !.pc = "sent"]]
  /\ UNCHANGED <<objects, lost, policy, rd_channel, recvs, progress, sink, pool, edge, fatal, late>>

\* The progress engine sends the message; the fiber releases its buffer.
async_send(f) ==
  /\ writer[f].pc = "send" /\ progress[Pub].pc = "idle"
  /\ net' = [net EXCEPT ![home[writer[f].msg.tag]] = Append(@, writer[f].msg)]
  /\ writer' = [writer EXCEPT ![f] = Idle]
  /\ UNCHANGED <<objects, lost, policy, rd_channel, recvs, progress, sink, pool, edge, fatal, late>>

-----------------------------------------------------------------------------
(* data_plane::Server and the subscribers                                  *)

\* await_buffer and the next pre_post_recv, at the end of the callback: rs are the
\* receives that are posted, b the block of the message just handled.
pre_post_recv(i, rs, b) ==
  \/ /\ TakeRoom(i)
     /\ recvs' = [recvs EXCEPT ![i] = Append(rs, current[i])]
     /\ progress' = [progress EXCEPT ![i] = Idle]
  \/ /\ ~HasRoom(i)
     /\ recvs' = [recvs EXCEPT ![i] = rs]
     /\ progress' = [progress EXCEPT ![i] = [pc |-> "pop", msg |-> <<>>, block |-> b]]
     /\ UNCHANGED pool

\* The router has an edge for the tag, from setup to teardown of the subscriber.
HasEdge(t) == edge[t] = "live"

\* A message arrives in the oldest receive.  The router throws when it has no edge for
\* the tag; the channel of the network handler may be full.
pre_posted_recv_callback(i) ==
  /\ progress[i].pc = "idle" /\ net[i] # <<>> /\ recvs[i] # <<>>
  /\ net' = [net EXCEPT ![i] = Tail(@)]
  /\ LET msg == Head(net[i])
         t == msg.tag
         b == Head(recvs[i])
     IN  \/ /\ ~HasEdge(t)
            /\ Fail("edge")
            /\ UNCHANGED <<recvs, progress, sink, pool>>
         \/ /\ HasEdge(t) /\ Len(sink[t]) < SinkSize
            /\ sink' = [sink EXCEPT ![t] = Append(@, [msg |-> msg, block |-> b])]
            /\ pre_post_recv(i, Tail(recvs[i]), b)
            /\ UNCHANGED fatal
         \/ /\ HasEdge(t) /\ Len(sink[t]) = SinkSize
            /\ progress' = [progress EXCEPT ![i] = [pc |-> "write", msg |-> msg, block |-> b]]
            /\ recvs' = [recvs EXCEPT ![i] = Tail(@)]
            /\ UNCHANGED <<sink, pool, fatal>>
  /\ UNCHANGED <<objects, lost, policy, rd_channel, writer, edge, late>>

\* ... there is a place in the channel.
recv_await_write(i) ==
  /\ progress[i].pc = "write"
  /\ LET t == progress[i].msg.tag
         b == progress[i].block
     IN  /\ Len(sink[t]) < SinkSize
         /\ sink' = [sink EXCEPT ![t] = Append(@, [msg |-> progress[i].msg, block |-> b])]
         /\ pre_post_recv(i, recvs[i], b)
  /\ UNCHANGED <<objects, lost, policy, rd_channel, writer, net, edge, fatal, late>>

\* ... it gets a block for the next receive.
recv_await_item(i) ==
  /\ progress[i].pc = "pop"
  /\ PopBlock(i)
  /\ recvs' = [recvs EXCEPT ![i] = Append(@, current'[i])]
  /\ progress' = [progress EXCEPT ![i] = Idle]
  /\ UNCHANGED <<objects, lost, policy, rd_channel, writer, net, sink, edge, fatal, late>>

\* The network handler is an RxSink without an observer: it drops the buffer, and
\* with it the descriptor.
network_handler(t) ==
  /\ sink[t] # <<>>
  /\ sink' = [sink EXCEPT ![t] = Tail(@)]
  /\ lost' = lost \cup {Head(sink[t]).msg.rd}
  /\ UNCHANGED <<objects, policy, rd_channel, writer, net, recvs, progress, pool, edge, fatal, late>>

\* A subscriber gets its edge before it is activated.
do_subscription_service_setup(t) ==
  /\ edge[t] = "none"
  /\ edge' = [edge EXCEPT ![t] = "live"]
  /\ UNCHANGED <<objects, lost, policy, transport, pool, fatal, late>>

\* The messages under way, each with its place.
UnderWay ==
  {<<"channel", k, rd_channel[k]>> : k \in DOMAIN rd_channel}
    \cup {<<"engine", e.pc, e.msg>> : e \in {e \in {engine} : e.pc = "write"}}
    \cup {<<"writer", f, writer[f].msg>> : f \in {f \in Fiber : writer[f].pc # "idle"}}
    \cup UNION {{<<"net", <<i, k>>, net[i][k]>> : k \in DOMAIN net[i]} : i \in Instance}

\* The subscribers the control plane may release: those the publisher does not list, as far
\* as it reported it, and any when the publisher has been dropped.
Released ==
  CASE updates = "dropped" -> Tag
    [] updates = "failed"  -> gone
    [] OTHER               -> Tag \ tagged_endpoints

\* A drop request reaches partition i, for subscriber r or, with None, for the publisher.
\* do_handle_state_update compares role and tag with themselves, so that all services
\* there are torn down: the publisher is not updated any more, and subscribers lose
\* their edges, also those the publisher lists.
do_subscription_service_teardown(i, r) ==
  LET down == {t \in Tag : home[t] = i /\ HasEdge(t)}
  IN  /\ \/ r = None /\ i = Pub /\ updates \in {"on", "torn"}
         \/ r \in Released /\ home[r] = i /\ edge[r] \in {"live", "torn"}
      /\ i = Pub => updates # "failed"
      /\ updates' = IF r = None THEN "dropped" ELSE IF i = Pub /\ updates = "on" THEN "torn" ELSE updates
      /\ gone' = gone \cup ({r} \ {None})
      /\ edge' = [t \in Tag |-> IF t = r THEN "released" ELSE IF t \in down THEN "torn" ELSE edge[t]]
      /\ late' = late \cup {t \in down : \/ t \in tagged_endpoints \cup {m_next}
                                        \/ (updates' = "on" /\ t \notin gone')
                                        \/ \E u \in UnderWay : u[3].tag = t}
      /\ UNCHANGED <<objects, lost, published, engine, tagged_endpoints, m_next, transport, pool,
                     fatal>>

-----------------------------------------------------------------------------
(* The specification                                                       *)

\* The steps of users and of the control plane.
UserNext ==
  \/ \E i \in Instance :
       \/ register_object(i) \/ service_stop(i)
       \/ \E d \in held[i] : \/ release_ownership(i, d) \/ destroy(i, d)
                             \/ \E j \in Instance : unwrap_handle(i, j, d)
  \/ apply_policy \/ on_completed
  \/ \E tags \in SUBSET Tag : \/ update_tagged_instances(tags)
                              \/ \E f \in tags : UpdateThrows(tags, f)
  \/ \E t \in Tag : do_subscription_service_setup(t)
  \/ \E i \in Instance, r \in Tag \cup {None} : do_subscription_service_teardown(i, r)

Running == fatal = "none"

Next ==
  /\ Running
  /\ \/ \E i \in Instance :
          \/ \E d \in releasing[i] : am_send(i, d)
          \/ \E a \in arriving[i] : active_message_callback(i, a)
          \/ active_message_written(i) \/ decrement_handler(i) \/ do_service_stop(i)
          \/ pre_posted_recv_callback(i) \/ recv_await_write(i) \/ recv_await_item(i)
     \/ \E f \in Fiber : issue_remote_descriptor(f) \/ send_await_item(f) \/ async_send(f)
     \/ \E t \in Tag : network_handler(t)
     \/ on_next
     \/ UserNext

Spec == Init /\ [][Next]_vars

\* The fibers of the main queue and of the network thread are scheduled fairly, and the
\* progress engine, in each round, handles sends, receives and active messages.
Fairness ==
  /\ \A i \in Instance :
       /\ WF_vars(Running /\ \E d \in releasing[i] : am_send(i, d))
       /\ WF_vars(Running /\ \E a \in arriving[i] : active_message_callback(i, a))
       /\ WF_vars(Running /\ pre_posted_recv_callback(i))
       /\ WF_vars(Running /\ (active_message_written(i) \/ recv_await_write(i) \/ recv_await_item(i)))
       /\ WF_vars(Running /\ decrement_handler(i))
       /\ WF_vars(Running /\ do_service_stop(i))
  /\ \A f \in Fiber :
       /\ WF_vars(Running /\ async_send(f))
       /\ WF_vars(Running /\ (issue_remote_descriptor(f) \/ send_await_item(f)))
  /\ \A t \in Tag : WF_vars(Running /\ network_handler(t))
  /\ WF_vars(Running /\ on_next)

FairSpec == Spec /\ Fairness

-----------------------------------------------------------------------------
(* Properties                                                              *)

Of(i, a) == [owner |-> i, id |-> a]

\* The descriptors that exist at a partition, each with its place ...
CarriedBy(i) ==
  {<<"held", i, d>> : d \in held[i]}
    \cup {<<"releasing", i, d>> : d \in releasing[i]}
    \cup {<<"arriving", i, Of(i, a)>> : a \in arriving[i]}
    \cup {<<"decrement", <<i, k>>, Of(i, m_decrement_channel[i][k])>> :
             k \in DOMAIN m_decrement_channel[i]}
    \cup {<<"waiting", i, Of(i, p.msg)>> : p \in {p \in {progress[i]} : p.pc = "decrement"}}
    \cup {<<"received", i, p.msg.rd>> : p \in {p \in {progress[i]} : p.pc = "write"}}

\* ... in the channels of network handlers ...
CarriedTo(t) == {<<"sink", <<t, k>>, sink[t][k].msg.rd>> : k \in DOMAIN sink[t]}

\* ... and anywhere.
Carried ==
  (UNION {CarriedBy(i) : i \in Instance})
    \cup {<<u[1], u[2], u[3].rd>> : u \in UnderWay}
    \cup (UNION {CarriedTo(t) : t \in Tag})
    \cup {<<"lost", "", d>> : d \in lost}

\* The tokens of a stored object are in exactly one place, those of an object that is
\* gone nowhere: not with two users, not with a user and on the wire, not in a decrement
\* message that comes after the object's address was used again.  The CHECKs of
\* decrement_tokens (manager.cpp:174) and of Storage (storage.cpp:48) rest on it.
OneCarrier ==
  Running =>
    LET stored == UNION {{[owner |-> i, id |-> a] : a \in m_stored_objects[i]} : i \in Instance}
    IN  /\ {c[3] : c \in Carried} = stored
        /\ \A c, e \in Carried : c[3] = e[3] => c = e

\* When a manager has taken its handler out of the ucx worker and closed the channel
\* (manager.cpp:229-236), nothing that could still send it a decrement message exists.
QuietAfterStop ==
  \A i \in Instance : service[i] = "stopped" => \A c \in Carried : c[3].owner # i

\* The processes end in these ways only.  The publisher is given an object while it has
\* no subscriber, or waits with one while it loses the last, or an update of its
\* subscribers threw, or it reads on when it has been torn down
\* (publisher_round_robin.cpp:60 and :62, publisher_service.cpp:83 and :101).
\* Or a message arrives for a subscriber that was torn down while the message was under
\* way or, with another service of its name, while the publisher listed it or would
\* (router.hpp:100, instance.cpp:145): never for one that was released with no message
\* under way, and never for one that was not set up.
FailsOnlyThere ==
  /\ fatal # "check"
  /\ fatal = "policy" => tagged_endpoints = {} \/ updates = "failed"
  /\ fatal = "read" => Unreadable
  /\ fatal = "edge" => late # {}
  /\ \A u \in UnderWay : HasEdge(u[3].tag) \/ u[3].tag \in late

\* Somebody waits for a block, and all are in use by the pool itself, by receives, posted
\* or not yet posted again, and by sends.  (What is left of the current block does not
\* help: whoever waits in await_item waits for a block.)
Short(i) ==
  /\ progress[i].pc = "pop" \/ (i = Pub /\ \E f \in Fiber : writer[f].pc = "pop")
  /\ Block \subseteq {current[i], progress[i].block} \cup Range(recvs[i])
                       \cup {writer[f].block : f \in {f \in Fiber : i = Pub}}

\* ... and the one who waits is the progress engine.
Starved(i) == Short(i) /\ progress[i].pc = "pop"

\* A pool that is starved stays so: only the progress engine could complete a receive or
\* a send, and the callback it runs needs a block first, while it keeps its own
\* (server.cpp:83-89, transient_pool.cpp:112-118).  "It is critical that all Transient
\* object allocated from a pool have similar life cycles" (transient_pool.hpp:165).
StarvedForGood == [][\A i \in Instance : Starved(i) => Starved(i)']_vars

\* What may keep the code from going on: a process ended, or a pool is short of blocks.
Hindered == ~Running \/ \E i \in Instance : Short(i)

\* No published descriptor stays under way: it reaches the network handler of its
\* subscriber, through the channel and the fibers of rd_writer, the network, the
\* receives and the router (client.cpp:251-285, server.cpp:70-93).
MessagesArrive ==
  \A d \in Descriptor : []<>(Hindered \/ \A u \in UnderWay : u[3].rd # d)

\* The stop of a manager does not wait for ever when nobody has a descriptor of its
\* objects and none was destroyed unreleased: those released on other partitions are
\* brought back by active messages and the decrement channel (manager.cpp:215, 64-82).
StopEnds ==
  \A i \in Instance :
    []<>(\/ Hindered \/ service[i] # "stopping"
         \/ \E d \in lost \cup UNION {held[j] : j \in Instance} : d.owner = i)
=============================================================================
