--------------------------- MODULE DataPathProofs ---------------------------
(***************************************************************************)
(* Proofs about DataPath, for any partitions, subscribers, fibers, blocks, *)
(* receives, addresses and sizes of the channels: that the tokens of an    *)
(* object are in one place, that a stopped manager is left alone, where    *)
(* processes may end, and that a starved pool stays so.                    *)
(*                                                                         *)
(* The invariant looks at the places a descriptor can be in as sets of     *)
(* descriptors (At).  They are disjoint, and together they are the stored  *)
(* objects; a step moves one descriptor from a place to another.  Nothing  *)
(* is in a channel twice, so that reading from it takes a descriptor out.  *)
(***************************************************************************)
EXTENDS DataPath, TLAPS

-----------------------------------------------------------------------------
(* The invariant                                                           *)

Message == [rd : Descriptor, tag : Tag]
Buffer == [msg : Message, block : Nat]
Job == [pc : {"idle", "pop", "send", "write", "decrement"},
        msg : Message \cup Address \cup {<<>>}, block : Nat]

\* What the managers have and exchange.
Objects ==
  /\ service \in [Instance -> {"running", "stopping", "stopped"}]
  /\ m_stored_objects \in [Instance -> SUBSET Address]
  /\ held \in [Instance -> SUBSET Descriptor]
  /\ releasing \in [Instance -> SUBSET Descriptor]
  /\ arriving \in [Instance -> SUBSET Address]
  /\ m_decrement_channel \in [Instance -> Seq(Address)]
  /\ lost \in SUBSET Descriptor

\* The policy engine and the channel it writes to.
Policy ==
  /\ engine \in [pc : {"read", "write", "done"}, msg : Message \cup {<<>>}]
  /\ engine.pc = "write" => engine.msg \in Message
  /\ rd_channel \in Seq(Message)

\* The fibers of rd_writer.
Writers ==
  /\ writer \in [Fiber -> Job]
  /\ \A f \in Fiber :
       /\ writer[f].pc \in {"idle", "pop", "send"}
       /\ writer[f].pc = "idle" => writer[f] = Idle
       /\ writer[f].pc # "idle" => writer[f].msg \in Message

\* The servers and what is on the way to them.
Servers ==
  /\ net \in [Instance -> Seq(Message)]
  /\ recvs \in [Instance -> Seq(Nat)]
  /\ sink \in [Tag -> Seq(Buffer)]
  /\ current \in [Instance -> Nat]
  /\ progress \in [Instance -> Job]
  /\ \A i \in Instance :
       /\ progress[i].pc = "write" => progress[i].msg \in Message
       /\ progress[i].pc = "decrement" => progress[i].msg \in Address

\* A message may be under way to this tag.
Known(t) == edge[t] = "live" \/ t \in late

\* Where m_next points: to an endpoint if there is one, unless an update failed.
Placed ==
  /\ m_next \in Tag \cup {None}
  /\ updates # "failed" => IF tagged_endpoints = {} THEN m_next = None ELSE m_next \in tagged_endpoints

\* What the publisher lists, points to or may come to list has an edge, unless it was
\* torn down as a companion of another service.
Members ==
  /\ edge \in [Tag -> {"none", "live", "torn", "released"}]
  /\ tagged_endpoints \in SUBSET Tag /\ gone \in SUBSET Tag
  /\ Placed
  /\ \A t \in Tag : t \in tagged_endpoints \/ t = m_next => Known(t)
  /\ updates = "on" => \A t \in Tag : edge[t] # "none" /\ t \notin gone => Known(t)

\* Messages are sent to tags with an edge, which they lose on the way at worst.
Routes ==
  /\ Members
  /\ engine.pc = "write" => Known(engine.msg.tag)
  /\ \A k \in DOMAIN rd_channel : Known(rd_channel[k].tag)
  /\ \A f \in Fiber : writer[f].pc # "idle" => Known(writer[f].msg.tag)
  /\ \A i \in Instance : \A k \in DOMAIN net[i] : Known(net[i][k].tag)

\* The message apply_policy makes of an object.
Published == [rd |-> [owner |-> Pub, id |-> NewAddress(Pub)], tag |-> m_next]

\* The places, and the descriptors in each.
Place ==
  ({"held", "releasing", "arriving", "decrement", "waiting", "received", "net"} \X Instance)
    \cup ({"writer"} \X Fiber) \cup ({"sink"} \X Tag)
    \cup ({"engine", "channel", "lost"} \X {None})

Kind(p) == p[1]
Index(p) == p[2]

Rds(s) == {s[k].rd : k \in DOMAIN s}
Ids(i, s) == {Of(i, s[k]) : k \in DOMAIN s}
BufferRds(s) == {s[k].msg.rd : k \in DOMAIN s}

At(p) ==
  CASE p[1] = "held"      -> held[p[2]]
    [] p[1] = "releasing" -> releasing[p[2]]
    [] p[1] = "arriving"  -> {Of(p[2], a) : a \in arriving[p[2]]}
    [] p[1] = "decrement" -> Ids(p[2], m_decrement_channel[p[2]])
    [] p[1] = "waiting"   -> IF progress[p[2]].pc = "decrement"
                               THEN {Of(p[2], progress[p[2]].msg)} ELSE {}
    [] p[1] = "received"  -> IF progress[p[2]].pc = "write"
                               THEN {progress[p[2]].msg.rd} ELSE {}
    [] p[1] = "net"       -> Rds(net[p[2]])
    [] p[1] = "writer"    -> IF writer[p[2]].pc # "idle" THEN {writer[p[2]].msg.rd} ELSE {}
    [] p[1] = "sink"      -> BufferRds(sink[p[2]])
    [] p[1] = "engine"    -> IF engine.pc = "write" THEN {engine.msg.rd} ELSE {}
    [] p[1] = "channel"   -> Rds(rd_channel)
    [] p[1] = "lost"      -> lost

Stored == {d \in Descriptor : d.id \in m_stored_objects[d.owner]}

\* No descriptor is in two places, or twice in a channel.
Apart == \A p, q \in Place : \A d : d \in At(p) /\ d \in At(q) => p = q

Once(s) == \A k, n \in DOMAIN s : s[k].rd = s[n].rd => k = n
OnceId(s) == \A k, n \in DOMAIN s : s[k] = s[n] => k = n
OnceBuffer(s) == \A k, n \in DOMAIN s : s[k].msg.rd = s[n].msg.rd => k = n

NoRepeats ==
  /\ Once(rd_channel)
  /\ \A i \in Instance : Once(net[i]) /\ OnceId(m_decrement_channel[i])
  /\ \A t \in Tag : OnceBuffer(sink[t])

\* What is anywhere is stored; what is stored is somewhere.
Backed == \A p \in Place : At(p) \subseteq Stored
Somewhere == Running => \A d \in Stored : \E p \in Place : d \in At(p)

\* A manager that stops gets no new objects, and has none when it has stopped.
Stops ==
  /\ service[Pub] # "running" => engine.pc = "done"
  /\ \A i \in Instance : service[i] = "stopped" => m_stored_objects[i] = {}

\* Where processes end.
Ends ==
  /\ fatal \in {"none", "policy", "read", "edge"}
  /\ fatal = "policy" => tagged_endpoints = {} \/ updates = "failed"
  /\ fatal = "read" => Unreadable
  /\ fatal = "edge" => late # {}

Types == Objects /\ Policy /\ Writers /\ Servers
Carriers == Apart /\ NoRepeats /\ Backed /\ Somewhere
IInv == Types /\ Routes /\ Carriers /\ Stops /\ Ends

-----------------------------------------------------------------------------
(* Numbers, sequences and places                                           *)

\* NewAddress gives a free address.
LEMMA NewAddressIsFree ==
  ASSUME Objects, NEW i \in Instance, m_stored_objects[i] # Address
  PROVE  NewAddress(i) \in Address /\ NewAddress(i) \notin m_stored_objects[i]
  <1>1. \E a \in Address : a \notin m_stored_objects[i]
    BY Zenon DEF Objects
  <1> QED
    BY <1>1, Zenon DEF NewAddress

\* Reading and writing a sequence, with the positions of its elements.
LEMMA TailAndAppend ==
  ASSUME NEW S, NEW s \in Seq(S)
  PROVE  /\ s # << >> => /\ Tail(s) \in Seq(S) /\ Head(s) = s[1] /\ 1 \in DOMAIN s
                         /\ Head(s) \in S
                         /\ \A k \in DOMAIN Tail(s) : k + 1 \in DOMAIN s /\ Tail(s)[k] = s[k + 1]
                         /\ \A k \in DOMAIN s : k # 1 => k - 1 \in DOMAIN Tail(s)
         /\ \A e \in S : /\ Append(s, e) \in Seq(S)
                         /\ DOMAIN Append(s, e) = DOMAIN s \cup {Len(s) + 1}
                         /\ Len(s) + 1 \notin DOMAIN s
                         /\ Append(s, e)[Len(s) + 1] = e
                         /\ \A k \in DOMAIN s : Append(s, e)[k] = s[k]
         /\ DOMAIN s \subseteq Nat
         /\ \A k \in DOMAIN s : s[k] \in S
  OBVIOUS

\* What an element of a sequence was before another was appended.
LEMMA AppendAt ==
  ASSUME NEW S, NEW s \in Seq(S), NEW e \in S, NEW k \in DOMAIN Append(s, e)
  PROVE  (k \in DOMAIN s /\ Append(s, e)[k] = s[k]) \/ Append(s, e)[k] = e
  OBVIOUS

\* A job that is idle has no message and no block.
LEMMA IdleIs == Idle.pc = "idle" /\ Idle.block = None /\ None \notin Block
  BY DEF Idle, None, Block

\* Reading a message takes its descriptor out of the channel.
LEMMA TailRds ==
  ASSUME NEW s \in Seq(Message), s # << >>, Once(s)
  PROVE  /\ Head(s).rd \in Rds(s) /\ Rds(Tail(s)) = Rds(s) \ {Head(s).rd}
         /\ Once(Tail(s))
  <1>1. Head(s) = s[1] /\ 1 \in DOMAIN s /\ DOMAIN s \subseteq Nat
    BY TailAndAppend, Zenon
  <1>2. \A k \in DOMAIN Tail(s) : k + 1 \in DOMAIN s /\ Tail(s)[k] = s[k + 1]
    BY TailAndAppend, Zenon
  <1>3. \A k \in DOMAIN s : k # 1 => k - 1 \in DOMAIN Tail(s)
    BY TailAndAppend, Zenon
  <1>4. DOMAIN Tail(s) \subseteq Nat \ {0}
    OBVIOUS
  <1>5. Head(s).rd \in Rds(s)
    BY <1>1, Zenon DEF Rds
  <1>6. \A d \in Rds(Tail(s)) : d \in Rds(s) /\ d # Head(s).rd
    BY <1>1, <1>2, <1>4 DEF Rds, Once
  <1>7. \A d \in Rds(s) : d # Head(s).rd => d \in Rds(Tail(s))
    <2> SUFFICES ASSUME NEW k \in DOMAIN s, k # 1 PROVE s[k].rd \in Rds(Tail(s))
      BY <1>1, Zenon DEF Rds
    <2>1. k - 1 \in DOMAIN Tail(s) /\ Tail(s)[k - 1] = s[k]
      BY <1>1, <1>2, <1>3
    <2> QED
      BY <2>1, Zenon DEF Rds
  <1>8. Once(Tail(s))
    BY <1>2, <1>4 DEF Once
  <1> QED
    BY <1>5, <1>6, <1>7, <1>8, Zenon

\* Writing a message that is not there puts its descriptor in.
LEMMA AppendRds ==
  ASSUME NEW s \in Seq(Message), NEW m \in Message, Once(s), m.rd \notin Rds(s)
  PROVE  Rds(Append(s, m)) = Rds(s) \cup {m.rd} /\ Once(Append(s, m))
  <1>1. /\ DOMAIN Append(s, m) = DOMAIN s \cup {Len(s) + 1} /\ Len(s) + 1 \notin DOMAIN s
        /\ Append(s, m)[Len(s) + 1] = m /\ \A k \in DOMAIN s : Append(s, m)[k] = s[k]
    BY TailAndAppend
  <1> QED
    BY <1>1 DEF Rds, Once

\* The same of the decrement channel of a manager.
LEMMA TailIds ==
  ASSUME NEW i, NEW s \in Seq(Address), s # << >>, OnceId(s)
  PROVE  /\ Of(i, Head(s)) \in Ids(i, s) /\ Ids(i, Tail(s)) = Ids(i, s) \ {Of(i, Head(s))}
         /\ OnceId(Tail(s))
  <1>1. Head(s) = s[1] /\ 1 \in DOMAIN s /\ DOMAIN s \subseteq Nat
    BY TailAndAppend, Zenon
  <1>2. \A k \in DOMAIN Tail(s) : k + 1 \in DOMAIN s /\ Tail(s)[k] = s[k + 1]
    BY TailAndAppend, Zenon
  <1>3. \A k \in DOMAIN s : k # 1 => k - 1 \in DOMAIN Tail(s)
    BY TailAndAppend, Zenon
  <1>4. DOMAIN Tail(s) \subseteq Nat \ {0}
    OBVIOUS
  <1>5. Of(i, Head(s)) \in Ids(i, s)
    BY <1>1, Zenon DEF Ids, Of
  <1>6. \A d \in Ids(i, Tail(s)) : d \in Ids(i, s) /\ d # Of(i, Head(s))
    BY <1>1, <1>2, <1>4 DEF Ids, OnceId, Of
  <1>7. \A d \in Ids(i, s) : d # Of(i, Head(s)) => d \in Ids(i, Tail(s))
    <2> SUFFICES ASSUME NEW k \in DOMAIN s, k # 1 PROVE Of(i, s[k]) \in Ids(i, Tail(s))
      BY <1>1, Zenon DEF Ids, Of
    <2>1. k - 1 \in DOMAIN Tail(s) /\ Tail(s)[k - 1] = s[k]
      BY <1>1, <1>2, <1>3
    <2> QED
      BY <2>1, Zenon DEF Ids, Of
  <1>8. OnceId(Tail(s))
    BY <1>2, <1>4 DEF OnceId
  <1> QED
    BY <1>5, <1>6, <1>7, <1>8, Zenon

\* ... and of writing to it.
LEMMA AppendIds ==
  ASSUME NEW i, NEW s \in Seq(Address), NEW m \in Address, OnceId(s), Of(i, m) \notin Ids(i, s)
  PROVE  Ids(i, Append(s, m)) = Ids(i, s) \cup {Of(i, m)} /\ OnceId(Append(s, m))
  <1>1. /\ DOMAIN Append(s, m) = DOMAIN s \cup {Len(s) + 1} /\ Len(s) + 1 \notin DOMAIN s
        /\ Append(s, m)[Len(s) + 1] = m /\ \A k \in DOMAIN s : Append(s, m)[k] = s[k]
    BY TailAndAppend
  <1> QED
    BY <1>1 DEF Ids, OnceId, Of

\* The same of the channel of a network handler.
LEMMA TailBufferRds ==
  ASSUME NEW s \in Seq(Buffer), s # << >>, OnceBuffer(s)
  PROVE  /\ Head(s).msg.rd \in BufferRds(s) /\ BufferRds(Tail(s)) = BufferRds(s) \ {Head(s).msg.rd}
         /\ OnceBuffer(Tail(s))
  <1>1. Head(s) = s[1] /\ 1 \in DOMAIN s /\ DOMAIN s \subseteq Nat
    BY TailAndAppend, Zenon
  <1>2. \A k \in DOMAIN Tail(s) : k + 1 \in DOMAIN s /\ Tail(s)[k] = s[k + 1]
    BY TailAndAppend, Zenon
  <1>3. \A k \in DOMAIN s : k # 1 => k - 1 \in DOMAIN Tail(s)
    BY TailAndAppend, Zenon
  <1>4. DOMAIN Tail(s) \subseteq Nat \ {0}
    OBVIOUS
  <1>5. Head(s).msg.rd \in BufferRds(s)
    BY <1>1, Zenon DEF BufferRds
  <1>6. \A d \in BufferRds(Tail(s)) : d \in BufferRds(s) /\ d # Head(s).msg.rd
    BY <1>1, <1>2, <1>4 DEF BufferRds, OnceBuffer
  <1>7. \A d \in BufferRds(s) : d # Head(s).msg.rd => d \in BufferRds(Tail(s))
    <2> SUFFICES ASSUME NEW k \in DOMAIN s, k # 1 PROVE s[k].msg.rd \in BufferRds(Tail(s))
      BY <1>1, Zenon DEF BufferRds
    <2>1. k - 1 \in DOMAIN Tail(s) /\ Tail(s)[k - 1] = s[k]
      BY <1>1, <1>2, <1>3
    <2> QED
      BY <2>1, Zenon DEF BufferRds
  <1>8. OnceBuffer(Tail(s))
    BY <1>2, <1>4 DEF OnceBuffer
  <1> QED
    BY <1>5, <1>6, <1>7, <1>8, Zenon

\* ... and of writing to it.
LEMMA AppendBufferRds ==
  ASSUME NEW s \in Seq(Buffer), NEW m \in Buffer, OnceBuffer(s), m.msg.rd \notin BufferRds(s)
  PROVE  BufferRds(Append(s, m)) = BufferRds(s) \cup {m.msg.rd} /\ OnceBuffer(Append(s, m))
  <1>1. /\ DOMAIN Append(s, m) = DOMAIN s \cup {Len(s) + 1} /\ Len(s) + 1 \notin DOMAIN s
        /\ Append(s, m)[Len(s) + 1] = m /\ \A k \in DOMAIN s : Append(s, m)[k] = s[k]
    BY TailAndAppend
  <1> QED
    BY <1>1 DEF BufferRds, OnceBuffer

\* What is in each place before and after a step, kind by kind.
LEMMA AtHeld ==
  ASSUME NEW x
  PROVE  /\ At(<<"held", x>>) = held[x]
         /\ At(<<"held", x>>)' = held'[x]
  BY Zenon DEF At

\* The place "releasing".
LEMMA AtReleasing ==
  ASSUME NEW x
  PROVE  /\ At(<<"releasing", x>>) = releasing[x]
         /\ At(<<"releasing", x>>)' = releasing'[x]
  BY Zenon DEF At

\* The place "arriving".
LEMMA AtArriving ==
  ASSUME NEW x
  PROVE  /\ At(<<"arriving", x>>) = {Of(x, a) : a \in arriving[x]}
         /\ At(<<"arriving", x>>)' = {Of(x, a) : a \in arriving'[x]}
  BY Zenon DEF At

\* The place "decrement".
LEMMA AtDecrement ==
  ASSUME NEW x
  PROVE  /\ At(<<"decrement", x>>) = Ids(x, m_decrement_channel[x])
         /\ At(<<"decrement", x>>)' = Ids(x, m_decrement_channel'[x])
  BY Zenon DEF At

\* The place "waiting".
LEMMA AtWaiting ==
  ASSUME NEW x
  PROVE  /\ At(<<"waiting", x>>) = IF progress[x].pc = "decrement"
                                     THEN {Of(x, progress[x].msg)} ELSE {}
         /\ At(<<"waiting", x>>)' = IF progress'[x].pc = "decrement"
                                      THEN {Of(x, progress'[x].msg)} ELSE {}
  BY Zenon DEF At

\* The place "received".
LEMMA AtReceived ==
  ASSUME NEW x
  PROVE  /\ At(<<"received", x>>) = IF progress[x].pc = "write" THEN {progress[x].msg.rd} ELSE {}
         /\ At(<<"received", x>>)' = IF progress'[x].pc = "write" THEN {progress'[x].msg.rd} ELSE {}
  BY Zenon DEF At

\* The place "net".
LEMMA AtNet ==
  ASSUME NEW x
  PROVE  /\ At(<<"net", x>>) = Rds(net[x])
         /\ At(<<"net", x>>)' = Rds(net'[x])
  BY Zenon DEF At

\* The place "writer".
LEMMA AtWriter ==
  ASSUME NEW x
  PROVE  /\ At(<<"writer", x>>) = IF writer[x].pc # "idle" THEN {writer[x].msg.rd} ELSE {}
         /\ At(<<"writer", x>>)' = IF writer'[x].pc # "idle" THEN {writer'[x].msg.rd} ELSE {}
  BY Zenon DEF At

\* The place "sink".
LEMMA AtSink ==
  ASSUME NEW x
  PROVE  /\ At(<<"sink", x>>) = BufferRds(sink[x])
         /\ At(<<"sink", x>>)' = BufferRds(sink'[x])
  BY Zenon DEF At

\* The place "engine".
LEMMA AtEngine ==
  ASSUME NEW x
  PROVE  /\ At(<<"engine", x>>) = IF engine.pc = "write" THEN {engine.msg.rd} ELSE {}
         /\ At(<<"engine", x>>)' = IF engine'.pc = "write" THEN {engine'.msg.rd} ELSE {}
  BY Zenon DEF At

\* The place "channel".
LEMMA AtChannel ==
  ASSUME NEW x
  PROVE  /\ At(<<"channel", x>>) = Rds(rd_channel)
         /\ At(<<"channel", x>>)' = Rds(rd_channel')
  BY Zenon DEF At

\* The place "lost".
LEMMA AtLost ==
  ASSUME NEW x
  PROVE  /\ At(<<"lost", x>>) = lost
         /\ At(<<"lost", x>>)' = lost'
  BY Zenon DEF At

\* The places, kind by kind.
LEMMA PlaceKinds ==
  ASSUME NEW p \in Place
  PROVE  /\ p = <<Kind(p), Index(p)>>
         /\ Kind(p) \in {"held", "releasing", "arriving", "decrement", "waiting", "received", "net",
                      "writer", "sink", "engine", "channel", "lost"}
         /\ Kind(p) \in {"held", "releasing", "arriving", "decrement", "waiting", "received", "net"}
              => Index(p) \in Instance
         /\ Kind(p) = "writer" => Index(p) \in Fiber
         /\ Kind(p) = "sink" => Index(p) \in Tag
         /\ Kind(p) \in {"engine", "channel", "lost"} => Index(p) = None
  BY DEF Place, Kind, Index

\* Two places of a kind have different indices.
LEMMA OtherPlace ==
  ASSUME NEW p \in Place, NEW k, NEW x, p # <<k, x>>
  PROVE  Kind(p) = k => Index(p) # x
  <1>1. p = <<Kind(p), Index(p)>>
    BY PlaceKinds, Zenon
  <1>2. Kind(p) = k /\ Index(p) = x => <<Kind(p), Index(p)>> = <<k, x>>
    BY Zenon
  <1> QED
    BY <1>1, <1>2, Zenon

\* A place whose variable is left alone.
LEMMA AtKept ==
  ASSUME NEW p \in Place,
         Kind(p) = "held" => held'[Index(p)] = held[Index(p)],
         Kind(p) = "releasing" => releasing'[Index(p)] = releasing[Index(p)],
         Kind(p) = "arriving" => arriving'[Index(p)] = arriving[Index(p)],
         Kind(p) = "decrement" => m_decrement_channel'[Index(p)] = m_decrement_channel[Index(p)],
         Kind(p) = "waiting" => \/ progress'[Index(p)] = progress[Index(p)]
                                \/ /\ progress[Index(p)].pc # "decrement"
                                   /\ progress'[Index(p)].pc # "decrement",
         Kind(p) = "received" => \/ progress'[Index(p)] = progress[Index(p)]
                                 \/ /\ progress[Index(p)].pc # "write"
                                    /\ progress'[Index(p)].pc # "write",
         Kind(p) = "net" => net'[Index(p)] = net[Index(p)],
         Kind(p) = "writer" => \/ writer'[Index(p)] = writer[Index(p)]
                               \/ /\ writer[Index(p)].pc # "idle" /\ writer'[Index(p)].pc # "idle"
                                  /\ writer'[Index(p)].msg = writer[Index(p)].msg,
         Kind(p) = "sink" => sink'[Index(p)] = sink[Index(p)],
         Kind(p) = "engine" => \/ engine' = engine
                               \/ engine.pc # "write" /\ engine'.pc # "write",
         Kind(p) = "channel" => rd_channel' = rd_channel,
         Kind(p) = "lost" => lost' = lost
  PROVE  At(p)' = At(p)
  <1>1. p = <<Kind(p), Index(p)>>
    BY PlaceKinds, Zenon
  <1>2. \/ Kind(p) \in {"held", "releasing", "arriving", "decrement"}
        \/ Kind(p) \in {"waiting", "received", "net", "writer"}
        \/ Kind(p) \in {"sink", "engine", "channel", "lost"}
    BY PlaceKinds, Zenon
  <1>3. CASE Kind(p) \in {"held", "releasing", "arriving", "decrement"}
    BY <1>3, Zenon DEF At, Kind, Index
  <1>4. CASE Kind(p) \in {"waiting", "received", "net", "writer"}
    BY <1>4, ZenonT(30) DEF At, Kind, Index
  <1>5. CASE Kind(p) \in {"sink", "engine", "channel", "lost"}
    BY <1>5, ZenonT(30) DEF At, Kind, Index
  <1> QED
    BY <1>2, <1>3, <1>4, <1>5, Zenon

\* A step moves a descriptor from a to b.
LEMMA Move ==
  ASSUME Apart, Backed, Somewhere, Running, Stored' = Stored,
         NEW a \in Place, NEW b \in Place, a # b, NEW d, d \in At(a),
         At(a)' = At(a) \ {d}, At(b)' = At(b) \cup {d},
         \A p \in Place : p # a /\ p # b => At(p)' = At(p)
  PROVE  Apart' /\ Backed' /\ Somewhere'
  <1>1. \A p \in Place : \A e : e # d => (e \in At(p)' <=> e \in At(p))
    BY Zenon
  <1>2. \A p \in Place : d \in At(p)' <=> p = b
    BY DEF Apart
  <1>3. Apart'
    BY <1>1, <1>2 DEF Apart
  <1>4. Backed'
    BY <1>1 DEF Backed
  <1>5. Somewhere'
    BY <1>1, <1>2, Zenon DEF Somewhere
  <1> QED
    BY <1>3, <1>4, <1>5, Zenon

\* A step stores an object, its descriptor is in a.
LEMMA Enter ==
  ASSUME Apart, Backed, Somewhere, Running, NEW d, d \notin Stored, Stored' = Stored \cup {d},
         NEW a \in Place, At(a)' = At(a) \cup {d},
         \A p \in Place : p # a => At(p)' = At(p)
  PROVE  Apart' /\ Backed' /\ Somewhere'
  <1>1. \A p \in Place : \A e : e # d => (e \in At(p)' <=> e \in At(p))
    BY Zenon
  <1>2. \A p \in Place : d \in At(p)' <=> p = a
    BY Zenon DEF Backed
  <1>3. Apart'
    BY <1>1, <1>2 DEF Apart
  <1>4. Backed'
    BY <1>1, Zenon DEF Backed
  <1>5. Somewhere'
    BY <1>1, <1>2, Zenon DEF Somewhere
  <1> QED
    BY <1>3, <1>4, <1>5, Zenon

\* A step takes a descriptor out of a and its object out of the store.
LEMMA Leave ==
  ASSUME Apart, Backed, Somewhere, Running, NEW d, Stored' = Stored \ {d},
         NEW a \in Place, d \in At(a), At(a)' = At(a) \ {d},
         \A p \in Place : p # a => At(p)' = At(p)
  PROVE  Apart' /\ Backed' /\ Somewhere'
  <1>1. \A p \in Place : \A e : e # d => (e \in At(p)' <=> e \in At(p))
    BY Zenon
  <1>2. \A p \in Place : d \notin At(p)'
    BY Zenon DEF Apart
  <1>3. Apart'
    BY <1>1, <1>2 DEF Apart
  <1>4. Backed'
    BY <1>1, <1>2, Zenon DEF Backed
  <1>5. Somewhere'
    BY <1>1, Zenon DEF Somewhere
  <1> QED
    BY <1>3, <1>4, <1>5, Zenon

\* The process ends in a step that loses descriptors at most.
LEMMA Perish ==
  ASSUME Apart, Backed, ~Running', Stored \subseteq Stored',
         \A p \in Place : At(p)' \subseteq At(p)
  PROVE  Apart' /\ Backed' /\ Somewhere'
  <1>1. Apart'
    BY Zenon DEF Apart
  <1> QED
    BY <1>1, Zenon DEF Backed, Somewhere

\* No descriptor moves.
LEMMA Stay ==
  ASSUME Apart, Backed, Somewhere, Running, Stored' = Stored,
         \A p \in Place : At(p)' = At(p)
  PROVE  Apart' /\ Backed' /\ Somewhere'
  <1>1. Apart'
    BY DEF Apart
  <1>2. Backed'
    BY Zenon DEF Backed
  <1> QED
    BY <1>1, <1>2, Zenon DEF Somewhere

\* An object is stored, an object is taken out.
LEMMA StoredChanges ==
  ASSUME Objects, NEW i \in Instance, NEW a \in Address
  PROVE  /\ m_stored_objects' = [m_stored_objects EXCEPT ![i] = @ \cup {a}]
              => Stored' = Stored \cup {Of(i, a)}
         /\ m_stored_objects' = [m_stored_objects EXCEPT ![i] = @ \ {a}]
              => Stored' = Stored \ {Of(i, a)}
         /\ Of(i, a) \in Stored <=> a \in m_stored_objects[i]
         /\ Of(i, a).owner = i /\ Of(i, a).id = a
  BY DEF Objects, Stored, Of, Descriptor

-----------------------------------------------------------------------------
(* The publisher's choice of a subscriber, the pool and the next receive   *)

\* Advance stays among the endpoints.
LEMMA AdvanceIsEndpoint ==
  Advance(m_next) \subseteq tagged_endpoints
  BY Zenon DEF Advance, Begin

\* The messages of a sequence have tags.
LEMMA MessageTags ==
  ASSUME NEW s \in Seq(Message), NEW k \in DOMAIN s
  PROVE  s[k] \in Message /\ s[k].tag \in Tag /\ s[k].rd \in Descriptor
  <1>1. s[k] \in Message
    BY TailAndAppend, Zenon
  <1> QED
    BY <1>1, Zenon DEF Message

\* A tag is not None, and m_next, when it is not None, is a tag messages may go to.
LEMMA NextIsKnown ==
  ASSUME Members
  PROVE  None \notin Tag /\ (m_next # None => m_next \in Tag /\ Known(m_next))
  <1>1. None \notin Tag
    BY DataPathAssumption, Zenon DEF None
  <1> QED
    BY <1>1, Zenon DEF Members, Placed

\* The policy cannot be applied only without endpoints or after a failed update.
LEMMA UnplacedIs ==
  ASSUME Members, m_next = None \/ Dangling
  PROVE  tagged_endpoints = {} \/ updates = "failed"
  <1>1. None \notin tagged_endpoints
    BY NextIsKnown, Zenon DEF Members
  <1> QED
    BY <1>1, Zenon DEF Members, Placed, Dangling

\* m_next stays, or moves to an endpoint.
LEMMA NextMoves ==
  ASSUME Members, UNCHANGED <<subscribers, edge, late>>, m_next' = m_next \/ m_next' \in tagged_endpoints
  PROVE  Members'
  <1>1. UNCHANGED <<tagged_endpoints, updates, gone>>
    BY Zenon DEF subscribers
  <1>2. Placed'
    BY <1>1 DEF Members, Placed
  <1>3. \A t : Known(t)' <=> Known(t)
    BY Zenon DEF Known
  <1> QED
    BY <1>1, <1>2, <1>3, Zenon DEF Members

\* on_next returned: m_next moves on, or the process ends where it may.
LEMMA IncrementKeeps ==
  ASSUME Members, Running, Increment, UNCHANGED <<subscribers, edge, late>>
  PROVE  Members' /\ Ends'
  <1>1. m_next' = m_next \/ m_next' \in tagged_endpoints
    BY AdvanceIsEndpoint, Zenon DEF Increment
  <1>2. \/ fatal' = "policy" /\ (m_next = None \/ Dangling)
        \/ fatal' = "read" /\ Unreadable
        \/ fatal' = "none"
    BY Zenon DEF Increment, Fail, Running
  <1>3. UNCHANGED <<tagged_endpoints, updates>>
    BY Zenon DEF subscribers
  <1>4. Ends'
    BY <1>2, <1>3, UnplacedIs DEF Ends, Unreadable
  <1> QED
    BY <1>1, <1>4, NextMoves, Zenon

\* The block a pool pops becomes its current one.
LEMMA PopBlockIs ==
  ASSUME Servers, NEW i \in Instance, PopBlock(i)
  PROVE  /\ current' \in [Instance -> Nat]
         /\ \A x \in Instance : x # i => current'[x] = current[x]
         /\ Free(i) # {}
  <1>1. Free(i) # {} /\ current' = [current EXCEPT ![i] = CHOOSE b \in Free(i) : TRUE]
    BY Zenon DEF PopBlock
  <1>2. Free(i) \subseteq Nat
    BY DataPathAssumption DEF Free, Block
  <1>3. (CHOOSE b \in Free(i) : TRUE) \in Free(i)
    BY <1>1, Zenon
  <1> QED
    BY <1>1, <1>2, <1>3, Zenon DEF Servers

\* The next receive is posted, or the progress engine waits for a block.
LEMMA PrePostIs ==
  ASSUME Servers, NEW i \in Instance, NEW rs \in Seq(Nat), NEW b \in Nat, pre_post_recv(i, rs, b)
  PROVE  /\ UNCHANGED current
         /\ recvs' \in [Instance -> Seq(Nat)]
         /\ progress' \in [Instance -> Job]
         /\ \A x \in Instance : x # i => progress'[x] = progress[x]
         /\ progress'[i].pc \in {"idle", "pop"}
  <1>1. Idle \in Job /\ [pc |-> "pop", msg |-> <<>>, block |-> b] \in Job /\ Idle.pc = "idle"
    BY Zenon DEF Job, Idle, None
  <1>2. CASE TakeRoom(i) /\ recvs' = [recvs EXCEPT ![i] = Append(rs, current[i])]
             /\ progress' = [progress EXCEPT ![i] = Idle]
    <2>1. Append(rs, current[i]) \in Seq(Nat)
      BY DEF Servers
    <2> QED
      BY <1>1, <1>2, <2>1, Zenon DEF Servers, TakeRoom
  <1>3. CASE recvs' = [recvs EXCEPT ![i] = rs] /\ UNCHANGED pool
             /\ progress' = [progress EXCEPT ![i] = [pc |-> "pop", msg |-> <<>>, block |-> b]]
    BY <1>1, <1>3, Zenon DEF Servers, pool
  <1> QED
    BY <1>2, <1>3 DEF pre_post_recv

-----------------------------------------------------------------------------
(* Steps that leave the variables of a part of the invariant alone         *)

\* A part of the invariant holds on when a step leaves its variables alone.
LEMMA Kept ==
  /\ Objects /\ UNCHANGED <<service, m_stored_objects, held, releasing, arriving,
                            m_decrement_channel, lost>> => Objects'
  /\ Policy /\ UNCHANGED <<engine, rd_channel>> => Policy'
  /\ Writers /\ UNCHANGED writer => Writers'
  /\ Servers /\ UNCHANGED <<net, recvs, sink, current, progress>> => Servers'
  /\ Routes /\ UNCHANGED <<edge, late, subscribers, m_next>> => Members'
  /\ Routes /\ UNCHANGED <<edge, late, subscribers, m_next, engine, rd_channel, writer, net>>
       => Routes'
  /\ NoRepeats /\ UNCHANGED <<rd_channel, net, m_decrement_channel, sink>> => NoRepeats'
  /\ Stops /\ UNCHANGED <<service, engine, m_stored_objects>> => Stops'
  /\ Ends /\ UNCHANGED <<fatal, subscribers, late>> => Ends'
  <1>1. Objects /\ UNCHANGED <<service, m_stored_objects, held, releasing, arriving,
                              m_decrement_channel, lost>> => Objects'
    BY Zenon DEF Objects
  <1>2. Policy /\ UNCHANGED <<engine, rd_channel>> => Policy'
    BY Zenon DEF Policy
  <1>3. Writers /\ UNCHANGED writer => Writers'
    BY Zenon DEF Writers
  <1>4. Servers /\ UNCHANGED <<net, recvs, sink, current, progress>> => Servers'
    BY Zenon DEF Servers
  <1>0. Routes /\ UNCHANGED <<edge, late, subscribers, m_next>> => Members'
    BY Zenon DEF Routes, Members, Placed, Known, subscribers
  <1>5. Routes /\ UNCHANGED <<edge, late, subscribers, m_next, engine, rd_channel, writer, net>>
          => Routes'
    BY <1>0, Zenon DEF Routes, Known
  <1>6. NoRepeats /\ UNCHANGED <<rd_channel, net, m_decrement_channel, sink>> => NoRepeats'
    BY Zenon DEF NoRepeats
  <1>7. Stops /\ UNCHANGED <<service, engine, m_stored_objects>> => Stops'
    BY Zenon DEF Stops
  <1>8. Ends /\ UNCHANGED <<fatal, subscribers, late>> => Ends'
    BY Zenon DEF Ends, Unreadable, subscribers
  <1> QED
    BY <1>0, <1>1, <1>2, <1>3, <1>4, <1>5, <1>6, <1>7, <1>8, Zenon

\* The messages under way, kind by kind.
LEMMA UnderWayForms ==
  ASSUME NEW u
  PROVE  u \in UnderWay <=>
           \/ \E k \in DOMAIN rd_channel : u = <<"channel", k, rd_channel[k]>>
           \/ engine.pc = "write" /\ u = <<"engine", "write", engine.msg>>
           \/ \E f \in Fiber : writer[f].pc # "idle" /\ u = <<"writer", f, writer[f].msg>>
           \/ \E i \in Instance : \E k \in DOMAIN net[i] : u = <<"net", <<i, k>>, net[i][k]>>
  BY DEF UnderWay

\* The tag of a message under way has or had an edge.
LEMMA UnderWayKnown ==
  ASSUME Policy, Writers, Servers, Routes, NEW u \in UnderWay
  PROVE  u[3].tag \in Tag /\ Known(u[3].tag)
  <1>1. CASE \E k \in DOMAIN rd_channel : u = <<"channel", k, rd_channel[k]>>
    <2> PICK k \in DOMAIN rd_channel : u = <<"channel", k, rd_channel[k]>>
      BY <1>1, Zenon
    <2>1. u[3] = rd_channel[k]
      BY Zenon
    <2> QED
      BY <2>1, MessageTags, Zenon DEF Policy, Routes
  <1>2. CASE engine.pc = "write" /\ u = <<"engine", "write", engine.msg>>
    <2>1. u[3] = engine.msg /\ engine.msg \in Message
      BY <1>2, Zenon DEF Policy
    <2> QED
      BY <1>2, <2>1, Zenon DEF Message, Routes
  <1>3. CASE \E f \in Fiber : writer[f].pc # "idle" /\ u = <<"writer", f, writer[f].msg>>
    <2> PICK f \in Fiber : writer[f].pc # "idle" /\ u = <<"writer", f, writer[f].msg>>
      BY <1>3, Zenon
    <2>1. writer[f].pc # "idle" /\ u[3] = writer[f].msg
      BY Zenon
    <2>2. writer[f].msg \in Message
      BY <2>1, Zenon DEF Writers
    <2> QED
      BY <2>1, <2>2, Zenon DEF Message, Routes
  <1>4. CASE \E i \in Instance : \E k \in DOMAIN net[i] : u = <<"net", <<i, k>>, net[i][k]>>
    <2> PICK i \in Instance : \E k \in DOMAIN net[i] : u = <<"net", <<i, k>>, net[i][k]>>
      BY <1>4, Zenon
    <2> PICK k \in DOMAIN net[i] : u = <<"net", <<i, k>>, net[i][k]>>
      BY Zenon
    <2>1. u[3] = net[i][k]
      BY Zenon
    <2>2. net[i] \in Seq(Message)
      BY Zenon DEF Servers
    <2> QED
      BY <2>1, <2>2, MessageTags, Zenon DEF Routes
  <1> QED
    BY <1>1, <1>2, <1>3, <1>4, UnderWayForms, Zenon

\* A step that leaves the messages alone, the tags of which have or had an edge after it.
LEMMA RoutesFollow ==
  ASSUME Members', UNCHANGED <<engine, rd_channel, writer, net>>,
         \A u \in UnderWay : Known(u[3].tag)'
  PROVE  Routes'
  <1>1. engine.pc = "write" => Known(engine.msg.tag)'
    <2>1. engine.pc = "write" => <<"engine", "write", engine.msg>> \in UnderWay
      BY UnderWayForms, Zenon
    <2> QED
      BY <2>1, Zenon DEF Known
  <1>2. \A k \in DOMAIN rd_channel : Known(rd_channel[k].tag)'
    <2>1. \A k \in DOMAIN rd_channel : <<"channel", k, rd_channel[k]>> \in UnderWay
      BY UnderWayForms, Zenon
    <2> QED
      BY <2>1, Zenon DEF Known
  <1>3. \A f \in Fiber : writer[f].pc # "idle" => Known(writer[f].msg.tag)'
    <2>1. \A f \in Fiber : writer[f].pc # "idle" => <<"writer", f, writer[f].msg>> \in UnderWay
      BY UnderWayForms, Zenon
    <2> QED
      BY <2>1, Zenon DEF Known
  <1>4. \A i \in Instance : \A k \in DOMAIN net[i] : Known(net[i][k].tag)'
    <2>1. \A i \in Instance : \A k \in DOMAIN net[i] : <<"net", <<i, k>>, net[i][k]>> \in UnderWay
      BY UnderWayForms, Zenon
    <2> QED
      BY <2>1, Zenon DEF Known
  <1> QED
    BY <1>1, <1>2, <1>3, <1>4, Zenon DEF Routes, Known

\* A step of the servers that only changes what a progress engine does.
LEMMA ServersFrom ==
  ASSUME Servers, UNCHANGED <<net, recvs, sink, current>>, progress' \in [Instance -> Job],
         \A i \in Instance : /\ progress'[i].pc = "write" => progress'[i].msg \in Message
                             /\ progress'[i].pc = "decrement" => progress'[i].msg \in Address
  PROVE  Servers'
  BY Zenon DEF Servers

\* A step that leaves every place alone.
LEMMA PlacesKept ==
  ASSUME Apart, Backed, Somewhere, Running, UNCHANGED m_stored_objects,
         UNCHANGED <<held, releasing, arriving, m_decrement_channel, lost, engine, rd_channel,
                     writer, net, progress, sink>>
  PROVE  Apart' /\ Backed' /\ Somewhere'
  <1>1. Stored' = Stored
    BY Zenon DEF Stored
  <1>2. \A p \in Place : At(p)' = At(p)
    BY AtKept, Zenon
  <1> QED
    BY <1>1, <1>2, Stay, Zenon

\* A step of the control plane: the tags of messages under way keep their edge, or are late.
LEMMA ControlStep ==
  ASSUME IInv, Running, Members',
         UNCHANGED <<service, m_stored_objects, held, releasing, arriving, m_decrement_channel, lost,
                     engine, rd_channel, writer, net, recvs, progress, sink, current, fatal>>,
         \A t \in Tag : Known(t) /\ (\E u \in UnderWay : u[3].tag = t) => Known(t)'
  PROVE  IInv'
  <1>0. /\ Objects /\ Policy /\ Writers /\ Servers /\ Routes /\ NoRepeats /\ Apart /\ Backed
        /\ Somewhere /\ Stops /\ Ends
    BY Zenon DEF IInv, Types, Carriers
  <1>1. Objects' /\ Policy' /\ Writers' /\ Servers' /\ NoRepeats' /\ Stops'
    BY <1>0, Kept, Zenon
  <1>2. Routes'
    <2>1. \A u \in UnderWay : u[3].tag \in Tag /\ Known(u[3].tag)
      BY <1>0, UnderWayKnown, Zenon
    <2>2. \A u \in UnderWay : Known(u[3].tag)'
      BY <2>1, Zenon DEF Known
    <2> QED
      BY <2>2, RoutesFollow, Zenon
  <1>3. Apart' /\ Backed' /\ Somewhere'
    BY <1>0, PlacesKept, Zenon
  <1>4. Ends'
    BY Zenon DEF Ends, Running
  <1> QED
    BY <1>1, <1>2, <1>3, <1>4, Zenon DEF IInv, Types, Carriers

-----------------------------------------------------------------------------
(* The steps                                                               *)

\* A user stores an object.
LEMMA RegisterKeepsInv ==
  ASSUME IInv, Running, NEW i \in Instance, register_object(i)
  PROVE  IInv'
  <1>0. /\ Objects /\ Policy /\ Writers /\ Servers /\ Routes /\ NoRepeats /\ Apart /\ Backed
        /\ Somewhere /\ Stops /\ Ends
    BY Zenon DEF IInv, Types, Carriers
  <1>1. UNCHANGED <<service, releasing, arriving, m_decrement_channel, lost, published, engine,
                    subscribers, m_next, rd_channel, writer, net, recvs, progress, sink,
                    current, m_remaining, edge, fatal, late>>
    BY Zenon DEF register_object, policy, transport, pool
  <1>2. /\ i \in Owner /\ service[i] = "running" /\ m_stored_objects[i] # Address
        /\ m_stored_objects' = [m_stored_objects EXCEPT ![i] = @ \cup {NewAddress(i)}]
        /\ held' = [held EXCEPT ![i] = @ \cup {Of(i, NewAddress(i))}]
    BY Zenon DEF register_object, Of
  <1>a. NewAddress(i) \in Address /\ NewAddress(i) \notin m_stored_objects[i]
    BY <1>0, <1>2, NewAddressIsFree, Zenon
  <1>3. Objects'
    BY <1>0, <1>1, <1>2, <1>a DEF Objects, Of, Descriptor
  <1>4. Policy' /\ Writers' /\ Servers' /\ Routes' /\ NoRepeats' /\ Ends'
    BY <1>0, <1>1, Kept, Zenon
  <1>5. Apart' /\ Backed' /\ Somewhere'
    <2>1. Of(i, NewAddress(i)) \notin Stored /\ Stored' = Stored \cup {Of(i, NewAddress(i))}
      BY <1>0, <1>2, <1>a, StoredChanges, Zenon
    <2>2. <<"held", i>> \in Place
      BY Zenon DEF Place
    <2>3. At(<<"held", i>>)' = At(<<"held", i>>) \cup {Of(i, NewAddress(i))}
      BY <1>0, <1>2, AtHeld DEF Objects
    <2>4. \A p \in Place : p # <<"held", i>> => At(p)' = At(p)
      <3> SUFFICES ASSUME NEW p \in Place, p # <<"held", i>>
                   PROVE  At(p)' = At(p)
        BY Zenon
      <3>1. /\ Kind(p) \in {"held", "releasing", "arriving", "decrement", "waiting", "received",
                          "net"} => Index(p) \in Instance
            /\ Kind(p) = "writer" => Index(p) \in Fiber
            /\ Kind(p) = "sink" => Index(p) \in Tag
            /\ Kind(p) \in {"engine", "channel", "lost"} => Index(p) = None
        BY PlaceKinds, Zenon
      <3>2. (Kind(p) = "held" => Index(p) # i)
        BY <3>1, OtherPlace, Zenon
      <3>3. Kind(p) = "held" => held'[Index(p)] = held[Index(p)]
        BY <3>1, <3>2, <1>0, <1>2 DEF Objects
      <3> QED
        BY <1>1, <3>3, AtKept
    <2> QED
      BY <1>0, <2>1, <2>2, <2>3, <2>4, Enter, Zenon
  <1>6. Stops'
    BY <1>0, <1>1, <1>2 DEF Stops, Objects
  <1> QED
    BY <1>3, <1>4, <1>5, <1>6 DEF IInv, Types, Carriers

\* A user releases a descriptor.
LEMMA ReleaseKeepsInv ==
  ASSUME IInv, Running, NEW i \in Instance, NEW d \in held[i], release_ownership(i, d)
  PROVE  IInv'
  <1>0. /\ Objects /\ Policy /\ Writers /\ Servers /\ Routes /\ NoRepeats /\ Apart /\ Backed
        /\ Somewhere /\ Stops /\ Ends
    BY Zenon DEF IInv, Types, Carriers
  <1>1. UNCHANGED <<service, arriving, m_decrement_channel, lost, published, engine,
                    subscribers, m_next, rd_channel, writer, net, recvs, progress, sink,
                    current, m_remaining, edge, late>>
    BY Zenon DEF release_ownership, policy, transport, pool
  <1>2. /\ held' = [held EXCEPT ![i] = @ \ {d}]
        /\ \/ d.owner = i /\ decrement_tokens(i, d.id) /\ UNCHANGED releasing
           \/ /\ d.owner # i /\ releasing' = [releasing EXCEPT ![i] = @ \cup {d}]
              /\ UNCHANGED <<m_stored_objects, fatal>>
    BY DEF release_ownership
  <1>a. d \in Descriptor /\ d \in Stored
    <2>1. <<"held", i>> \in Place /\ d \in At(<<"held", i>>)
      BY AtHeld, Zenon DEF Place
    <2> QED
      BY <1>0, <2>1, Zenon DEF Backed, Stored
  <1>b. /\ UNCHANGED fatal
        /\ d.owner = i => /\ m_stored_objects' = [m_stored_objects EXCEPT ![i] = @ \ {d.id}]
                          /\ UNCHANGED releasing
        /\ d.owner # i => /\ UNCHANGED m_stored_objects
                          /\ releasing' = [releasing EXCEPT ![i] = @ \cup {d}]
    BY <1>2, <1>a DEF decrement_tokens, Stored
  <1>c. \/ m_stored_objects' = m_stored_objects
        \/ m_stored_objects' = [m_stored_objects EXCEPT ![i] = @ \ {d.id}]
    BY <1>b, Zenon
  <1>d. \A x \in Instance : x # i => held'[x] = held[x] /\ releasing'[x] = releasing[x]
    BY <1>0, <1>2 DEF Objects
  <1>3. Objects'
    BY <1>0, <1>1, <1>2, <1>a, <1>b, ZenonT(30) DEF Objects
  <1>4. Policy' /\ Writers' /\ Servers' /\ Routes' /\ NoRepeats'
    BY <1>0, <1>1, Kept, Zenon
  <1>5. Apart' /\ Backed' /\ Somewhere'
    <2>1. /\ <<"held", i>> \in Place /\ <<"releasing", i>> \in Place
          /\ <<"held", i>> # <<"releasing", i>>
      BY Zenon DEF Place
    <2>2. d \in At(<<"held", i>>) /\ At(<<"held", i>>)' = At(<<"held", i>>) \ {d}
      BY <1>0, <1>2, AtHeld DEF Objects
    <2>3. CASE d.owner = i
      <3>1. Stored' = Stored \ {d}
        BY <1>0, <1>a, <1>b, <2>3, StoredChanges DEF Of, Descriptor
      <3>2. \A p \in Place : p # <<"held", i>> => At(p)' = At(p)
        <4> SUFFICES ASSUME NEW p \in Place, p # <<"held", i>>
                     PROVE  At(p)' = At(p)
          BY Zenon
        <4>1. /\ Kind(p) \in {"held", "releasing", "arriving", "decrement", "waiting", "received",
                            "net"} => Index(p) \in Instance
              /\ Kind(p) = "writer" => Index(p) \in Fiber
              /\ Kind(p) = "sink" => Index(p) \in Tag
              /\ Kind(p) \in {"engine", "channel", "lost"} => Index(p) = None
          BY PlaceKinds, Zenon
        <4>2. (Kind(p) = "held" => Index(p) # i)
          BY <4>1, OtherPlace
        <4>3. Kind(p) = "held" => held'[Index(p)] = held[Index(p)]
          BY <4>1, <4>2, <1>0, <1>2 DEF Objects
        <4> QED
          BY <1>1, <4>3, <1>b, <2>3, AtKept, Zenon
      <3> QED
        BY <1>0, <2>1, <2>2, <3>1, <3>2, Leave
    <2>4. CASE d.owner # i
      <3>1. Stored' = Stored
        BY <1>2, <2>4 DEF Stored
      <3>2. At(<<"releasing", i>>)' = At(<<"releasing", i>>) \cup {d}
        <4>1. releasing'[i] = releasing[i] \cup {d}
          BY <1>0, <1>b, <2>4, Zenon DEF Objects
        <4> QED
          BY <4>1, AtReleasing, Zenon
      <3>3. \A p \in Place : p # <<"held", i>> /\ p # <<"releasing", i>> => At(p)' = At(p)
        <4> SUFFICES ASSUME NEW p \in Place, p # <<"held", i>>, p # <<"releasing", i>>
                     PROVE  At(p)' = At(p)
          BY Zenon
        <4>1. /\ Kind(p) \in {"held", "releasing", "arriving", "decrement", "waiting", "received",
                            "net"} => Index(p) \in Instance
              /\ Kind(p) = "writer" => Index(p) \in Fiber
              /\ Kind(p) = "sink" => Index(p) \in Tag
              /\ Kind(p) \in {"engine", "channel", "lost"} => Index(p) = None
          BY PlaceKinds, Zenon
        <4>2. (Kind(p) = "held" => Index(p) # i) /\ (Kind(p) = "releasing" => Index(p) # i)
          BY <4>1, OtherPlace, Zenon
        <4>3. Kind(p) = "held" => held'[Index(p)] = held[Index(p)]
          BY <4>1, <4>2, <1>d
        <4>4. Kind(p) = "releasing" => releasing'[Index(p)] = releasing[Index(p)]
          BY <4>1, <4>2, <1>d, Zenon
        <4> QED
          BY <1>1, <4>3, <4>4, AtKept
      <3> QED
        BY <1>0, <2>1, <2>2, <3>1, <3>2, <3>3, Move
    <2> QED
      BY <2>3, <2>4, Zenon
  <1>6. Stops'
    BY <1>0, <1>1, <1>c, Zenon DEF Stops, Objects
  <1>7. Ends'
    BY <1>0, <1>1, <1>b, Kept, Zenon
  <1> QED
    BY <1>3, <1>4, <1>5, <1>6, <1>7 DEF IInv, Types, Carriers

\* A user destroys a descriptor.
LEMMA DestroyKeepsInv ==
  ASSUME IInv, Running, NEW i \in Instance, NEW d \in held[i], destroy(i, d)
  PROVE  IInv'
  <1>0. /\ Objects /\ Policy /\ Writers /\ Servers /\ Routes /\ NoRepeats /\ Apart /\ Backed
        /\ Somewhere /\ Stops /\ Ends
    BY Zenon DEF IInv, Types, Carriers
  <1>1. UNCHANGED <<service, m_stored_objects, releasing, arriving, m_decrement_channel,
                    published, engine, subscribers, m_next, rd_channel, writer, net, recvs,
                    progress, sink, current, m_remaining, edge, fatal, late>>
    BY Zenon DEF destroy, policy, transport, pool
  <1>2. held' = [held EXCEPT ![i] = @ \ {d}] /\ lost' = lost \cup {d}
    BY Zenon DEF destroy
  <1>3. Objects'
    BY <1>0, <1>1, <1>2 DEF Objects
  <1>4. Policy' /\ Writers' /\ Servers' /\ Routes' /\ NoRepeats' /\ Stops' /\ Ends'
    BY <1>0, <1>1, Kept, Zenon
  <1>5. Apart' /\ Backed' /\ Somewhere'
    <2>1. /\ <<"held", i>> \in Place /\ <<"lost", None>> \in Place
          /\ <<"held", i>> # <<"lost", None>>
      BY Zenon DEF Place
    <2>2. Stored' = Stored
      BY <1>1, Zenon DEF Stored
    <2>3. d \in At(<<"held", i>>)
      BY AtHeld
    <2>4. At(<<"held", i>>)' = At(<<"held", i>>) \ {d}
      BY <1>0, <1>2, AtHeld, Zenon DEF Objects
    <2>5. At(<<"lost", None>>)' = At(<<"lost", None>>) \cup {d}
      BY <1>0, <1>2, AtLost, Zenon
    <2>6. \A p \in Place : p # <<"held", i>> /\ p # <<"lost", None>> => At(p)' = At(p)
      <3> SUFFICES ASSUME NEW p \in Place, p # <<"held", i>>, p # <<"lost", None>>
                   PROVE  At(p)' = At(p)
        OBVIOUS
      <3>1. /\ Kind(p) \in {"held", "releasing", "arriving", "decrement", "waiting", "received",
                          "net"} => Index(p) \in Instance
            /\ Kind(p) = "writer" => Index(p) \in Fiber
            /\ Kind(p) = "sink" => Index(p) \in Tag
            /\ Kind(p) \in {"engine", "channel", "lost"} => Index(p) = None
        BY PlaceKinds, Zenon
      <3>2. (Kind(p) = "held" => Index(p) # i) /\ Kind(p) # "lost"
        BY <3>1, OtherPlace, Zenon
      <3>3. Kind(p) = "held" => held'[Index(p)] = held[Index(p)]
        BY <3>1, <3>2, <1>0, <1>2, Zenon DEF Objects
      <3>4. Kind(p) = "lost" => lost' = lost
        BY <3>1, <3>2, <1>0, <1>2, SMTT(30) DEF Objects
      <3> QED
        BY <1>1, <3>3, <3>4, AtKept, Zenon
    <2> QED
      BY <1>0, <2>1, <2>2, <2>3, <2>4, <2>5, <2>6, Move
  <1> QED
    BY <1>3, <1>4, <1>5, Zenon DEF IInv, Types, Carriers

\* A descriptor goes to another partition.
LEMMA UnwrapKeepsInv ==
  ASSUME IInv, Running, NEW i \in Instance, NEW j \in Instance, NEW d \in held[i],
         unwrap_handle(i, j, d)
  PROVE  IInv'
  <1>0. /\ Objects /\ Policy /\ Writers /\ Servers /\ Routes /\ NoRepeats /\ Apart /\ Backed
        /\ Somewhere /\ Stops /\ Ends
    BY Zenon DEF IInv, Types, Carriers
  <1>1. UNCHANGED <<service, m_stored_objects, releasing, arriving, m_decrement_channel, lost,
                    published, engine, subscribers, m_next, rd_channel, writer, net, recvs,
                    progress, sink, current, m_remaining, edge, fatal, late>>
    BY Zenon DEF unwrap_handle, policy, transport, pool
  <1>2. i # j /\ held' = [held EXCEPT ![i] = @ \ {d}, ![j] = @ \cup {d}]
    BY Zenon DEF unwrap_handle
  <1>a. \A x \in Instance : x # i /\ x # j => held'[x] = held[x]
    BY <1>0, <1>2, Zenon DEF Objects
  <1>3. Objects'
    BY <1>0, <1>1, <1>2, Zenon DEF Objects
  <1>4. Policy' /\ Writers' /\ Servers' /\ Routes' /\ NoRepeats' /\ Stops' /\ Ends'
    BY <1>0, <1>1, Kept, Zenon
  <1>5. Apart' /\ Backed' /\ Somewhere'
    <2>1. /\ <<"held", i>> \in Place /\ <<"held", j>> \in Place
          /\ <<"held", i>> # <<"held", j>>
      BY <1>2, Zenon DEF Place
    <2>2. Stored' = Stored
      BY <1>1, Zenon DEF Stored
    <2>3. d \in At(<<"held", i>>)
      BY AtHeld, Zenon
    <2>4. At(<<"held", i>>)' = At(<<"held", i>>) \ {d}
      BY <1>0, <1>2, AtHeld DEF Objects
    <2>5. At(<<"held", j>>)' = At(<<"held", j>>) \cup {d}
      BY <1>0, <1>2, AtHeld DEF Objects
    <2>6. \A p \in Place : p # <<"held", i>> /\ p # <<"held", j>> => At(p)' = At(p)
      <3> SUFFICES ASSUME NEW p \in Place, p # <<"held", i>>, p # <<"held", j>>
                   PROVE  At(p)' = At(p)
        BY Zenon
      <3>1. /\ Kind(p) \in {"held", "releasing", "arriving", "decrement", "waiting", "received",
                          "net"} => Index(p) \in Instance
            /\ Kind(p) = "writer" => Index(p) \in Fiber
            /\ Kind(p) = "sink" => Index(p) \in Tag
            /\ Kind(p) \in {"engine", "channel", "lost"} => Index(p) = None
        BY PlaceKinds, Zenon
      <3>2. (Kind(p) = "held" => Index(p) # i) /\ (Kind(p) = "held" => Index(p) # j)
        BY <3>1, OtherPlace, Zenon
      <3>3. Kind(p) = "held" => held'[Index(p)] = held[Index(p)]
        BY <3>1, <3>2, <1>a, SMTT(30)
      <3> QED
        BY <1>1, <3>3, AtKept, Zenon
    <2> QED
      BY <1>0, <2>1, <2>2, <2>3, <2>4, <2>5, <2>6, Move, Zenon
  <1> QED
    BY <1>3, <1>4, <1>5 DEF IInv, Types, Carriers

\* A decrement message is sent.
LEMMA AmSendKeepsInv ==
  ASSUME IInv, Running, NEW i \in Instance, NEW d \in releasing[i], am_send(i, d)
  PROVE  IInv'
  <1>0. /\ Objects /\ Policy /\ Writers /\ Servers /\ Routes /\ NoRepeats /\ Apart /\ Backed
        /\ Somewhere /\ Stops /\ Ends
    BY Zenon DEF IInv, Types, Carriers
  <1>1. UNCHANGED <<service, m_stored_objects, held, m_decrement_channel, lost, published, engine,
                    subscribers, m_next, rd_channel, writer, net, recvs, progress, sink,
                    current, m_remaining, edge, fatal, late>>
    BY Zenon DEF am_send, policy, transport, pool
  <1>2. /\ releasing' = [releasing EXCEPT ![i] = @ \ {d}]
        /\ arriving' = [arriving EXCEPT ![d.owner] = @ \cup {d.id}]
    BY Zenon DEF am_send
  <1>a. d \in Descriptor /\ d.owner \in Instance /\ d.id \in Address
    BY <1>0 DEF Objects, Descriptor
  <1>3. Objects'
    BY <1>0, <1>1, <1>2, <1>a, ZenonT(30) DEF Objects, Descriptor
  <1>4. Policy' /\ Writers' /\ Servers' /\ Routes' /\ NoRepeats' /\ Stops' /\ Ends'
    BY <1>0, <1>1, Kept, Zenon
  <1>5. Apart' /\ Backed' /\ Somewhere'
    <2>1. /\ <<"releasing", i>> \in Place /\ <<"arriving", d.owner>> \in Place
          /\ <<"releasing", i>> # <<"arriving", d.owner>>
      BY <1>a DEF Place
    <2>2. Stored' = Stored
      BY <1>1, Zenon DEF Stored
    <2>3. d \in At(<<"releasing", i>>)
      BY AtReleasing, Zenon
    <2>4. At(<<"releasing", i>>)' = At(<<"releasing", i>>) \ {d}
      BY <1>0, <1>2, AtReleasing DEF Objects
    <2>5. At(<<"arriving", d.owner>>)' = At(<<"arriving", d.owner>>) \cup {d}
      <3>1. arriving'[d.owner] = arriving[d.owner] \cup {d.id}
        BY <1>0, <1>2, <1>a, Zenon DEF Objects
      <3>2. Of(d.owner, d.id) = d
        BY <1>a, Zenon DEF Of, Descriptor
      <3>3. {Of(d.owner, a) : a \in arriving'[d.owner]}
              = {Of(d.owner, a) : a \in arriving[d.owner]} \cup {d}
        BY <3>1, <3>2
      <3> QED
        BY <3>3, AtArriving, Zenon
    <2>6. \A p \in Place : p # <<"releasing", i>> /\ p # <<"arriving", d.owner>> => At(p)' = At(p)
      <3> SUFFICES ASSUME NEW p \in Place, p # <<"releasing", i>>, p # <<"arriving", d.owner>>
                   PROVE  At(p)' = At(p)
        BY Zenon
      <3>1. /\ Kind(p) \in {"held", "releasing", "arriving", "decrement", "waiting", "received",
                          "net"} => Index(p) \in Instance
            /\ Kind(p) = "writer" => Index(p) \in Fiber
            /\ Kind(p) = "sink" => Index(p) \in Tag
            /\ Kind(p) \in {"engine", "channel", "lost"} => Index(p) = None
        BY PlaceKinds, Zenon
      <3>2. (Kind(p) = "releasing" => Index(p) # i) /\ (Kind(p) = "arriving" => Index(p) # d.owner)
        BY <3>1, OtherPlace, Zenon
      <3>3. Kind(p) = "releasing" => releasing'[Index(p)] = releasing[Index(p)]
        BY <3>1, <3>2, <1>0, <1>2, <1>a DEF Objects
      <3>4. Kind(p) = "arriving" => arriving'[Index(p)] = arriving[Index(p)]
        BY <3>1, <3>2, <1>0, <1>2, <1>a, Zenon DEF Objects
      <3> QED
        BY <1>1, <3>3, <3>4, AtKept, Zenon
    <2> QED
      BY <1>0, <2>1, <2>2, <2>3, <2>4, <2>5, <2>6, Move, Zenon
  <1> QED
    BY <1>3, <1>4, <1>5, Zenon DEF IInv, Types, Carriers

\* A decrement message arrives.
LEMMA CallbackKeepsInv ==
  ASSUME IInv, Running, NEW i \in Instance, NEW a \in arriving[i], active_message_callback(i, a)
  PROVE  IInv'
  <1>0. /\ Objects /\ Policy /\ Writers /\ Servers /\ Routes /\ NoRepeats /\ Apart /\ Backed
        /\ Somewhere /\ Stops /\ Ends
    BY Zenon DEF IInv, Types, Carriers
  <1>1. UNCHANGED <<service, m_stored_objects, held, releasing, lost, published, engine,
                    subscribers, m_next, rd_channel, writer, net, recvs, sink, current,
                    m_remaining, edge, fatal, late>>
    BY Zenon DEF active_message_callback, policy, pool
  <1>2. /\ progress[i].pc = "idle" /\ arriving' = [arriving EXCEPT ![i] = @ \ {a}]
        /\ \/ /\ m_decrement_channel' = [m_decrement_channel EXCEPT ![i] = Append(@, a)]
              /\ UNCHANGED progress
           \/ /\ progress' = [progress EXCEPT ![i] = [pc |-> "decrement", msg |-> a, block |-> None]]
              /\ UNCHANGED m_decrement_channel
    BY Zenon DEF active_message_callback
  <1>a. a \in Address
    BY <1>0, Zenon DEF Objects
  <1>b. Of(i, a) \notin Ids(i, m_decrement_channel[i])
    <2>1. <<"arriving", i>> \in Place /\ <<"decrement", i>> \in Place
      BY Zenon DEF Place
    <2>2. Of(i, a) \in At(<<"arriving", i>>) /\ <<"arriving", i>> # <<"decrement", i>>
      BY AtArriving
    <2>3. Of(i, a) \notin At(<<"decrement", i>>)
      BY <1>0, <2>1, <2>2 DEF Apart
    <2> QED
      BY <2>3, AtDecrement, Zenon
  <1>c. /\ OnceId(Append(m_decrement_channel[i], a))
        /\ Ids(i, Append(m_decrement_channel[i], a)) = Ids(i, m_decrement_channel[i]) \cup {Of(i, a)}
    BY <1>0, <1>a, <1>b, AppendIds, ZenonT(30) DEF NoRepeats, Objects
  <1>d. {Of(i, b) : b \in arriving'[i]} = {Of(i, b) : b \in arriving[i]} \ {Of(i, a)}
    BY <1>0, <1>2 DEF Objects, Of
  <1>3. Objects'
    <2>1. Append(m_decrement_channel[i], a) \in Seq(Address)
      BY <1>0, <1>a DEF Objects
    <2>2. m_decrement_channel' \in [Instance -> Seq(Address)]
      BY <1>0, <1>2, <2>1, Zenon DEF Objects
    <2>3. arriving' \in [Instance -> SUBSET Address]
      BY <1>0, <1>2, Zenon DEF Objects
    <2> QED
      BY <1>0, <1>1, <2>2, <2>3, Zenon DEF Objects
  <1>4. Policy' /\ Writers' /\ Routes' /\ Stops' /\ Ends'
    BY <1>0, <1>1, Kept, ZenonT(30)
  <1>5. Servers'
    <2>1. [pc |-> "decrement", msg |-> a, block |-> None] \in Job
      BY <1>a, Zenon DEF Job, None
    <2>2. progress' \in [Instance -> Job]
      BY <1>0, <1>2, <2>1, Zenon DEF Servers
    <2>3. \A x \in Instance : \/ progress'[x] = progress[x]
                              \/ progress'[x] = [pc |-> "decrement", msg |-> a, block |-> None]
      BY <1>0, <1>2 DEF Servers
    <2>4. \A x \in Instance : /\ progress'[x].pc = "write" => progress'[x].msg \in Message
                              /\ progress'[x].pc = "decrement" => progress'[x].msg \in Address
      <3> SUFFICES ASSUME NEW x \in Instance
                   PROVE  /\ progress'[x].pc = "write" => progress'[x].msg \in Message
                          /\ progress'[x].pc = "decrement" => progress'[x].msg \in Address
        BY Zenon
      <3>1. CASE progress'[x] = progress[x]
        BY <1>0, <3>1, Zenon DEF Servers
      <3>2. CASE progress'[x] = [pc |-> "decrement", msg |-> a, block |-> None]
        BY <1>a, <3>2, SMTT(30)
      <3> QED
        BY <2>3, <3>1, <3>2, Zenon
    <2> QED
      BY <1>0, <1>1, <2>2, <2>4, ServersFrom
  <1>6. NoRepeats'
    BY <1>0, <1>1, <1>2, <1>c, Zenon DEF NoRepeats, Objects
  <1>7. Apart' /\ Backed' /\ Somewhere'
    <2>1. CASE /\ m_decrement_channel' = [m_decrement_channel EXCEPT ![i] = Append(@, a)]
              /\ UNCHANGED progress
      <3>1. /\ <<"arriving", i>> \in Place /\ <<"decrement", i>> \in Place
            /\ <<"arriving", i>> # <<"decrement", i>>
        BY Zenon DEF Place
      <3>2. Stored' = Stored
        BY <1>1, Zenon DEF Stored
      <3>3. Of(i, a) \in At(<<"arriving", i>>)
        BY AtArriving
      <3>4. At(<<"arriving", i>>)' = At(<<"arriving", i>>) \ {Of(i, a)}
        BY <1>d, AtArriving, Zenon
      <3>5. At(<<"decrement", i>>)' = At(<<"decrement", i>>) \cup {Of(i, a)}
        BY <1>0, <1>c, <2>1, AtDecrement, ZenonT(30) DEF Objects
      <3>6. \A p \in Place : p # <<"arriving", i>> /\ p # <<"decrement", i>> => At(p)' = At(p)
        <4> SUFFICES ASSUME NEW p \in Place, p # <<"arriving", i>>, p # <<"decrement", i>>
                     PROVE  At(p)' = At(p)
          BY Zenon
        <4>1. /\ Kind(p) \in {"held", "releasing", "arriving", "decrement", "waiting", "received",
                            "net"} => Index(p) \in Instance
              /\ Kind(p) = "writer" => Index(p) \in Fiber
              /\ Kind(p) = "sink" => Index(p) \in Tag
              /\ Kind(p) \in {"engine", "channel", "lost"} => Index(p) = None
          BY PlaceKinds, Zenon
        <4>2. (Kind(p) = "arriving" => Index(p) # i) /\ (Kind(p) = "decrement" => Index(p) # i)
          BY <4>1, OtherPlace
        <4>3. Kind(p) = "arriving" => arriving'[Index(p)] = arriving[Index(p)]
          BY <4>1, <4>2, <1>0, <1>2, <2>1, SMTT(30) DEF Objects
        <4>4. Kind(p) = "decrement" => m_decrement_channel'[Index(p)] = m_decrement_channel[Index(p)]
          BY <4>1, <4>2, <1>0, <1>2, <2>1, SMTT(30) DEF Objects
        <4> QED
          BY <1>1, <4>3, <4>4, <2>1, AtKept
      <3> QED
        BY <1>0, <3>1, <3>2, <3>3, <3>4, <3>5, <3>6, Move, SMTT(30)
    <2>2. CASE /\ progress' = [progress EXCEPT ![i] = [pc |-> "decrement", msg |-> a, block |-> None]]
              /\ UNCHANGED m_decrement_channel
      <3>1. /\ <<"arriving", i>> \in Place /\ <<"waiting", i>> \in Place
            /\ <<"arriving", i>> # <<"waiting", i>>
        BY DEF Place
      <3>2. Stored' = Stored
        BY <1>1, Zenon DEF Stored
      <3>3. Of(i, a) \in At(<<"arriving", i>>)
        BY AtArriving, Zenon
      <3>4. At(<<"arriving", i>>)' = At(<<"arriving", i>>) \ {Of(i, a)}
        BY <1>d, AtArriving, Zenon
      <3>5. At(<<"waiting", i>>)' = At(<<"waiting", i>>) \cup {Of(i, a)}
        BY <1>0, <1>2, <2>2, AtWaiting, Zenon DEF Servers
      <3>6. \A p \in Place : p # <<"arriving", i>> /\ p # <<"waiting", i>> => At(p)' = At(p)
        <4> SUFFICES ASSUME NEW p \in Place, p # <<"arriving", i>>, p # <<"waiting", i>>
                     PROVE  At(p)' = At(p)
          BY Zenon
        <4>1. /\ Kind(p) \in {"held", "releasing", "arriving", "decrement", "waiting", "received",
                            "net"} => Index(p) \in Instance
              /\ Kind(p) = "writer" => Index(p) \in Fiber
              /\ Kind(p) = "sink" => Index(p) \in Tag
              /\ Kind(p) \in {"engine", "channel", "lost"} => Index(p) = None
          BY PlaceKinds, Zenon
        <4>2. (Kind(p) = "arriving" => Index(p) # i) /\ (Kind(p) = "waiting" => Index(p) # i)
          BY <4>1, OtherPlace, SMTT(30)
        <4>3. Kind(p) = "arriving" => arriving'[Index(p)] = arriving[Index(p)]
          BY <4>1, <4>2, <1>0, <1>2, <2>2, Zenon DEF Objects, Servers
        <4>4. Kind(p) = "waiting" =>
               \/ progress'[Index(p)] = progress[Index(p)]
               \/ progress[Index(p)].pc # "decrement" /\ progress'[Index(p)].pc # "decrement"
          BY <4>1, <4>2, <1>0, <1>2, <2>2, ZenonT(30) DEF Objects, Servers
        <4>5. Kind(p) = "received" =>
               \/ progress'[Index(p)] = progress[Index(p)]
               \/ progress[Index(p)].pc # "write" /\ progress'[Index(p)].pc # "write"
          BY <4>1, <4>2, <1>0, <1>2, <2>2 DEF Objects, Servers
        <4> QED
          BY <1>1, <4>3, <4>4, <4>5, <2>2, AtKept, Zenon
      <3> QED
        BY <1>0, <3>1, <3>2, <3>3, <3>4, <3>5, <3>6, Move, SMTT(30)
    <2> QED
      BY <1>2, <2>1, <2>2, ZenonT(30)
  <1> QED
    BY <1>3, <1>4, <1>5, <1>6, <1>7 DEF IInv, Types, Carriers

\* ... and is written to the decrement channel after a wait.
LEMMA WrittenKeepsInv ==
  ASSUME IInv, Running, NEW i \in Instance, active_message_written(i)
  PROVE  IInv'
  <1>0. /\ Objects /\ Policy /\ Writers /\ Servers /\ Routes /\ NoRepeats /\ Apart /\ Backed
        /\ Somewhere /\ Stops /\ Ends
    BY Zenon DEF IInv, Types, Carriers
  <1>1. UNCHANGED <<service, m_stored_objects, held, releasing, arriving, lost, published, engine,
                    subscribers, m_next, rd_channel, writer, net, recvs, sink, current,
                    m_remaining, edge, fatal, late>>
    BY Zenon DEF active_message_written, policy, pool
  <1>2. /\ progress[i].pc = "decrement" /\ progress' = [progress EXCEPT ![i] = Idle]
        /\ m_decrement_channel' = [m_decrement_channel EXCEPT ![i] = Append(@, progress[i].msg)]
    BY Zenon DEF active_message_written
  <1>a. progress[i].msg \in Address
    BY <1>0, <1>2, Zenon DEF Servers
  <1>b. Of(i, progress[i].msg) \notin Ids(i, m_decrement_channel[i])
    <2>1. <<"waiting", i>> \in Place /\ <<"decrement", i>> \in Place
      BY Zenon DEF Place
    <2>2. Of(i, progress[i].msg) \in At(<<"waiting", i>>) /\ <<"waiting", i>> # <<"decrement", i>>
      BY <1>2, AtWaiting, Zenon
    <2>3. Of(i, progress[i].msg) \notin At(<<"decrement", i>>)
      BY <1>0, <2>1, <2>2, ZenonT(30) DEF Apart
    <2> QED
      BY <2>3, AtDecrement, Zenon
  <1>c. /\ OnceId(Append(m_decrement_channel[i], progress[i].msg))
        /\ Ids(i, Append(m_decrement_channel[i], progress[i].msg))
             = Ids(i, m_decrement_channel[i]) \cup {Of(i, progress[i].msg)}
    BY <1>0, <1>a, <1>b, AppendIds, SMTT(30) DEF NoRepeats, Objects
  <1>3. Objects'
    BY <1>0, <1>1, <1>2, <1>a DEF Objects
  <1>4. Policy' /\ Writers' /\ Routes' /\ Stops' /\ Ends'
    BY <1>0, <1>1, Kept, Zenon
  <1>5. Servers'
    <2>1. Idle \in Job /\ Idle.pc = "idle"
      BY Zenon DEF Job, Idle, None
    <2> QED
      BY <1>0, <1>1, <1>2, <2>1, Zenon DEF Servers
  <1>6. NoRepeats'
    BY <1>0, <1>1, <1>2, <1>c, Zenon DEF NoRepeats, Objects
  <1>7. Apart' /\ Backed' /\ Somewhere'
    <2>1. /\ <<"waiting", i>> \in Place /\ <<"decrement", i>> \in Place
          /\ <<"waiting", i>> # <<"decrement", i>>
      BY Zenon DEF Place
    <2>2. Stored' = Stored
      BY <1>1, Zenon DEF Stored
    <2>3. Of(i, progress[i].msg) \in At(<<"waiting", i>>)
      BY <1>2, AtWaiting, Zenon
    <2>4. At(<<"waiting", i>>)' = At(<<"waiting", i>>) \ {Of(i, progress[i].msg)}
      BY <1>0, <1>2, AtWaiting, Zenon DEF Servers, Idle
    <2>5. At(<<"decrement", i>>)' = At(<<"decrement", i>>) \cup {Of(i, progress[i].msg)}
      BY <1>0, <1>2, <1>c, AtDecrement, ZenonT(30) DEF Objects
    <2>6. \A p \in Place : p # <<"waiting", i>> /\ p # <<"decrement", i>> => At(p)' = At(p)
      <3> SUFFICES ASSUME NEW p \in Place, p # <<"waiting", i>>, p # <<"decrement", i>>
                   PROVE  At(p)' = At(p)
        BY Zenon
      <3>1. /\ Kind(p) \in {"held", "releasing", "arriving", "decrement", "waiting", "received",
                          "net"} => Index(p) \in Instance
            /\ Kind(p) = "writer" => Index(p) \in Fiber
            /\ Kind(p) = "sink" => Index(p) \in Tag
            /\ Kind(p) \in {"engine", "channel", "lost"} => Index(p) = None
        BY PlaceKinds, Zenon
      <3>2. (Kind(p) = "waiting" => Index(p) # i) /\ (Kind(p) = "decrement" => Index(p) # i)
        BY <3>1, OtherPlace, Zenon
      <3>3. Kind(p) = "waiting" =>
             \/ progress'[Index(p)] = progress[Index(p)]
             \/ progress[Index(p)].pc # "decrement" /\ progress'[Index(p)].pc # "decrement"
        BY <3>1, <3>2, <1>0, <1>2, SMTT(30) DEF Objects, Servers, Idle
      <3>4. Kind(p) = "received" =>
             \/ progress'[Index(p)] = progress[Index(p)]
             \/ progress[Index(p)].pc # "write" /\ progress'[Index(p)].pc # "write"
        BY <3>1, <3>2, <1>0, <1>2, ZenonT(30) DEF Objects, Servers, Idle
      <3>5. Kind(p) = "decrement" => m_decrement_channel'[Index(p)] = m_decrement_channel[Index(p)]
        BY <3>1, <3>2, <1>0, <1>2 DEF Objects, Servers, Idle
      <3> QED
        BY <1>1, <3>3, <3>4, <3>5, AtKept, Zenon
    <2> QED
      BY <1>0, <2>1, <2>2, <2>3, <2>4, <2>5, <2>6, Move
  <1> QED
    BY <1>3, <1>4, <1>5, <1>6, <1>7 DEF IInv, Types, Carriers

\* The decrement handler takes an object out.
LEMMA DecrementKeepsInv ==
  ASSUME IInv, Running, NEW i \in Instance, decrement_handler(i)
  PROVE  IInv'
  <1>0. /\ Objects /\ Policy /\ Writers /\ Servers /\ Routes /\ NoRepeats /\ Apart /\ Backed
        /\ Somewhere /\ Stops /\ Ends
    BY Zenon DEF IInv, Types, Carriers
  <1>1. UNCHANGED <<service, held, releasing, arriving, lost, published, engine, subscribers,
                    m_next, rd_channel, writer, net, recvs, progress, sink, current, m_remaining,
                    edge, late>>
    BY Zenon DEF decrement_handler, policy, transport, pool
  <1>2. /\ m_decrement_channel[i] # << >>
        /\ m_decrement_channel' = [m_decrement_channel EXCEPT ![i] = Tail(@)]
        /\ decrement_tokens(i, Head(m_decrement_channel[i]))
    BY Zenon DEF decrement_handler
  <1>a. Head(m_decrement_channel[i]) \in Address /\ Tail(m_decrement_channel[i]) \in Seq(Address)
    BY <1>0, <1>2 DEF Objects
  <1>b. /\ Of(i, Head(m_decrement_channel[i])) \in Ids(i, m_decrement_channel[i])
        /\ Ids(i, Tail(m_decrement_channel[i]))
             = Ids(i, m_decrement_channel[i]) \ {Of(i, Head(m_decrement_channel[i]))}
        /\ OnceId(Tail(m_decrement_channel[i]))
    BY <1>0, <1>2, TailIds, Zenon DEF NoRepeats, Objects
  <1>c. Head(m_decrement_channel[i]) \in m_stored_objects[i]
    <2>1. <<"decrement", i>> \in Place
      BY Zenon DEF Place
    <2>2. Of(i, Head(m_decrement_channel[i])) \in Stored
      BY <1>0, <1>b, <2>1, AtDecrement DEF Backed
    <2> QED
      BY <1>0, <1>a, <2>2, StoredChanges, Zenon
  <1>d. /\ UNCHANGED fatal
        /\ m_stored_objects'
             = [m_stored_objects EXCEPT ![i] = @ \ {Head(m_decrement_channel[i])}]
    BY <1>2, <1>c, Zenon DEF decrement_tokens
  <1>3. Objects'
    BY <1>0, <1>1, <1>2, <1>a, <1>d DEF Objects
  <1>4. Policy' /\ Writers' /\ Servers' /\ Routes'
    BY <1>0, <1>1, Kept, Zenon
  <1>5. NoRepeats'
    BY <1>0, <1>1, <1>2, <1>b, SMTT(30) DEF NoRepeats, Objects
  <1>6. Apart' /\ Backed' /\ Somewhere'
    <2>1. <<"decrement", i>> \in Place
      BY Zenon DEF Place
    <2>2. Stored' = Stored \ {Of(i, Head(m_decrement_channel[i]))}
      BY <1>0, <1>a, <1>d, StoredChanges, Zenon
    <2>3. /\ Of(i, Head(m_decrement_channel[i])) \in At(<<"decrement", i>>)
          /\ At(<<"decrement", i>>)' = At(<<"decrement", i>>) \ {Of(i, Head(m_decrement_channel[i]))}
      BY <1>0, <1>2, <1>b, AtDecrement DEF Objects
    <2>4. \A p \in Place : p # <<"decrement", i>> => At(p)' = At(p)
      <3> SUFFICES ASSUME NEW p \in Place, p # <<"decrement", i>>
                   PROVE  At(p)' = At(p)
        BY Zenon
      <3>1. /\ Kind(p) \in {"held", "releasing", "arriving", "decrement", "waiting", "received",
                          "net"} => Index(p) \in Instance
            /\ Kind(p) = "writer" => Index(p) \in Fiber
            /\ Kind(p) = "sink" => Index(p) \in Tag
            /\ Kind(p) \in {"engine", "channel", "lost"} => Index(p) = None
        BY PlaceKinds, Zenon
      <3>2. (Kind(p) = "decrement" => Index(p) # i)
        BY <3>1, OtherPlace, Zenon
      <3>3. Kind(p) = "decrement" => m_decrement_channel'[Index(p)] = m_decrement_channel[Index(p)]
        BY <3>1, <3>2, <1>0, <1>2, Zenon DEF Objects
      <3> QED
        BY <1>1, <3>3, AtKept, Zenon
    <2> QED
      BY <1>0, <2>1, <2>2, <2>3, <2>4, Leave
  <1>7. Stops'
    BY <1>0, <1>1, <1>d DEF Stops, Objects
  <1>8. Ends'
    BY <1>0, <1>1, <1>d, Kept, Zenon
  <1> QED
    BY <1>3, <1>4, <1>5, <1>6, <1>7, <1>8, SMTT(30) DEF IInv, Types, Carriers

\* A partition is destroyed.
LEMMA ServiceStopKeepsInv ==
  ASSUME IInv, Running, NEW i \in Instance, service_stop(i)
  PROVE  IInv'
  <1>0. /\ Objects /\ Policy /\ Writers /\ Servers /\ Routes /\ NoRepeats /\ Apart /\ Backed
        /\ Somewhere /\ Stops /\ Ends
    BY Zenon DEF IInv, Types, Carriers
  <1>1. UNCHANGED <<m_stored_objects, held, releasing, arriving, m_decrement_channel, lost,
                    published, engine, subscribers, m_next, rd_channel, writer, net, recvs,
                    progress, sink, current, m_remaining, edge, fatal, late>>
    BY Zenon DEF service_stop, policy, transport, pool
  <1>2. /\ service[i] = "running" /\ (i = Pub => engine.pc = "done")
        /\ service' = [service EXCEPT ![i] = "stopping"]
    BY Zenon DEF service_stop
  <1>3. Objects'
    BY <1>0, <1>1, <1>2, Zenon DEF Objects
  <1>4. Policy' /\ Writers' /\ Servers' /\ Routes' /\ NoRepeats' /\ Ends'
    BY <1>0, <1>1, Kept, Zenon
  <1>5. Apart' /\ Backed' /\ Somewhere'
    BY <1>0, <1>1, PlacesKept, Zenon
  <1>6. Stops'
    BY <1>0, <1>1, <1>2 DEF Stops, Objects
  <1> QED
    BY <1>3, <1>4, <1>5, <1>6, Zenon DEF IInv, Types, Carriers

\* Its manager has no objects left and stops.
LEMMA DoStopKeepsInv ==
  ASSUME IInv, Running, NEW i \in Instance, do_service_stop(i)
  PROVE  IInv'
  <1>0. /\ Objects /\ Policy /\ Writers /\ Servers /\ Routes /\ NoRepeats /\ Apart /\ Backed
        /\ Somewhere /\ Stops /\ Ends
    BY Zenon DEF IInv, Types, Carriers
  <1>1. UNCHANGED <<m_stored_objects, held, releasing, arriving, m_decrement_channel, lost,
                    published, engine, subscribers, m_next, rd_channel, writer, net, recvs,
                    progress, sink, current, m_remaining, edge, fatal, late>>
    BY Zenon DEF do_service_stop, policy, transport, pool
  <1>2. /\ service[i] = "stopping" /\ m_stored_objects[i] = {}
        /\ service' = [service EXCEPT ![i] = "stopped"]
    BY Zenon DEF do_service_stop
  <1>3. Objects'
    BY <1>0, <1>1, <1>2, ZenonT(30) DEF Objects
  <1>4. Policy' /\ Writers' /\ Servers' /\ Routes' /\ NoRepeats' /\ Ends'
    BY <1>0, <1>1, Kept, Zenon
  <1>5. Apart' /\ Backed' /\ Somewhere'
    BY <1>0, <1>1, PlacesKept, Zenon
  <1>6. Stops'
    BY <1>0, <1>1, <1>2 DEF Stops, Objects
  <1> QED
    BY <1>3, <1>4, <1>5, <1>6, Zenon DEF IInv, Types, Carriers

\* The policy engine completes.
LEMMA CompletedKeepsInv ==
  ASSUME IInv, Running, on_completed
  PROVE  IInv'
  <1>0. /\ Objects /\ Policy /\ Writers /\ Servers /\ Routes /\ NoRepeats /\ Apart /\ Backed
        /\ Somewhere /\ Stops /\ Ends
    BY Zenon DEF IInv, Types, Carriers
  <1>1. UNCHANGED <<service, m_stored_objects, held, releasing, arriving, m_decrement_channel,
                    lost, published, subscribers, m_next, rd_channel, writer, net, recvs,
                    progress, sink, current, m_remaining, edge, fatal, late>>
    BY Zenon DEF on_completed, objects, transport, pool
  <1>2. engine.pc = "read" /\ engine' = [engine EXCEPT !.pc = "done"]
    BY Zenon DEF on_completed
  <1>a. /\ engine' \in [pc : {"read", "write", "done"}, msg : Message \cup {<<>>}]
        /\ engine'.pc = "done"
    BY <1>0, <1>2, Zenon DEF Policy
  <1>3. Objects' /\ Writers' /\ Servers' /\ NoRepeats' /\ Ends'
    BY <1>0, <1>1, Kept, Zenon
  <1>4. Policy'
    BY <1>0, <1>1, <1>a, Zenon DEF Policy
  <1>5. Routes'
    <2>1. Members'
      BY <1>0, <1>1, Kept, Zenon
    <2> QED
      BY <1>0, <1>1, <1>a, <2>1, Zenon DEF Routes, Known
  <1>6. Apart' /\ Backed' /\ Somewhere'
    <2>1. Stored' = Stored
      BY <1>1, Zenon DEF Stored
    <2>2. \A p \in Place : At(p)' = At(p)
      BY <1>1, <1>2, <1>a, AtKept, Zenon
    <2> QED
      BY <1>0, <2>1, <2>2, Stay, Zenon
  <1>7. Stops'
    BY <1>0, <1>1, <1>a DEF Stops
  <1> QED
    BY <1>3, <1>4, <1>5, <1>6, <1>7, Zenon DEF IInv, Types, Carriers

\* A tag the control plane may list has an edge, or is late.
LEMMA UpdatableKnown ==
  ASSUME Members, NEW tags \in SUBSET Tag, Updatable(tags)
  PROVE  updates = "on" /\ \A t \in tags : Known(t)
  BY Zenon DEF Members, Updatable

\* The publisher learns of its subscribers.
LEMMA UpdateKeepsInv ==
  ASSUME IInv, Running, NEW tags \in SUBSET Tag, update_tagged_instances(tags)
  PROVE  IInv'
  <1>0. Members
    BY Zenon DEF IInv, Routes
  <1>1. UNCHANGED <<service, m_stored_objects, held, releasing, arriving, m_decrement_channel, lost,
                    engine, updates, rd_channel, writer, net, recvs, progress, sink, current, edge,
                    fatal, late>>
    BY Zenon DEF update_tagged_instances, objects, transport, pool
  <1>2. /\ Updatable(tags) /\ tagged_endpoints' = tags
        /\ gone' = gone \cup (tagged_endpoints \ tags)
        /\ IF tags = {} THEN m_next' = None ELSE m_next' \in tags
    BY Zenon DEF update_tagged_instances, Begin
  <1>3. updates = "on" /\ \A t \in tags : Known(t)
    BY <1>0, <1>2, UpdatableKnown, Zenon
  <1>4. \A t : Known(t)' <=> Known(t)
    BY <1>1, Zenon DEF Known
  <1>5. Placed' /\ (m_next' # None => m_next' \in tags)
    BY <1>1, <1>2 DEF Placed
  <1>6. \A t \in Tag : t \in tags \/ t = m_next' => Known(t)
    BY <1>3, <1>5, NextIsKnown, <1>0, Zenon
  <1>7. Members'
    BY <1>0, <1>1, <1>2, <1>4, <1>5, <1>6, Zenon DEF Members
  <1> QED
    BY <1>1, <1>4, <1>7, ControlStep, Zenon

\* An update throws and leaves the publisher with some of the endpoints.
LEMMA UpdateThrowsKeepsInv ==
  ASSUME IInv, Running, NEW tags \in SUBSET Tag, NEW f \in tags, UpdateThrows(tags, f)
  PROVE  IInv'
  <1>0. Members
    BY Zenon DEF IInv, Routes
  <1>1. UNCHANGED <<service, m_stored_objects, held, releasing, arriving, m_decrement_channel, lost,
                    engine, m_next, gone, rd_channel, writer, net, recvs, progress, sink, current,
                    edge, fatal, late>>
    BY Zenon DEF UpdateThrows, objects, transport, pool
  <1>2. Updatable(tags) /\ updates' = "failed" /\ tagged_endpoints' \subseteq tags
    BY Zenon DEF UpdateThrows
  <1>3. \A t \in tags : Known(t)
    BY <1>0, <1>2, UpdatableKnown, Zenon
  <1>4. \A t : Known(t)' <=> Known(t)
    BY <1>1, Zenon DEF Known
  <1>5. Placed'
    BY <1>0, <1>1, <1>2, Zenon DEF Members, Placed
  <1>6. Members'
    BY <1>0, <1>1, <1>2, <1>3, <1>4, <1>5 DEF Members
  <1> QED
    BY <1>1, <1>4, <1>6, ControlStep, Zenon

\* A subscriber gets its edge.
LEMMA SetupKeepsInv ==
  ASSUME IInv, Running, NEW t \in Tag, do_subscription_service_setup(t)
  PROVE  IInv'
  <1>0. Members
    BY Zenon DEF IInv, Routes
  <1>1. UNCHANGED <<service, m_stored_objects, held, releasing, arriving, m_decrement_channel, lost,
                    engine, subscribers, m_next, rd_channel, writer, net, recvs, progress, sink,
                    current, fatal, late>>
    BY Zenon DEF do_subscription_service_setup, objects, policy, transport, pool
  <1>2. edge[t] = "none" /\ edge' = [edge EXCEPT ![t] = "live"]
    BY Zenon DEF do_subscription_service_setup
  <1>3. \A u \in Tag : (Known(u) => Known(u)') /\ (edge'[u] = edge[u] \/ Known(u)')
    BY <1>0, <1>1, <1>2 DEF Members, Known
  <1>4. edge' \in [Tag -> {"none", "live", "torn", "released"}]
    BY <1>0, <1>2, Zenon DEF Members
  <1>5. Placed'
    BY <1>0, <1>1, Zenon DEF Members, Placed, subscribers
  <1>6. Members'
    BY <1>0, <1>1, <1>3, <1>4, <1>5, Zenon DEF Members, subscribers
  <1> QED
    BY <1>1, <1>3, <1>6, ControlStep, Zenon

\* A drop request tears down the services of a partition.
LEMMA TeardownKeepsInv ==
  ASSUME IInv, Running, NEW i \in Instance, NEW r \in Tag \cup {None},
         do_subscription_service_teardown(i, r)
  PROVE  IInv'
  <1>0. Members
    BY Zenon DEF IInv, Routes
  <1> DEFINE Down == {t \in Tag : home[t] = i /\ HasEdge(t)}
             Needed(t) == \/ t \in tagged_endpoints \cup {m_next}
                          \/ (updates' = "on" /\ t \notin gone')
                          \/ \E u \in UnderWay : u[3].tag = t
  <1>1. UNCHANGED <<service, m_stored_objects, held, releasing, arriving, m_decrement_channel, lost,
                    engine, tagged_endpoints, m_next, rd_channel, writer, net, recvs, progress, sink,
                    current, fatal>>
    BY Zenon DEF do_subscription_service_teardown, objects, transport, pool
  <1>2. /\ \/ r = None /\ updates \in {"on", "torn"}
           \/ home[r] = i /\ edge[r] \in {"live", "torn"}
        /\ updates' = IF r = None THEN "dropped" ELSE IF i = Pub /\ updates = "on" THEN "torn" ELSE updates
        /\ gone' = gone \cup ({r} \ {None})
        /\ edge' = [t \in Tag |-> IF t = r THEN "released" ELSE IF t \in Down THEN "torn" ELSE edge[t]]
        /\ late' = late \cup {t \in Down : Needed(t)}
    BY Zenon DEF do_subscription_service_teardown
  <1>3. None \notin Tag
    BY <1>0, NextIsKnown, Zenon
  <1>4. \A t \in Tag : t = r => home[t] = i /\ edge[t] \in {"live", "torn"}
    BY <1>2, <1>3, Zenon
  <1>5. \A t \in Tag : edge[t] = "live" /\ t \notin Down => edge'[t] = "live"
    BY <1>2, <1>4, Zenon DEF HasEdge
  <1>6. \A t \in Tag : Known(t) /\ Needed(t) => Known(t)'
    <2> SUFFICES ASSUME NEW t \in Tag, Known(t), Needed(t) PROVE Known(t)'
      BY Zenon
    <2>1. CASE t \in late
      BY <1>2, <2>1, Zenon DEF Known
    <2>2. CASE t \in Down
      <3>1. t \in late'
        <4> HIDE DEF Down, Needed
        <4> QED
          BY <1>2, <2>2, Zenon
      <3> QED
        BY <3>1, Zenon DEF Known
    <2>3. CASE edge[t] = "live" /\ t \notin Down
      BY <1>5, <2>3, Zenon DEF Known
    <2> QED
      BY <2>1, <2>2, <2>3, Zenon DEF Known
  <1>7. /\ updates = "failed" => updates' = "failed"
        /\ updates' = "on" => updates = "on"
    <2>1. Released \subseteq Tag
      BY <1>0, Zenon DEF Released, Members
    <2>2. r = None => updates # "failed"
      BY <1>3, <2>1, Zenon DEF do_subscription_service_teardown
    <2>3. CASE r = None
      BY <1>2, <2>2, <2>3, Zenon
    <2>4. CASE r # None
      BY <1>2, <2>4, Zenon
    <2> QED
      BY <2>3, <2>4, Zenon
  <1>8. \A t \in Tag : edge'[t] # "none" => edge[t] # "none"
    BY <1>2, <1>4, Zenon DEF HasEdge
  <1>9. edge' \in [Tag -> {"none", "live", "torn", "released"}]
    BY <1>0, <1>2, Zenon DEF Members
  <1>10. Placed'
    BY <1>0, <1>1, <1>7, Zenon DEF Members, Placed
  <1>11. \A t \in Tag : t \in tagged_endpoints \/ t = m_next => Known(t)'
    BY <1>0, <1>6, Zenon DEF Members
  <1>12. updates' = "on" => \A t \in Tag : edge'[t] # "none" /\ t \notin gone' => Known(t)'
    <2> SUFFICES ASSUME updates' = "on", NEW t \in Tag, edge'[t] # "none", t \notin gone'
                 PROVE  Known(t)'
      BY Zenon
    <2>1. t \notin gone
      BY <1>2, Zenon
    <2>2. Known(t)
      BY <1>0, <1>7, <1>8, <2>1, Zenon DEF Members
    <2> QED
      BY <1>6, <2>2, Zenon
  <1>g. gone' \in SUBSET Tag
    BY <1>0, <1>2, Zenon DEF Members
  <1>13. Members'
    BY <1>0, <1>1, <1>g, <1>9, <1>10, <1>11, <1>12, Zenon DEF Members
  <1> QED
    BY <1>1, <1>6, <1>13, ControlStep, Zenon

\* The policy engine writes the message it waits with.
LEMMA OnNextKeepsInv ==
  ASSUME IInv, Running, on_next
  PROVE  IInv'
  <1>0. /\ Objects /\ Policy /\ Writers /\ Servers /\ Routes /\ NoRepeats /\ Apart /\ Backed
        /\ Somewhere /\ Stops /\ Ends
    BY Zenon DEF IInv, Types, Carriers
  <1>1. UNCHANGED <<service, m_stored_objects, held, releasing, arriving, m_decrement_channel,
                    lost, published, subscribers, writer, net, recvs, progress, sink,
                    current, m_remaining, edge, late>>
    BY Zenon DEF on_next, objects, pool
  <1>2. /\ engine.pc = "write" /\ rd_channel' = Append(rd_channel, engine.msg)
        /\ engine' = [pc |-> "read", msg |-> <<>>] /\ Increment
    BY Zenon DEF on_next
  <1>a. engine.msg \in Message /\ Append(rd_channel, engine.msg) \in Seq(Message)
        /\ rd_channel' \in Seq(Message)
    BY <1>0, <1>2 DEF Policy
  <1>b. engine.msg.rd \notin Rds(rd_channel)
    <2>1. <<"engine", None>> \in Place /\ <<"channel", None>> \in Place
      BY Zenon DEF Place
    <2>2. engine.msg.rd \in At(<<"engine", None>>) /\ <<"engine", None>> # <<"channel", None>>
      BY <1>2, AtEngine, Zenon
    <2>3. engine.msg.rd \notin At(<<"channel", None>>)
      BY <1>0, <2>1, <2>2 DEF Apart
    <2> QED
      BY <2>3, AtChannel, Zenon
  <1>c. /\ Once(Append(rd_channel, engine.msg))
        /\ Rds(Append(rd_channel, engine.msg)) = Rds(rd_channel) \cup {engine.msg.rd}
    BY <1>0, <1>a, <1>b, AppendRds, Zenon DEF NoRepeats, Policy
  <1>d. Members' /\ Ends'
    BY <1>0, <1>1, <1>2, IncrementKeeps, Zenon DEF Routes
  <1>3. Objects' /\ Writers' /\ Servers'
    BY <1>0, <1>1, Kept, Zenon
  <1>4. Policy'
    <2>1. engine' \in [pc : {"read", "write", "done"}, msg : Message \cup {<<>>}]
      BY <1>2, Zenon
    <2>2. engine'.pc # "write"
      BY <1>2, ZenonT(30)
    <2> QED
      BY <1>0, <1>a, <2>1, <2>2, Zenon DEF Policy
  <1>5. Routes'
    <2>1. engine'.pc # "write"
      BY <1>2, Zenon
    <2>2. \A k \in DOMAIN rd_channel' : Known(rd_channel'[k].tag)
      <3> SUFFICES ASSUME NEW k \in DOMAIN rd_channel' PROVE Known(rd_channel'[k].tag)
        BY Zenon
      <3>1. \/ k \in DOMAIN rd_channel /\ rd_channel'[k] = rd_channel[k]
            \/ rd_channel'[k] = engine.msg
        BY <1>0, <1>2, <1>a, TailAndAppend DEF Policy
      <3> QED
        BY <1>0, <1>2, <3>1, Zenon DEF Routes
    <2> QED
      BY <1>0, <1>1, <1>d, <2>1, <2>2, Zenon DEF Routes, Known
  <1>6. NoRepeats'
    BY <1>0, <1>1, <1>2, <1>c, Zenon DEF NoRepeats
  <1>7. Apart' /\ Backed' /\ Somewhere'
    <2>1. /\ <<"engine", None>> \in Place /\ <<"channel", None>> \in Place
          /\ <<"engine", None>> # <<"channel", None>>
      BY Zenon DEF Place
    <2>2. Stored' = Stored
      BY <1>1, Zenon DEF Stored
    <2>3. engine.msg.rd \in At(<<"engine", None>>)
      BY <1>2, AtEngine, Zenon
    <2>4. At(<<"engine", None>>)' = At(<<"engine", None>>) \ {engine.msg.rd}
      BY <1>2, AtEngine, Zenon
    <2>5. At(<<"channel", None>>)' = At(<<"channel", None>>) \cup {engine.msg.rd}
      BY <1>2, <1>c, AtChannel, Zenon
    <2>6. \A p \in Place : p # <<"engine", None>> /\ p # <<"channel", None>> => At(p)' = At(p)
      <3> SUFFICES ASSUME NEW p \in Place, p # <<"engine", None>>, p # <<"channel", None>>
                   PROVE  At(p)' = At(p)
        BY Zenon
      <3>1. /\ Kind(p) \in {"held", "releasing", "arriving", "decrement", "waiting", "received",
                          "net"} => Index(p) \in Instance
            /\ Kind(p) = "writer" => Index(p) \in Fiber
            /\ Kind(p) = "sink" => Index(p) \in Tag
            /\ Kind(p) \in {"engine", "channel", "lost"} => Index(p) = None
        BY PlaceKinds, Zenon
      <3>2. Kind(p) # "engine" /\ Kind(p) # "channel"
        BY <3>1, OtherPlace, Zenon
      <3>3. Kind(p) = "engine" =>
             \/ engine' = engine
             \/ engine.pc # "write" /\ engine'.pc # "write"
        BY <3>1, <3>2, <1>2, Zenon
      <3>4. Kind(p) = "channel" => rd_channel' = rd_channel
        BY <3>1, <3>2, <1>2, Zenon
      <3> QED
        BY <1>1, <3>3, <3>4, AtKept, Zenon
    <2> QED
      BY <1>0, <2>1, <2>2, <2>3, <2>4, <2>5, <2>6, Move, Zenon
  <1>8. Stops'
    BY <1>0, <1>1, <1>2, Zenon DEF Stops
  <1> QED
    BY <1>3, <1>4, <1>5, <1>6, <1>7, <1>8, <1>d, SMTT(30) DEF IInv, Types, Carriers

\* The policy engine takes an object.
LEMMA ApplyPolicyKeepsInv ==
  ASSUME IInv, Running, apply_policy
  PROVE  IInv'
  <1>0. /\ Objects /\ Policy /\ Writers /\ Servers /\ Routes /\ NoRepeats /\ Apart /\ Backed
        /\ Somewhere /\ Stops /\ Ends
    BY Zenon DEF IInv, Types, Carriers
  <1>1. UNCHANGED <<service, held, releasing, arriving, m_decrement_channel, lost,
                    subscribers, writer, net, recvs, progress, sink, current, m_remaining,
                    edge, late>>
    BY Zenon DEF apply_policy, pool
  <1>2. /\ engine.pc = "read" /\ m_stored_objects[Pub] # Address
        /\ m_stored_objects' = [m_stored_objects EXCEPT ![Pub] = @ \cup {NewAddress(Pub)}]
        /\ \/ /\ m_next = None \/ Dangling
              /\ fatal' = "policy" /\ UNCHANGED <<engine, m_next, rd_channel>>
           \/ /\ m_next # None /\ rd_channel' = Append(rd_channel, Published)
              /\ Increment /\ UNCHANGED engine
           \/ /\ m_next # None /\ engine' = [pc |-> "write", msg |-> Published]
              /\ UNCHANGED <<m_next, rd_channel, fatal>>
    BY Zenon DEF apply_policy, Published, Of, Fail
  <1>f. Pub \in Instance
    BY DataPathAssumption, Zenon
  <1>a. NewAddress(Pub) \in Address /\ NewAddress(Pub) \notin m_stored_objects[Pub]
    BY <1>0, <1>2, <1>f, NewAddressIsFree, Zenon
  <1>b. m_next # None => Published \in Message
    BY <1>0, <1>a, <1>f, NextIsKnown, Zenon DEF Published, Message, Of, Descriptor, Routes
  <1>e. Stored' = Stored \cup {Published.rd} /\ Published.rd \notin Stored
    BY <1>0, <1>2, <1>a, <1>f, StoredChanges, Zenon DEF Published, Of
  <1>c. Published.rd \notin Rds(rd_channel)
    <2>1. <<"channel", None>> \in Place
      BY ZenonT(30) DEF Place
    <2> QED
      BY <1>0, <1>e, <2>1, AtChannel, Zenon DEF Backed
  <1>d. m_next # None => /\ Once(Append(rd_channel, Published))
                         /\ Rds(Append(rd_channel, Published)) = Rds(rd_channel) \cup {Published.rd}
    BY <1>0, <1>b, <1>c, AppendRds, Zenon DEF NoRepeats, Policy
  <1>3. Objects'
    BY <1>0, <1>1, <1>2, <1>a, Zenon DEF Objects
  <1>4. Policy'
    <2>1. CASE UNCHANGED <<engine, rd_channel>>
      BY <1>0, <2>1, Kept, Zenon
    <2>2. CASE m_next # None /\ rd_channel' = Append(rd_channel, Published) /\ UNCHANGED engine
      <3>1. rd_channel' \in Seq(Message)
        BY <1>0, <1>b, <2>2 DEF Policy
      <3> QED
        BY <1>0, <2>2, <3>1, Zenon DEF Policy
    <2>3. CASE /\ m_next # None /\ engine' = [pc |-> "write", msg |-> Published]
              /\ UNCHANGED rd_channel
      BY <1>0, <1>b, <2>3, Zenon DEF Policy
    <2> QED
      BY <1>2, <2>1, <2>2, <2>3, Zenon
  <1>m. Members' /\ Ends'
    <2>0. Members
      BY <1>0, Zenon DEF Routes
    <2>1. CASE (m_next = None \/ Dangling) /\ fatal' = "policy" /\ UNCHANGED m_next
      <3>1. UNCHANGED <<tagged_endpoints, updates>>
        BY <1>1, Zenon DEF subscribers
      <3>2. tagged_endpoints = {} \/ updates = "failed"
        BY <2>0, <2>1, UnplacedIs, Zenon
      <3> QED
        BY <1>0, <1>1, <2>1, <3>1, <3>2, Kept DEF Ends
    <2>2. CASE Increment
      BY <1>1, <2>0, <2>2, IncrementKeeps, Zenon
    <2>3. CASE UNCHANGED <<m_next, fatal>>
      BY <1>0, <1>1, <2>3, Kept, Zenon
    <2> QED
      BY <1>2, <2>1, <2>2, <2>3, Zenon
  <1>5. Writers' /\ Servers'
    BY <1>0, <1>1, Kept, ZenonT(30)
  <1>6. Routes'
    <2>1. m_next # None => Known(m_next)
      BY <1>0, NextIsKnown, Zenon DEF Routes
    <2>2. \A k \in DOMAIN rd_channel' : Known(rd_channel'[k].tag)
      <3> SUFFICES ASSUME NEW k \in DOMAIN rd_channel' PROVE Known(rd_channel'[k].tag)
        BY Zenon
      <3>1. CASE rd_channel' = rd_channel
        BY <1>0, <3>1, ZenonT(30) DEF Routes
      <3>2. CASE m_next # None /\ rd_channel' = Append(rd_channel, Published)
        <4>1. \/ k \in DOMAIN rd_channel /\ rd_channel'[k] = rd_channel[k]
              \/ rd_channel'[k] = Published
          BY <1>0, <1>b, <3>2, TailAndAppend DEF Policy
        <4>2. Published.tag = m_next
          BY Zenon DEF Published
        <4> QED
          BY <1>0, <2>1, <3>2, <4>1, <4>2, SMTT(30) DEF Routes
      <3> QED
        BY <1>2, <3>1, <3>2, Zenon
    <2>3. engine'.pc = "write" => Known(engine'.msg.tag)
      <3>1. engine' = engine \/ (m_next # None /\ engine'.msg = Published)
        BY <1>2
      <3>2. Published.tag = m_next
        BY Zenon DEF Published
      <3> QED
        BY <1>0, <2>1, <3>1, <3>2, Zenon DEF Routes
    <2> QED
      BY <1>0, <1>1, <1>m, <2>2, <2>3, Zenon DEF Routes, Known
  <1>7. NoRepeats'
    BY <1>0, <1>1, <1>2, <1>d, Zenon DEF NoRepeats
  <1>8. Apart' /\ Backed' /\ Somewhere'
    <2>1. CASE fatal' = "policy" /\ UNCHANGED <<engine, rd_channel>>
      <3>1. \A p \in Place : At(p)' = At(p)
        BY <1>1, <2>1, AtKept
      <3>2. Stored \subseteq Stored'
        BY <1>e, Zenon
      <3> QED
        BY <1>0, <2>1, <3>1, <3>2, Perish, Zenon DEF Running
    <2>2. CASE m_next # None /\ rd_channel' = Append(rd_channel, Published) /\ UNCHANGED engine
      <3>1. <<"channel", None>> \in Place
        BY Zenon DEF Place
      <3>2. At(<<"channel", None>>)' = At(<<"channel", None>>) \cup {Published.rd}
        BY <1>d, <2>2, AtChannel, ZenonT(30)
      <3>3. \A p \in Place : p # <<"channel", None>> => At(p)' = At(p)
        <4> SUFFICES ASSUME NEW p \in Place, p # <<"channel", None>>
                     PROVE  At(p)' = At(p)
          BY Zenon
        <4>1. /\ Kind(p) \in {"held", "releasing", "arriving", "decrement", "waiting", "received",
                            "net"} => Index(p) \in Instance
              /\ Kind(p) = "writer" => Index(p) \in Fiber
              /\ Kind(p) = "sink" => Index(p) \in Tag
              /\ Kind(p) \in {"engine", "channel", "lost"} => Index(p) = None
          BY PlaceKinds, Zenon
        <4>2. Kind(p) # "channel"
          BY <4>1, OtherPlace, Zenon
        <4>3. Kind(p) = "channel" => rd_channel' = rd_channel
          BY <4>1, <4>2, <2>2
        <4> QED
          BY <1>1, <4>3, <2>2, AtKept
      <3> QED
        BY <1>0, <1>c, <1>e, <3>1, <3>2, <3>3, Enter, SMTT(30)
    <2>3. CASE engine' = [pc |-> "write", msg |-> Published] /\ UNCHANGED <<rd_channel, fatal>>
      <3>1. <<"engine", None>> \in Place
        BY DEF Place
      <3>2. At(<<"engine", None>>)' = At(<<"engine", None>>) \cup {Published.rd}
        BY <1>2, <2>3, AtEngine, ZenonT(30)
      <3>3. \A p \in Place : p # <<"engine", None>> => At(p)' = At(p)
        <4> SUFFICES ASSUME NEW p \in Place, p # <<"engine", None>>
                     PROVE  At(p)' = At(p)
          BY Zenon
        <4>1. /\ Kind(p) \in {"held", "releasing", "arriving", "decrement", "waiting", "received",
                            "net"} => Index(p) \in Instance
              /\ Kind(p) = "writer" => Index(p) \in Fiber
              /\ Kind(p) = "sink" => Index(p) \in Tag
              /\ Kind(p) \in {"engine", "channel", "lost"} => Index(p) = None
          BY PlaceKinds, Zenon
        <4>2. Kind(p) # "engine"
          BY <4>1, OtherPlace, Zenon
        <4>3. Kind(p) = "engine" =>
               \/ engine' = engine
               \/ engine.pc # "write" /\ engine'.pc # "write"
          BY <4>1, <4>2, <2>3, Zenon
        <4> QED
          BY <1>1, <4>3, <2>3, AtKept
      <3> QED
        BY <1>0, <1>c, <1>e, <3>1, <3>2, <3>3, Enter
    <2> QED
      BY <1>2, <2>1, <2>2, <2>3, Zenon
  <1>9. Stops'
    BY <1>0, <1>1, <1>2, <1>f, ZenonT(30) DEF Stops, Objects
  <1> QED
    BY <1>3, <1>4, <1>5, <1>6, <1>7, <1>8, <1>9, <1>m, SMTT(30) DEF IInv, Types, Carriers

-----------------------------------------------------------------------------
(* The steps of the writers and the servers                                *)

\* A fiber of rd_writer takes a message.
LEMMA IssueKeepsInv ==
  ASSUME IInv, Running, NEW f \in Fiber, issue_remote_descriptor(f)
  PROVE  IInv'
  <1>0. /\ Objects /\ Policy /\ Writers /\ Servers /\ Routes /\ NoRepeats /\ Apart /\ Backed
        /\ Somewhere /\ Stops /\ Ends
    BY Zenon DEF IInv, Types, Carriers
  <1>1. UNCHANGED <<service, m_stored_objects, held, releasing, arriving, m_decrement_channel,
                    lost, published, engine, subscribers, m_next, net, recvs, progress, sink,
                    current, edge, fatal, late>>
    BY Zenon DEF issue_remote_descriptor, TakeRoom, objects, policy, pool
  <1>2. /\ writer[f].pc = "idle" /\ rd_channel # <<>> /\ rd_channel' = Tail(rd_channel)
        /\ \/ writer' = [writer EXCEPT ![f] = [pc |-> "send", msg |-> Head(rd_channel),
                                               block |-> current[Pub]]]
           \/ writer' = [writer EXCEPT ![f] = [pc |-> "pop", msg |-> Head(rd_channel), block |-> None]]
    BY Zenon DEF issue_remote_descriptor
  <1>a. Head(rd_channel) \in Message /\ Tail(rd_channel) \in Seq(Message)
    BY <1>0, <1>2, TailAndAppend, Zenon DEF Policy
  <1>b. /\ Head(rd_channel).rd \in Rds(rd_channel) /\ Once(Tail(rd_channel))
        /\ Rds(Tail(rd_channel)) = Rds(rd_channel) \ {Head(rd_channel).rd}
    BY <1>0, <1>2, TailRds, ZenonT(30) DEF NoRepeats, Policy
  <1>c. /\ writer'[f].pc \in {"pop", "send"} /\ writer'[f].msg = Head(rd_channel)
        /\ \A g \in Fiber : g # f => writer'[g] = writer[g]
    BY <1>0, <1>2 DEF Writers
  <1>3. Objects' /\ Servers' /\ Stops' /\ Ends'
    BY <1>0, <1>1, Kept, Zenon
  <1>4. Policy'
    BY <1>0, <1>1, <1>2, <1>a, Zenon DEF Policy
  <1>5. Writers'
    <2>1. [pc |-> "pop", msg |-> Head(rd_channel), block |-> None] \in Job
      BY <1>a, Zenon DEF Job, None
    <2>2. [pc |-> "send", msg |-> Head(rd_channel), block |-> current[Pub]] \in Job
      BY <1>0, <1>a, DataPathAssumption, Zenon DEF Job, Servers
    <2>3. writer' \in [Fiber -> Job]
      BY <1>0, <1>2, <2>1, <2>2, Zenon DEF Writers
    <2> QED
      BY <1>0, <1>a, <1>c, <2>3, Zenon DEF Writers
  <1>6. Routes'
    <2>0. rd_channel \in Seq(Message)
      BY <1>0, Zenon DEF Policy
    <2>1. \A k \in DOMAIN rd_channel' : Known(rd_channel'[k].tag)
      <3>1. \A k \in DOMAIN Tail(rd_channel) :
              k + 1 \in DOMAIN rd_channel /\ Tail(rd_channel)[k] = rd_channel[k + 1]
        BY <1>2, <2>0, TailAndAppend, Zenon
      <3> QED
        BY <1>0, <1>2, <3>1, Zenon DEF Routes
    <2>2. Known(Head(rd_channel).tag)
      <3>1. Head(rd_channel) = rd_channel[1] /\ 1 \in DOMAIN rd_channel
        BY <1>2, <2>0, TailAndAppend, Zenon
      <3> QED
        BY <1>0, <3>1, Zenon DEF Routes
    <2>3. \A g \in Fiber : writer'[g].pc # "idle" => Known(writer'[g].msg.tag)
      BY <1>0, <1>c, <2>2, Zenon DEF Routes
    <2>m. Members'
      BY <1>0, <1>1, Kept, Zenon
    <2> QED
      BY <2>m, <1>0, <1>1, <2>1, <2>3, ZenonT(30) DEF Routes, Known
  <1>7. NoRepeats'
    BY <1>0, <1>1, <1>2, <1>b, Zenon DEF NoRepeats
  <1>8. Apart' /\ Backed' /\ Somewhere'
    <2>1. /\ <<"channel", None>> \in Place /\ <<"writer", f>> \in Place
          /\ <<"channel", None>> # <<"writer", f>>
      BY Zenon DEF Place
    <2>2. Stored' = Stored
      BY <1>1, Zenon DEF Stored
    <2>3. Head(rd_channel).rd \in At(<<"channel", None>>)
      BY <1>b, AtChannel, Zenon
    <2>4. At(<<"channel", None>>)' = At(<<"channel", None>>) \ {Head(rd_channel).rd}
      BY <1>2, <1>b, AtChannel, Zenon
    <2>5. At(<<"writer", f>>)' = At(<<"writer", f>>) \cup {Head(rd_channel).rd}
      BY <1>2, <1>c, AtWriter, Zenon
    <2>6. \A p \in Place : p # <<"channel", None>> /\ p # <<"writer", f>> => At(p)' = At(p)
      <3> SUFFICES ASSUME NEW p \in Place, p # <<"channel", None>>, p # <<"writer", f>>
                   PROVE  At(p)' = At(p)
        BY Zenon
      <3>1. /\ Kind(p) \in {"held", "releasing", "arriving", "decrement", "waiting", "received",
                          "net"} => Index(p) \in Instance
            /\ Kind(p) = "writer" => Index(p) \in Fiber
            /\ Kind(p) = "sink" => Index(p) \in Tag
            /\ Kind(p) \in {"engine", "channel", "lost"} => Index(p) = None
        BY PlaceKinds, Zenon
      <3>2. Kind(p) # "channel" /\ (Kind(p) = "writer" => Index(p) # f)
        BY <3>1, OtherPlace, Zenon
      <3>3. Kind(p) = "channel" => rd_channel' = rd_channel
        BY <3>1, <3>2, <1>2, <1>c, Zenon
      <3>4. Kind(p) = "writer" =>
             \/ writer'[Index(p)] = writer[Index(p)]
             \/ /\ writer[Index(p)].pc # "idle" /\ writer'[Index(p)].pc # "idle"
                /\ writer'[Index(p)].msg = writer[Index(p)].msg
        BY <3>1, <3>2, <1>2, <1>c, Zenon
      <3> QED
        BY <1>1, <3>3, <3>4, AtKept, Zenon
    <2> QED
      BY <1>0, <2>1, <2>2, <2>3, <2>4, <2>5, <2>6, Move, Zenon
  <1> QED
    BY <1>3, <1>4, <1>5, <1>6, <1>7, <1>8, Zenon DEF IInv, Types, Carriers

\* ... gets a block for its buffer.
LEMMA SendAwaitKeepsInv ==
  ASSUME IInv, Running, NEW f \in Fiber, send_await_item(f)
  PROVE  IInv'
  <1>0. /\ Objects /\ Policy /\ Writers /\ Servers /\ Routes /\ NoRepeats /\ Apart /\ Backed
        /\ Somewhere /\ Stops /\ Ends
    BY Zenon DEF IInv, Types, Carriers
  <1>1. UNCHANGED <<service, m_stored_objects, held, releasing, arriving, m_decrement_channel,
                    lost, published, engine, subscribers, m_next, rd_channel, net, recvs,
                    progress, sink, edge, fatal, late>>
    BY Zenon DEF send_await_item, objects, policy
  <1>2. /\ writer[f].pc = "pop" /\ PopBlock(Pub)
        /\ writer' = [writer EXCEPT ![f].pc = "send", ![f].block = current'[Pub]]
    BY Zenon DEF send_await_item
  <1>a. current' \in [Instance -> Nat]
    BY <1>0, <1>2, DataPathAssumption, PopBlockIs, Zenon
  <1>b. writer' \in [Fiber -> Job]
    <2>1. writer[f] \in Job /\ current'[Pub] \in Nat
      BY <1>0, <1>a, DataPathAssumption, Zenon DEF Writers
    <2>2. [writer[f] EXCEPT !.pc = "send", !.block = current'[Pub]] \in Job
      BY <2>1, Zenon DEF Job
    <2>3. writer' = [writer EXCEPT ![f] = [writer[f] EXCEPT !.pc = "send", !.block = current'[Pub]]]
      BY <1>0, <1>2, Zenon DEF Writers, Job
    <2> QED
      BY <1>0, <2>2, <2>3, Zenon DEF Writers
  <1>c. writer'[f].pc = "send" /\ writer'[f].msg = writer[f].msg
    BY <1>0, <1>2, Zenon DEF Writers, Job
  <1>d. \A g \in Fiber : g # f => writer'[g] = writer[g]
    BY <1>0, <1>2, Zenon DEF Writers
  <1>3. Objects' /\ Policy' /\ NoRepeats' /\ Stops' /\ Ends'
    BY <1>0, <1>1, Kept, Zenon
  <1>4. Writers'
    BY <1>0, <1>2, <1>b, <1>c, <1>d, Zenon DEF Writers
  <1>5. Servers'
    BY <1>0, <1>1, <1>a, Zenon DEF Servers
  <1>6. Routes'
    <2>1. \A g \in Fiber : writer'[g].pc # "idle" => Known(writer'[g].msg.tag)
      BY <1>0, <1>2, <1>c, <1>d, Zenon DEF Routes
    <2>m. Members'
      BY <1>0, <1>1, Kept, Zenon
    <2> QED
      BY <2>m, <1>0, <1>1, <2>1, Zenon DEF Routes, Known
  <1>7. Apart' /\ Backed' /\ Somewhere'
    <2>1. Stored' = Stored
      BY <1>1, Zenon DEF Stored
    <2>2. \A p \in Place : At(p)' = At(p)
      <3> SUFFICES ASSUME NEW p \in Place PROVE At(p)' = At(p)
        BY Zenon
      <3>1. Kind(p) = "writer" => Index(p) \in Fiber
        BY PlaceKinds, Zenon
      <3>2. Kind(p) = "writer" => \/ writer'[Index(p)] = writer[Index(p)]
                                  \/ /\ writer[Index(p)].pc # "idle" /\ writer'[Index(p)].pc # "idle"
                                     /\ writer'[Index(p)].msg = writer[Index(p)].msg
        BY <1>2, <1>c, <1>d, <3>1, Zenon
      <3> QED
        BY <1>1, <3>2, AtKept, Zenon
    <2> QED
      BY <1>0, <2>1, <2>2, Stay, Zenon
  <1> QED
    BY <1>3, <1>4, <1>5, <1>6, <1>7, Zenon DEF IInv, Types, Carriers

\* ... sends, and is idle again.
LEMMA AsyncSendKeepsInv ==
  ASSUME IInv, Running, NEW f \in Fiber, async_send(f)
  PROVE  IInv'
  <1>0. /\ Objects /\ Policy /\ Writers /\ Servers /\ Routes /\ NoRepeats /\ Apart /\ Backed
        /\ Somewhere /\ Stops /\ Ends
    BY Zenon DEF IInv, Types, Carriers
  <1>1. UNCHANGED <<service, m_stored_objects, held, releasing, arriving, m_decrement_channel,
                    lost, published, engine, subscribers, m_next, rd_channel, recvs,
                    progress, sink, current, m_remaining, edge, fatal, late>>
    BY Zenon DEF async_send, objects, policy, pool
  <1>2. /\ writer[f].pc = "send" /\ writer' = [writer EXCEPT ![f] = Idle]
        /\ net' = [net EXCEPT ![home[writer[f].msg.tag]] = Append(@, writer[f].msg)]
    BY Zenon DEF async_send
  <1>p. PICK m \in Message, j \in Instance : m = writer[f].msg /\ j = home[m.tag]
    <2>1. writer[f].msg \in Message
      BY <1>0, <1>2, Zenon DEF Writers
    <2>2. home[writer[f].msg.tag] \in Instance
      BY <2>1, DataPathAssumption, Zenon DEF Message
    <2> QED
      BY <2>1, <2>2, Zenon
  <1>q. net' = [net EXCEPT ![j] = Append(@, m)]
    BY <1>2, <1>p, Zenon
  <1>a. Append(net[j], m) \in Seq(Message)
    BY <1>0 DEF Servers
  <1>b. m.rd \notin Rds(net[j])
    <2>1. <<"writer", f>> \in Place /\ <<"net", j>> \in Place
      BY Zenon DEF Place
    <2>2. m.rd \in At(<<"writer", f>>)
      BY <1>2, <1>p, AtWriter, Zenon
    <2>3. <<"writer", f>> # <<"net", j>>
      BY Zenon
    <2>4. m.rd \notin At(<<"net", j>>)
      BY <1>0, <2>1, <2>2, <2>3, Zenon DEF Apart
    <2> QED
      BY <2>4, AtNet, Zenon
  <1>c. /\ Once(Append(net[j], m))
        /\ Rds(Append(net[j], m))
             = Rds(net[j]) \cup {m.rd}
    BY <1>0, <1>a, <1>b, AppendRds, Zenon DEF NoRepeats, Servers
  <1>d. writer'[f] = Idle /\ \A g \in Fiber : g # f => writer'[g] = writer[g]
    BY <1>0, <1>2, Zenon DEF Writers
  <1>e. \A x \in Instance : x # j => net'[x] = net[x]
    BY <1>0, <1>q, Zenon DEF Servers
  <1>3. Objects' /\ Policy' /\ Stops' /\ Ends'
    BY <1>0, <1>1, Kept, Zenon
  <1>4. Writers'
    <2>1. Idle \in Job
      BY Zenon DEF Job, Idle, None
    <2>2. writer' \in [Fiber -> Job]
      BY <1>0, <1>2, <2>1, Zenon DEF Writers
    <2> QED
      BY <1>0, <1>d, <2>2 DEF Writers, Idle
  <1>5. Servers'
    BY <1>0, <1>1, <1>q, <1>a, Zenon DEF Servers
  <1>6. Routes'
    <2>1. \A g \in Fiber : writer'[g].pc # "idle" => Known(writer'[g].msg.tag)
      BY <1>0, <1>d, IdleIs, Zenon DEF Routes
    <2>2. \A i \in Instance : \A k \in DOMAIN net'[i] : Known(net'[i][k].tag)
      <3> SUFFICES ASSUME NEW i \in Instance, NEW k \in DOMAIN net'[i] PROVE Known(net'[i][k].tag)
        BY Zenon
      <3>1. \/ k \in DOMAIN net[i] /\ net'[i][k] = net[i][k]
            \/ net'[i][k] = m
        <4>1. CASE i = j
          <5>1. net'[i] = Append(net[i], m) /\ net[i] \in Seq(Message)
            BY <1>0, <1>q, <4>1, Zenon DEF Servers
          <5>2. m \in Message /\ k \in DOMAIN Append(net[i], m)
            BY <1>a, <5>1, Zenon
          <5>3. \/ k \in DOMAIN net[i] /\ Append(net[i], m)[k] = net[i][k]
                \/ Append(net[i], m)[k] = m
            BY <5>1, <5>2, AppendAt, Zenon
          <5> QED
            BY <5>1, <5>3, Zenon
        <4>2. CASE i # j
          BY <1>e, <4>2, Zenon
        <4> QED
          BY <4>1, <4>2, Zenon
      <3> QED
        BY <1>0, <1>2, <1>p, <3>1, Zenon DEF Routes
    <2>m. Members'
      BY <1>0, <1>1, Kept, Zenon
    <2> QED
      BY <2>m, <1>0, <1>1, <2>1, <2>2, Zenon DEF Routes, Known
  <1>7. NoRepeats'
    BY <1>0, <1>1, <1>q, <1>c, <1>e, Zenon DEF NoRepeats, Servers
  <1>8. Apart' /\ Backed' /\ Somewhere'
    <2>1. /\ <<"writer", f>> \in Place /\ <<"net", j>> \in Place
          /\ <<"writer", f>> # <<"net", j>>
      BY Zenon DEF Place
    <2>2. Stored' = Stored
      BY <1>1, Zenon DEF Stored
    <2>3. m.rd \in At(<<"writer", f>>)
      BY <1>2, <1>p, AtWriter, Zenon
    <2>4. At(<<"writer", f>>)' = At(<<"writer", f>>) \ {m.rd}
      <3>1. writer'[f].pc = "idle"
        BY <1>d, IdleIs, Zenon
      <3>2. At(<<"writer", f>>)' = {}
        BY <3>1, AtWriter, Zenon
      <3>3. At(<<"writer", f>>) = {m.rd}
        BY <1>2, <1>p, AtWriter, Zenon
      <3> QED
        BY <3>2, <3>3, Zenon
    <2>5. At(<<"net", j>>)' = At(<<"net", j>>) \cup {m.rd}
      BY <1>0, <1>q, <1>c, AtNet, Zenon DEF Servers
    <2>6. \A p \in Place : p # <<"writer", f>> /\ p # <<"net", j>> => At(p)' = At(p)
      <3> SUFFICES ASSUME NEW p \in Place, p # <<"writer", f>>, p # <<"net", j>>
                   PROVE  At(p)' = At(p)
        BY Zenon
      <3>1. /\ Kind(p) \in {"held", "releasing", "arriving", "decrement", "waiting", "received",
                          "net"} => Index(p) \in Instance
            /\ Kind(p) = "writer" => Index(p) \in Fiber
            /\ Kind(p) = "sink" => Index(p) \in Tag
            /\ Kind(p) \in {"engine", "channel", "lost"} => Index(p) = None
        BY PlaceKinds, Zenon
      <3>2. (Kind(p) = "writer" => Index(p) # f) /\ (Kind(p) = "net" => Index(p) # j)
        BY <3>1, OtherPlace, Zenon
      <3>3. Kind(p) = "writer" =>
             \/ writer'[Index(p)] = writer[Index(p)]
             \/ /\ writer[Index(p)].pc # "idle" /\ writer'[Index(p)].pc # "idle"
                /\ writer'[Index(p)].msg = writer[Index(p)].msg
        BY <3>1, <3>2, <1>d, <1>e, Zenon
      <3>4. Kind(p) = "net" => net'[Index(p)] = net[Index(p)]
        BY <3>1, <3>2, <1>d, <1>e, Zenon
      <3> QED
        BY <1>1, <3>3, <3>4, AtKept, Zenon
    <2> QED
      BY <1>0, <2>1, <2>2, <2>3, <2>4, <2>5, <2>6, Move, Zenon
  <1> QED
    BY <1>3, <1>4, <1>5, <1>6, <1>7, <1>8, Zenon DEF IInv, Types, Carriers

\* The network handler drops a buffer, and the descriptor with it.
LEMMA NetworkKeepsInv ==
  ASSUME IInv, Running, NEW t \in Tag, network_handler(t)
  PROVE  IInv'
  <1>0. /\ Objects /\ Policy /\ Writers /\ Servers /\ Routes /\ NoRepeats /\ Apart /\ Backed
        /\ Somewhere /\ Stops /\ Ends
    BY Zenon DEF IInv, Types, Carriers
  <1>1. UNCHANGED <<service, m_stored_objects, held, releasing, arriving, m_decrement_channel,
                    published, engine, subscribers, m_next, rd_channel, writer, net, recvs,
                    progress, current, m_remaining, edge, fatal, late>>
    BY Zenon DEF network_handler, objects, policy, pool
  <1>2. /\ sink[t] # <<>> /\ sink' = [sink EXCEPT ![t] = Tail(@)]
        /\ lost' = lost \cup {Head(sink[t]).msg.rd}
    BY Zenon DEF network_handler
  <1>a. Tail(sink[t]) \in Seq(Buffer) /\ Head(sink[t]).msg.rd \in Descriptor
    <2>1. Tail(sink[t]) \in Seq(Buffer) /\ Head(sink[t]) \in Buffer
      BY <1>0, <1>2, TailAndAppend, Zenon DEF Servers
    <2> QED
      BY <2>1, Zenon DEF Buffer, Message
  <1>b. /\ Head(sink[t]).msg.rd \in BufferRds(sink[t]) /\ OnceBuffer(Tail(sink[t]))
        /\ BufferRds(Tail(sink[t])) = BufferRds(sink[t]) \ {Head(sink[t]).msg.rd}
    BY <1>0, <1>2, TailBufferRds, Zenon DEF NoRepeats, Servers
  <1>c. \A x \in Tag : x # t => sink'[x] = sink[x]
    BY <1>0, <1>2, Zenon DEF Servers
  <1>3. Objects'
    BY <1>0, <1>1, <1>2, <1>a, Zenon DEF Objects
  <1>4. Policy' /\ Writers' /\ Routes' /\ Stops' /\ Ends'
    BY <1>0, <1>1, Kept, Zenon
  <1>5. Servers'
    BY <1>0, <1>1, <1>2, <1>a, Zenon DEF Servers
  <1>6. NoRepeats'
    BY <1>0, <1>1, <1>2, <1>b, <1>c, Zenon DEF NoRepeats, Servers
  <1>7. Apart' /\ Backed' /\ Somewhere'
    <2>1. /\ <<"sink", t>> \in Place /\ <<"lost", None>> \in Place
          /\ <<"sink", t>> # <<"lost", None>>
      BY Zenon DEF Place
    <2>2. Stored' = Stored
      BY <1>1, Zenon DEF Stored
    <2>3. Head(sink[t]).msg.rd \in At(<<"sink", t>>)
      BY <1>b, AtSink, Zenon
    <2>4. At(<<"sink", t>>)' = At(<<"sink", t>>) \ {Head(sink[t]).msg.rd}
      BY <1>0, <1>2, <1>b, AtSink, Zenon DEF Servers
    <2>5. At(<<"lost", None>>)' = At(<<"lost", None>>) \cup {Head(sink[t]).msg.rd}
      BY <1>2, AtLost, Zenon
    <2>6. \A p \in Place : p # <<"sink", t>> /\ p # <<"lost", None>> => At(p)' = At(p)
      <3> SUFFICES ASSUME NEW p \in Place, p # <<"sink", t>>, p # <<"lost", None>>
                   PROVE  At(p)' = At(p)
        BY Zenon
      <3>1. /\ Kind(p) \in {"held", "releasing", "arriving", "decrement", "waiting", "received",
                          "net"} => Index(p) \in Instance
            /\ Kind(p) = "writer" => Index(p) \in Fiber
            /\ Kind(p) = "sink" => Index(p) \in Tag
            /\ Kind(p) \in {"engine", "channel", "lost"} => Index(p) = None
        BY PlaceKinds, Zenon
      <3>2. (Kind(p) = "sink" => Index(p) # t) /\ Kind(p) # "lost"
        BY <3>1, OtherPlace, Zenon
      <3>3. Kind(p) = "sink" => sink'[Index(p)] = sink[Index(p)]
        BY <3>1, <3>2, <1>c, Zenon
      <3>4. Kind(p) = "lost" => lost' = lost
        BY <3>1, <3>2, <1>c, Zenon
      <3> QED
        BY <1>1, <3>3, <3>4, AtKept, Zenon
    <2> QED
      BY <1>0, <2>1, <2>2, <2>3, <2>4, <2>5, <2>6, Move, Zenon
  <1> QED
    BY <1>3, <1>4, <1>5, <1>6, <1>7, Zenon DEF IInv, Types, Carriers

\* The progress engine gets a block for the next receive.
LEMMA RecvAwaitItemKeepsInv ==
  ASSUME IInv, Running, NEW i \in Instance, recv_await_item(i)
  PROVE  IInv'
  <1>0. /\ Objects /\ Policy /\ Writers /\ Servers /\ Routes /\ NoRepeats /\ Apart /\ Backed
        /\ Somewhere /\ Stops /\ Ends
    BY Zenon DEF IInv, Types, Carriers
  <1>1. UNCHANGED <<service, m_stored_objects, held, releasing, arriving, m_decrement_channel,
                    lost, published, engine, subscribers, m_next, rd_channel, writer, net,
                    sink, edge, fatal, late>>
    BY Zenon DEF recv_await_item, objects, policy
  <1>2. /\ progress[i].pc = "pop" /\ PopBlock(i) /\ progress' = [progress EXCEPT ![i] = Idle]
        /\ recvs' = [recvs EXCEPT ![i] = Append(@, current'[i])]
    BY Zenon DEF recv_await_item
  <1>a. progress'[i].pc = "idle" /\ \A x \in Instance : x # i => progress'[x] = progress[x]
    BY <1>0, <1>2, Zenon DEF Servers, Idle
  <1>3. Objects' /\ Policy' /\ Writers' /\ Routes' /\ NoRepeats' /\ Stops' /\ Ends'
    BY <1>0, <1>1, Kept, Zenon
  <1>4. Servers'
    <2>1. Idle \in Job /\ Idle.pc = "idle"
      BY Zenon DEF Job, Idle, None
    <2>2. current' \in [Instance -> Nat]
      BY <1>0, <1>2, PopBlockIs, Zenon
    <2>3. Append(recvs[i], current'[i]) \in Seq(Nat)
      BY <1>0, <2>2 DEF Servers
    <2>4. recvs' \in [Instance -> Seq(Nat)]
      BY <1>0, <1>2, <2>3, Zenon DEF Servers
    <2>5. progress' \in [Instance -> Job]
      BY <1>0, <1>2, <2>1, Zenon DEF Servers
    <2> QED
      BY <1>0, <1>1, <1>a, <2>2, <2>4, <2>5, Zenon DEF Servers
  <1>5. Apart' /\ Backed' /\ Somewhere'
    <2>1. Stored' = Stored
      BY <1>1, Zenon DEF Stored
    <2>2. \A p \in Place : At(p)' = At(p)
      <3> SUFFICES ASSUME NEW p \in Place PROVE At(p)' = At(p)
        BY Zenon
      <3>1. Kind(p) \in {"waiting", "received"} => Index(p) \in Instance
        BY PlaceKinds, Zenon
      <3>2. Kind(p) = "waiting" => \/ progress'[Index(p)] = progress[Index(p)]
                                   \/ /\ progress[Index(p)].pc # "decrement"
                                      /\ progress'[Index(p)].pc # "decrement"
        BY <1>2, <1>a, <3>1, Zenon
      <3>3. Kind(p) = "received" => \/ progress'[Index(p)] = progress[Index(p)]
                                    \/ /\ progress[Index(p)].pc # "write"
                                       /\ progress'[Index(p)].pc # "write"
        BY <1>2, <1>a, <3>1, Zenon
      <3> QED
        BY <1>1, <3>2, <3>3, AtKept, Zenon
    <2> QED
      BY <1>0, <2>1, <2>2, Stay, Zenon
  <1> QED
    BY <1>3, <1>4, <1>5, Zenon DEF IInv, Types, Carriers

\* The progress engine writes the message it waits with.
LEMMA RecvAwaitWriteKeepsInv ==
  ASSUME IInv, Running, NEW i \in Instance, recv_await_write(i)
  PROVE  IInv'
  <1>0. /\ Objects /\ Policy /\ Writers /\ Servers /\ Routes /\ NoRepeats /\ Apart /\ Backed
        /\ Somewhere /\ Stops /\ Ends
    BY Zenon DEF IInv, Types, Carriers
  <1>1. UNCHANGED <<service, m_stored_objects, held, releasing, arriving, m_decrement_channel,
                    lost, published, engine, subscribers, m_next, rd_channel, writer, net,
                    current, edge, fatal, late>>
    BY Zenon DEF recv_await_write, pre_post_recv, TakeRoom, objects, policy, pool
  <1>2. /\ progress[i].pc = "write"
        /\ sink' = [sink EXCEPT ![progress[i].msg.tag] =
                      Append(@, [msg |-> progress[i].msg, block |-> progress[i].block])]
        /\ pre_post_recv(i, recvs[i], progress[i].block)
    BY Zenon DEF recv_await_write
  <1>a. PICK m \in Message, t \in Tag, b \in Nat :
           m = progress[i].msg /\ t = m.tag /\ b = progress[i].block
    <2>1. progress[i].msg \in Message /\ progress[i].block \in Nat
      BY <1>0, <1>2, Zenon DEF Servers, Job
    <2> QED
      BY <2>1, Zenon DEF Message
  <1>b. m.rd \notin BufferRds(sink[t])
    <2>1. <<"received", i>> \in Place /\ <<"sink", t>> \in Place /\ <<"received", i>> # <<"sink", t>>
      BY Zenon DEF Place
    <2>2. m.rd \in At(<<"received", i>>)
      BY <1>2, <1>a, AtReceived, Zenon
    <2>3. m.rd \notin At(<<"sink", t>>)
      BY <1>0, <2>1, <2>2, Zenon DEF Apart
    <2> QED
      BY <2>3, AtSink, Zenon
  <1>c. /\ sink' = [sink EXCEPT ![t] = Append(@, [msg |-> m, block |-> b])]
        /\ \A x \in Tag : x # t => sink'[x] = sink[x]
    BY <1>0, <1>2, <1>a, Zenon DEF Servers
  <1>d. /\ Append(sink[t], [msg |-> m, block |-> b]) \in Seq(Buffer)
        /\ OnceBuffer(Append(sink[t], [msg |-> m, block |-> b]))
        /\ BufferRds(Append(sink[t], [msg |-> m, block |-> b])) = BufferRds(sink[t]) \cup {m.rd}
    <2>1. [msg |-> m, block |-> b] \in Buffer /\ [msg |-> m, block |-> b].msg.rd = m.rd
      BY Zenon DEF Buffer
    <2>2. sink[t] \in Seq(Buffer) /\ OnceBuffer(sink[t])
      BY <1>0, Zenon DEF Servers, NoRepeats
    <2> QED
      BY <1>b, <2>1, <2>2, AppendBufferRds
  <1>e. /\ recvs' \in [Instance -> Seq(Nat)] /\ progress' \in [Instance -> Job]
        /\ progress'[i].pc \in {"idle", "pop"}
        /\ \A x \in Instance : x # i => progress'[x] = progress[x]
    <2>1. recvs[i] \in Seq(Nat)
      BY <1>0, Zenon DEF Servers
    <2> QED
      BY <1>0, <1>2, <1>a, <2>1, PrePostIs, Zenon
  <1>3. Objects' /\ Policy' /\ Writers' /\ Routes' /\ Stops' /\ Ends'
    BY <1>0, <1>1, Kept, Zenon
  <1>4. Servers'
    BY <1>0, <1>1, <1>c, <1>d, <1>e, Zenon DEF Servers
  <1>5. NoRepeats'
    BY <1>0, <1>1, <1>c, <1>d, Zenon DEF NoRepeats, Servers
  <1>6. Apart' /\ Backed' /\ Somewhere'
    <2>1. /\ <<"received", i>> \in Place /\ <<"sink", t>> \in Place
          /\ <<"received", i>> # <<"sink", t>>
      BY Zenon DEF Place
    <2>2. Stored' = Stored
      BY <1>1, Zenon DEF Stored
    <2>3. m.rd \in At(<<"received", i>>)
      BY <1>2, <1>a, AtReceived, Zenon
    <2>4. At(<<"received", i>>)' = At(<<"received", i>>) \ {m.rd}
      BY <1>2, <1>a, <1>e, AtReceived, Zenon
    <2>5. At(<<"sink", t>>)' = At(<<"sink", t>>) \cup {m.rd}
      BY <1>0, <1>c, <1>d, AtSink, Zenon DEF Servers
    <2>6. \A p \in Place : p # <<"received", i>> /\ p # <<"sink", t>> => At(p)' = At(p)
      <3> SUFFICES ASSUME NEW p \in Place, p # <<"received", i>>, p # <<"sink", t>>
                   PROVE  At(p)' = At(p)
        BY Zenon
      <3>1. /\ Kind(p) \in {"held", "releasing", "arriving", "decrement", "waiting", "received",
                          "net"} => Index(p) \in Instance
            /\ Kind(p) = "writer" => Index(p) \in Fiber
            /\ Kind(p) = "sink" => Index(p) \in Tag
            /\ Kind(p) \in {"engine", "channel", "lost"} => Index(p) = None
        BY PlaceKinds, Zenon
      <3>2. (Kind(p) = "received" => Index(p) # i) /\ (Kind(p) = "sink" => Index(p) # t)
        BY <3>1, OtherPlace, Zenon
      <3>3. Kind(p) = "received" =>
             \/ progress'[Index(p)] = progress[Index(p)]
             \/ progress[Index(p)].pc # "write" /\ progress'[Index(p)].pc # "write"
        BY <3>1, <3>2, <1>2, <1>c, <1>e, Zenon
      <3>4. Kind(p) = "waiting" =>
             \/ progress'[Index(p)] = progress[Index(p)]
             \/ progress[Index(p)].pc # "decrement" /\ progress'[Index(p)].pc # "decrement"
        BY <3>1, <3>2, <1>2, <1>c, <1>e, Zenon
      <3>5. Kind(p) = "sink" => sink'[Index(p)] = sink[Index(p)]
        BY <3>1, <3>2, <1>2, <1>c, <1>e, Zenon
      <3> QED
        BY <1>1, <3>3, <3>4, <3>5, AtKept, Zenon
    <2> QED
      BY <1>0, <2>1, <2>2, <2>3, <2>4, <2>5, <2>6, Move, Zenon
  <1> QED
    BY <1>3, <1>4, <1>5, <1>6, Zenon DEF IInv, Types, Carriers

\* A message arrives in a receive.
LEMMA RecvKeepsInv ==
  ASSUME IInv, Running, NEW i \in Instance, pre_posted_recv_callback(i)
  PROVE  IInv'
  <1>0. /\ Objects /\ Policy /\ Writers /\ Servers /\ Routes /\ NoRepeats /\ Apart /\ Backed
        /\ Somewhere /\ Stops /\ Ends
    BY Zenon DEF IInv, Types, Carriers
  <1>1. UNCHANGED <<service, m_stored_objects, held, releasing, arriving, m_decrement_channel,
                    lost, published, engine, subscribers, m_next, rd_channel, writer,
                    current, edge, late>>
    BY Zenon DEF pre_posted_recv_callback, pre_post_recv, TakeRoom, objects, policy, pool
  <1>2. /\ progress[i].pc = "idle" /\ net[i] # <<>> /\ recvs[i] # <<>>
        /\ net' = [net EXCEPT ![i] = Tail(@)]
        /\ \/ /\ ~HasEdge(Head(net[i]).tag) /\ fatal' = "edge"
              /\ UNCHANGED <<recvs, progress, sink, m_remaining>>
           \/ /\ sink' = [sink EXCEPT ![Head(net[i]).tag] =
                            Append(@, [msg |-> Head(net[i]), block |-> Head(recvs[i])])]
              /\ pre_post_recv(i, Tail(recvs[i]), Head(recvs[i])) /\ UNCHANGED fatal
           \/ /\ progress' = [progress EXCEPT ![i] = [pc |-> "write", msg |-> Head(net[i]),
                                                      block |-> Head(recvs[i])]]
              /\ recvs' = [recvs EXCEPT ![i] = Tail(@)] /\ UNCHANGED <<sink, fatal>>
    BY Zenon DEF pre_posted_recv_callback, Fail, pool
  <1>a. PICK m \in Message, t \in Tag, b \in Nat :
           m = Head(net[i]) /\ t = m.tag /\ b = Head(recvs[i])
    <2>1. Head(net[i]) \in Message /\ Head(recvs[i]) \in Nat
      BY <1>0, <1>2, TailAndAppend, Zenon DEF Servers
    <2> QED
      BY <2>1, Zenon DEF Message
  <1> DEFINE Write == /\ sink' = [sink EXCEPT ![t] = Append(@, [msg |-> m, block |-> b])]
                      /\ pre_post_recv(i, Tail(recvs[i]), b) /\ UNCHANGED fatal
             Wait == /\ progress' = [progress EXCEPT ![i] = [pc |-> "write", msg |-> m, block |-> b]]
                     /\ recvs' = [recvs EXCEPT ![i] = Tail(@)] /\ UNCHANGED <<sink, fatal>>
  <1>p. \/ ~HasEdge(t) /\ fatal' = "edge" /\ UNCHANGED <<recvs, progress, sink>>
        \/ Write \/ Wait
    BY <1>2, <1>a, Zenon
  <1> HIDE DEF Write, Wait
  <1>b. Tail(net[i]) \in Seq(Message) /\ Tail(recvs[i]) \in Seq(Nat)
    BY <1>0, <1>2, TailAndAppend, Zenon DEF Servers
  <1>c. /\ m.rd \in Rds(net[i]) /\ Rds(Tail(net[i])) = Rds(net[i]) \ {m.rd} /\ Once(Tail(net[i]))
    BY <1>0, <1>2, <1>a, TailRds, Zenon DEF NoRepeats, Servers
  <1>d. \A x \in Instance : x # i => net'[x] = net[x]
    BY <1>0, <1>2, Zenon DEF Servers
  <1>e. /\ Append(sink[t], [msg |-> m, block |-> b]) \in Seq(Buffer)
        /\ OnceBuffer(Append(sink[t], [msg |-> m, block |-> b]))
        /\ BufferRds(Append(sink[t], [msg |-> m, block |-> b])) = BufferRds(sink[t]) \cup {m.rd}
    <2>1. [msg |-> m, block |-> b] \in Buffer /\ [msg |-> m, block |-> b].msg.rd = m.rd
      BY Zenon DEF Buffer
    <2>2. sink[t] \in Seq(Buffer) /\ OnceBuffer(sink[t])
      BY <1>0, Zenon DEF Servers, NoRepeats
    <2>3. <<"net", i>> \in Place /\ <<"sink", t>> \in Place /\ <<"net", i>> # <<"sink", t>>
      BY Zenon DEF Place
    <2>4. m.rd \notin BufferRds(sink[t])
      BY <1>0, <1>c, <2>3, AtNet, AtSink, Zenon DEF Apart
    <2> QED
      BY <2>1, <2>2, <2>4, AppendBufferRds, SMTT(30)
  <1>f. Write => /\ recvs' \in [Instance -> Seq(Nat)] /\ progress' \in [Instance -> Job]
                 /\ progress'[i].pc \in {"idle", "pop"}
                 /\ \A x \in Instance : x # i => progress'[x] = progress[x]
                 /\ sink' = [sink EXCEPT ![t] = Append(@, [msg |-> m, block |-> b])]
                 /\ UNCHANGED fatal
    BY <1>0, <1>b, PrePostIs, Zenon DEF Write
  <1>g. Wait => /\ progress' = [progress EXCEPT ![i] = [pc |-> "write", msg |-> m, block |-> b]]
                /\ recvs' = [recvs EXCEPT ![i] = Tail(@)] /\ UNCHANGED <<sink, fatal>>
                /\ progress'[i].pc = "write" /\ progress'[i].msg = m
                /\ \A x \in Instance : x # i => progress'[x] = progress[x]
    BY <1>0 DEF Wait, Servers
  <1>3. Objects' /\ Policy' /\ Writers' /\ Stops'
    BY <1>0, <1>1, Kept, Zenon
  <1>4. Servers'
    <2>1. net' \in [Instance -> Seq(Message)]
      BY <1>0, <1>2, <1>b, Zenon DEF Servers
    <2>2. CASE UNCHANGED <<recvs, progress, sink>>
      BY <1>0, <1>1, <2>1, <2>2, Zenon DEF Servers
    <2>3. CASE Write
      <3>1. sink' \in [Tag -> Seq(Buffer)]
        BY <1>0, <1>e, <1>f, <2>3, Zenon DEF Servers
      <3> QED
        BY <1>0, <1>1, <1>f, <2>1, <2>3, <3>1, Zenon DEF Servers
    <2>4. CASE Wait
      <3>1. [pc |-> "write", msg |-> m, block |-> b] \in Job
        BY Zenon DEF Job
      <3>2. recvs' \in [Instance -> Seq(Nat)] /\ progress' \in [Instance -> Job]
        BY <1>0, <1>b, <1>g, <2>4, <3>1, Zenon DEF Servers
      <3> QED
        BY <1>0, <1>1, <1>g, <2>1, <2>4, <3>2, Zenon DEF Servers
    <2> QED
      BY <1>p, <2>2, <2>3, <2>4, Zenon
  <1>5. Routes'
    <2>1. \A x \in Instance : \A k \in DOMAIN net'[x] : Known(net'[x][k].tag)
      <3> SUFFICES ASSUME NEW x \in Instance, NEW k \in DOMAIN net'[x] PROVE Known(net'[x][k].tag)
        BY Zenon
      <3>1. CASE x = i
        <4>1. net'[x] = Tail(net[x]) /\ net[x] \in Seq(Message) /\ net[x] # << >>
          BY <1>0, <1>2, <3>1, Zenon DEF Servers
        <4>2. k + 1 \in DOMAIN net[x] /\ net'[x][k] = net[x][k + 1]
          BY <4>1, TailAndAppend
        <4> QED
          BY <1>0, <4>2, Zenon DEF Routes
      <3>2. CASE x # i
        BY <1>0, <1>d, <3>2, Zenon DEF Routes
      <3> QED
        BY <3>1, <3>2, Zenon
    <2>m. Members'
      BY <1>0, <1>1, Kept, Zenon
    <2> QED
      BY <2>m, <1>0, <1>1, <2>1, Zenon DEF Routes, Known
  <1>6. NoRepeats'
    <2>1. \A x \in Instance : Once(net'[x])
      BY <1>0, <1>2, <1>c, <1>d, Zenon DEF NoRepeats, Servers
    <2>2. \A x \in Tag : OnceBuffer(sink'[x])
      BY <1>0, <1>e, <1>f, <1>g, <1>p, Zenon DEF NoRepeats, Servers
    <2> QED
      BY <1>0, <1>1, <2>1, <2>2, Zenon DEF NoRepeats
  <1>7. Apart' /\ Backed' /\ Somewhere'
    <2>1. Stored' = Stored
      BY <1>1, Zenon DEF Stored
    <2>2. <<"net", i>> \in Place /\ <<"sink", t>> \in Place /\ <<"received", i>> \in Place
      BY Zenon DEF Place
    <2>3. m.rd \in At(<<"net", i>>) /\ At(<<"net", i>>)' = At(<<"net", i>>) \ {m.rd}
      BY <1>0, <1>2, <1>c, AtNet, Zenon DEF Servers
    <2>4. CASE fatal' = "edge" /\ UNCHANGED <<recvs, progress, sink>>
      <3>1. \A p \in Place : p # <<"net", i>> => At(p)' = At(p)
        <4> SUFFICES ASSUME NEW p \in Place, p # <<"net", i>>
                     PROVE  At(p)' = At(p)
          BY Zenon
        <4>1. /\ Kind(p) \in {"held", "releasing", "arriving", "decrement", "waiting", "received",
                            "net"} => Index(p) \in Instance
              /\ Kind(p) = "writer" => Index(p) \in Fiber
              /\ Kind(p) = "sink" => Index(p) \in Tag
              /\ Kind(p) \in {"engine", "channel", "lost"} => Index(p) = None
          BY PlaceKinds, Zenon
        <4>2. (Kind(p) = "net" => Index(p) # i)
          BY <4>1, OtherPlace, Zenon
        <4>3. Kind(p) = "net" => net'[Index(p)] = net[Index(p)]
          BY <4>1, <4>2, <1>d, Zenon
        <4> QED
          BY <1>1, <4>3, <2>4, AtKept, Zenon
      <3> QED
        BY <1>0, <2>1, <2>3, <2>4, <3>1, Perish, Zenon DEF Running
    <2>5. CASE Write
      <3>1. At(<<"sink", t>>)' = At(<<"sink", t>>) \cup {m.rd} /\ <<"net", i>> # <<"sink", t>>
        BY <1>0, <1>e, <1>f, <2>5, AtSink, Zenon DEF Servers
      <3>2. \A p \in Place : p # <<"net", i>> /\ p # <<"sink", t>> => At(p)' = At(p)
        <4> SUFFICES ASSUME NEW p \in Place, p # <<"net", i>>, p # <<"sink", t>>
                     PROVE  At(p)' = At(p)
          BY Zenon
        <4>1. /\ Kind(p) \in {"held", "releasing", "arriving", "decrement", "waiting", "received",
                            "net"} => Index(p) \in Instance
              /\ Kind(p) = "writer" => Index(p) \in Fiber
              /\ Kind(p) = "sink" => Index(p) \in Tag
              /\ Kind(p) \in {"engine", "channel", "lost"} => Index(p) = None
          BY PlaceKinds, Zenon
        <4>2. (Kind(p) = "net" => Index(p) # i) /\ (Kind(p) = "sink" => Index(p) # t)
          BY <4>1, OtherPlace, Zenon
        <4>3. Kind(p) = "net" => net'[Index(p)] = net[Index(p)]
          BY <4>1, <4>2, <1>0, <1>2, <1>d, <1>f, <2>5, Zenon DEF Servers
        <4>4. Kind(p) = "sink" => sink'[Index(p)] = sink[Index(p)]
          BY <4>1, <4>2, <1>0, <1>2, <1>d, <1>f, <2>5, Zenon DEF Servers
        <4>5. Kind(p) = "waiting" =>
               \/ progress'[Index(p)] = progress[Index(p)]
               \/ progress[Index(p)].pc # "decrement" /\ progress'[Index(p)].pc # "decrement"
          BY <4>1, <4>2, <1>0, <1>2, <1>d, <1>f, <2>5, Zenon DEF Servers
        <4>6. Kind(p) = "received" =>
               \/ progress'[Index(p)] = progress[Index(p)]
               \/ progress[Index(p)].pc # "write" /\ progress'[Index(p)].pc # "write"
          BY <4>1, <4>2, <1>0, <1>2, <1>d, <1>f, <2>5, Zenon DEF Servers
        <4> QED
          BY <1>1, <4>3, <4>4, <4>5, <4>6, AtKept, Zenon
      <3> QED
        BY <1>0, <2>1, <2>2, <2>3, <3>1, <3>2, Move, Zenon
    <2>6. CASE Wait
      <3>1. /\ At(<<"received", i>>)' = At(<<"received", i>>) \cup {m.rd}
            /\ <<"net", i>> # <<"received", i>>
        BY <1>0, <1>2, <1>g, <2>6, AtReceived, Zenon
      <3>2. \A p \in Place : p # <<"net", i>> /\ p # <<"received", i>> => At(p)' = At(p)
        <4> SUFFICES ASSUME NEW p \in Place, p # <<"net", i>>, p # <<"received", i>>
                     PROVE  At(p)' = At(p)
          BY Zenon
        <4>1. /\ Kind(p) \in {"held", "releasing", "arriving", "decrement", "waiting", "received",
                            "net"} => Index(p) \in Instance
              /\ Kind(p) = "writer" => Index(p) \in Fiber
              /\ Kind(p) = "sink" => Index(p) \in Tag
              /\ Kind(p) \in {"engine", "channel", "lost"} => Index(p) = None
          BY PlaceKinds, Zenon
        <4>2. (Kind(p) = "net" => Index(p) # i) /\ (Kind(p) = "received" => Index(p) # i)
          BY <4>1, OtherPlace, Zenon
        <4>3. Kind(p) = "net" => net'[Index(p)] = net[Index(p)]
          BY <4>1, <4>2, <1>2, <1>d, <1>g, <2>6, Zenon
        <4>4. Kind(p) = "waiting" =>
               \/ progress'[Index(p)] = progress[Index(p)]
               \/ progress[Index(p)].pc # "decrement" /\ progress'[Index(p)].pc # "decrement"
          BY <4>1, <4>2, <1>2, <1>d, <1>g, <2>6, Zenon
        <4>5. Kind(p) = "received" =>
               \/ progress'[Index(p)] = progress[Index(p)]
               \/ progress[Index(p)].pc # "write" /\ progress'[Index(p)].pc # "write"
          BY <4>1, <4>2, <1>2, <1>d, <1>g, <2>6, Zenon
        <4> QED
          BY <1>1, <4>3, <4>4, <4>5, <1>g, <2>6, AtKept, Zenon
      <3> QED
        BY <1>0, <2>1, <2>2, <2>3, <3>1, <3>2, Move, Zenon
    <2> QED
      BY <1>p, <2>4, <2>5, <2>6, Zenon
  <1>8. Ends'
    <2>1. Known(t)
      <3>1. net[i] \in Seq(Message)
        BY <1>0, Zenon DEF Servers
      <3>2. Head(net[i]) = net[i][1] /\ 1 \in DOMAIN net[i]
        BY <1>2, <3>1, TailAndAppend, Zenon
      <3> QED
        BY <1>0, <1>2, <1>a, <3>2, Zenon DEF Routes
    <2> QED
      BY <1>0, <1>1, <1>f, <1>g, <1>p, <2>1, ZenonT(30) DEF Ends, Running, Known, HasEdge
  <1> QED
    BY <1>3, <1>4, <1>5, <1>6, <1>7, <1>8, Zenon DEF IInv, Types, Carriers

-----------------------------------------------------------------------------
(* The invariant holds                                                     *)

\* Nothing is stored at the start.
LEMMA InitIInv ==
  Init => IInv
  <1> SUFFICES ASSUME Init PROVE IInv
    BY Zenon
  <1>1. Idle \in Job /\ Idle.pc = "idle"
    BY Zenon DEF Job, Idle, None
  <1>2. Objects
    BY SMTT(30) DEF Init, Objects
  <1>3. Policy
    BY DEF Init, Policy
  <1>4. Writers
    BY <1>1, Zenon DEF Init, Writers
  <1>5. Servers
    <2>1. [k \in 1 .. PrePosted |-> 1] \in Seq(Nat)
      BY DataPathAssumption
    <2>2. recvs \in [Instance -> Seq(Nat)]
      BY <2>1, Zenon DEF Init
    <2>3. net \in [Instance -> Seq(Message)]
      BY DEF Init
    <2>4. sink \in [Tag -> Seq(Buffer)]
      BY DEF Init
    <2>5. current \in [Instance -> Nat] /\ progress \in [Instance -> Job]
      BY <1>1, Zenon DEF Init
    <2>6. \A i \in Instance : progress[i].pc = "idle"
      BY <1>1, ZenonT(30) DEF Init
    <2> QED
      BY <2>2, <2>3, <2>4, <2>5, <2>6, Zenon DEF Servers
  <1>6. Routes
    <2>1. edge \in [Tag -> {"none", "live", "torn", "released"}] /\ \A t \in Tag : edge[t] = "none"
      BY Zenon DEF Init
    <2>2. Placed
      BY Zenon DEF Init, Placed
    <2>3. Members
      BY <2>1, <2>2, DataPathAssumption DEF Init, Members, None
    <2> QED
      BY <1>1, <2>3 DEF Init, Routes
  <1>7. \A p \in Place : At(p) = {}
    <2> SUFFICES ASSUME NEW p \in Place PROVE At(p) = {}
      BY Zenon
    <2>1. /\ Kind(p) \in {"held", "releasing", "arriving", "decrement", "waiting", "received",
                          "net"} => Index(p) \in Instance
          /\ Kind(p) = "writer" => Index(p) \in Fiber
          /\ Kind(p) = "sink" => Index(p) \in Tag
      BY PlaceKinds, Zenon
    <2>2. \/ Kind(p) \in {"held", "releasing", "arriving", "decrement"}
          \/ Kind(p) \in {"waiting", "received", "net", "writer"}
          \/ Kind(p) \in {"sink", "engine", "channel", "lost"}
      BY PlaceKinds, Zenon
    <2>3. CASE Kind(p) \in {"held", "releasing", "arriving", "decrement"}
      BY <2>1, <2>3, SMTT(30) DEF Init, At, Kind, Index, Ids
    <2>4. CASE Kind(p) \in {"waiting", "received", "net", "writer"}
      BY <1>1, <2>1, <2>4, SMTT(30) DEF Init, At, Kind, Index, Rds
    <2>5. CASE Kind(p) \in {"sink", "engine", "channel", "lost"}
      BY <2>1, <2>5 DEF Init, At, Kind, Index, Rds, BufferRds
    <2> QED
      BY <2>2, <2>3, <2>4, <2>5, Zenon
  <1>8. Stored = {}
    BY ZenonT(30) DEF Init, Stored, Descriptor
  <1>9. NoRepeats
    BY DEF Init, NoRepeats, Once, OnceId, OnceBuffer
  <1>10. Apart /\ Backed /\ Somewhere
    BY <1>7, <1>8, Zenon DEF Apart, Backed, Somewhere
  <1>11. Stops /\ Ends
    BY DataPathAssumption, Zenon DEF Init, Stops, Ends, Unreadable
  <1> QED
    BY <1>2, <1>3, <1>4, <1>5, <1>6, <1>9, <1>10, <1>11, Zenon
       DEF IInv, Types, Carriers

\* A step that changes nothing.
LEMMA StutterKeepsInv ==
  ASSUME IInv, UNCHANGED vars
  PROVE  IInv'
  <1>1. UNCHANGED <<service, m_stored_objects, held, releasing, arriving, m_decrement_channel, lost,
                    published, engine, subscribers, m_next, rd_channel, writer, net, recvs,
                    progress, sink, current, m_remaining, edge, fatal, late>>
    BY Zenon DEF vars, objects, policy, transport, pool
  <1>2. Types' /\ Routes' /\ NoRepeats' /\ Stops' /\ Ends'
    BY <1>1, Kept, Zenon DEF IInv, Types, Carriers
  <1>3. Stored' = Stored /\ (Running' <=> Running)
    BY <1>1, Zenon DEF Stored, Running
  <1>4. \A p \in Place : At(p)' = At(p)
    BY <1>1, AtKept, Zenon
  <1>5. Apart' /\ Backed'
    BY <1>3, <1>4 DEF IInv, Carriers, Apart, Backed
  <1>6. Somewhere'
    BY <1>3, <1>4, Zenon DEF IInv, Carriers, Somewhere
  <1> QED
    BY <1>2, <1>5, <1>6, Zenon DEF IInv, Carriers

\* Every step keeps the invariant.
LEMMA StepKeepsInv ==
  ASSUME IInv, [Next]_vars
  PROVE  IInv'
  <1>1. CASE UNCHANGED vars
    BY <1>1, StutterKeepsInv, Zenon
  <1>2. CASE Next
    <2>1. Running
      BY <1>2, Zenon DEF Next
    <2>2. CASE \E i \in Instance :
                 \/ \E d \in releasing[i] : am_send(i, d)
                 \/ \E a \in arriving[i] : active_message_callback(i, a)
                 \/ active_message_written(i) \/ decrement_handler(i) \/ do_service_stop(i)
                 \/ pre_posted_recv_callback(i) \/ recv_await_write(i) \/ recv_await_item(i)
      BY <2>1, <2>2, AmSendKeepsInv, CallbackKeepsInv, WrittenKeepsInv, DecrementKeepsInv,
         DoStopKeepsInv, RecvKeepsInv, RecvAwaitWriteKeepsInv, RecvAwaitItemKeepsInv, Zenon
    <2>3. CASE \E f \in Fiber : issue_remote_descriptor(f) \/ send_await_item(f) \/ async_send(f)
      BY <2>1, <2>3, IssueKeepsInv, SendAwaitKeepsInv, AsyncSendKeepsInv, Zenon
    <2>4. CASE \E t \in Tag : network_handler(t)
      BY <2>1, <2>4, NetworkKeepsInv, Zenon
    <2>5. CASE on_next
      BY <2>1, <2>5, OnNextKeepsInv, Zenon
    <2>6. CASE UserNext
      <3>1. CASE \E i \in Instance :
                   \/ register_object(i) \/ service_stop(i)
                   \/ \E d \in held[i] : \/ release_ownership(i, d) \/ destroy(i, d)
                                         \/ \E j \in Instance : unwrap_handle(i, j, d)
        BY <2>1, <3>1, RegisterKeepsInv, ServiceStopKeepsInv, ReleaseKeepsInv, DestroyKeepsInv,
           UnwrapKeepsInv, Zenon
      <3>2. CASE apply_policy \/ on_completed
        BY <2>1, <3>2, ApplyPolicyKeepsInv, CompletedKeepsInv, Zenon
      <3>3. CASE \E tags \in SUBSET Tag : \/ update_tagged_instances(tags)
                                          \/ \E f \in tags : UpdateThrows(tags, f)
        BY <2>1, <3>3, UpdateKeepsInv, UpdateThrowsKeepsInv, Zenon
      <3>4. CASE \E t \in Tag : do_subscription_service_setup(t)
        BY <2>1, <3>4, SetupKeepsInv, Zenon
      <3>5. CASE \E i \in Instance, r \in Tag \cup {None} : do_subscription_service_teardown(i, r)
        BY <2>1, <3>5, TeardownKeepsInv, Zenon
      <3> QED
        BY <2>6, <3>1, <3>2, <3>3, <3>4, <3>5, Zenon DEF UserNext
    <2> QED
      BY <1>2, <2>2, <2>3, <2>4, <2>5, <2>6, Zenon DEF Next
  <1> QED
    BY <1>1, <1>2, Zenon

\* The invariant holds in every reachable state.
THEOREM Invariance == Spec => []IInv
  <1>1. Init => IInv
    BY InitIInv, Zenon
  <1>2. IInv /\ [Next]_vars => IInv'
    BY StepKeepsInv, Zenon
  <1> QED
    BY <1>1, <1>2, PTL DEF Spec

-----------------------------------------------------------------------------
(* What it is good for                                                     *)

\* The processes end only in the ways FailsOnlyThere lists, for any partitions, tags and
\* orders of the drop requests: the policy without endpoints or after an update that threw
\* (publisher_round_robin.cpp:60 and :62, publisher_service.cpp:83), the engine of a
\* publisher that was torn down (publisher_service.cpp:101), the router without an edge
\* (router.hpp:100), which only a tag torn down too early can meet.  The CHECKs of
\* decrement_tokens hold (manager.cpp:174).
THEOREM EndsOnlyThere == Spec => []FailsOnlyThere
  <1>1. IInv => FailsOnlyThere
    <2> SUFFICES ASSUME IInv PROVE FailsOnlyThere
      BY Zenon
    <2>1. \A u \in UnderWay : HasEdge(u[3].tag) \/ u[3].tag \in late
      BY UnderWayKnown, Zenon DEF IInv, Types, Known, HasEdge
    <2> QED
      BY <2>1, Zenon DEF IInv, Ends, FailsOnlyThere
  <1> QED
    BY <1>1, Invariance, PTL

\* The entry of Carried for a descriptor in place p, the k-th in a channel.
Mark(p, k) ==
  CASE p[1] \in {"decrement", "net", "sink"} -> <<p[2], k>>
    [] p[1] = "channel" -> k
    [] p[1] = "engine" -> "write"
    [] p[1] = "lost" -> ""
    [] OTHER -> p[2]

\* The descriptor an entry of a channel is for.
Entry(p, k, d) ==
  /\ p[1] = "decrement" => k \in DOMAIN m_decrement_channel[p[2]]
                           /\ d = Of(p[2], m_decrement_channel[p[2]][k])
  /\ p[1] = "net" => k \in DOMAIN net[p[2]] /\ d = net[p[2]][k].rd
  /\ p[1] = "sink" => k \in DOMAIN sink[p[2]] /\ d = sink[p[2]][k].msg.rd
  /\ p[1] = "channel" => k \in DOMAIN rd_channel /\ d = rd_channel[k].rd

\* The entries of Carried, kind by kind.
LEMMA CarriedForms ==
  ASSUME NEW c
  PROVE  c \in Carried <=>
           \/ \E i \in Instance : \E d \in held[i] : c = <<"held", i, d>>
           \/ \E i \in Instance : \E d \in releasing[i] : c = <<"releasing", i, d>>
           \/ \E i \in Instance : \E a \in arriving[i] : c = <<"arriving", i, Of(i, a)>>
           \/ \E i \in Instance : \E k \in DOMAIN m_decrement_channel[i] :
                c = <<"decrement", <<i, k>>, Of(i, m_decrement_channel[i][k])>>
           \/ \E i \in Instance : /\ progress[i].pc = "decrement"
                                  /\ c = <<"waiting", i, Of(i, progress[i].msg)>>
           \/ \E i \in Instance : /\ progress[i].pc = "write"
                                  /\ c = <<"received", i, progress[i].msg.rd>>
           \/ \E u \in UnderWay : c = <<u[1], u[2], u[3].rd>>
           \/ \E t \in Tag : \E k \in DOMAIN sink[t] : c = <<"sink", <<t, k>>, sink[t][k].msg.rd>>
           \/ \E d \in lost : c = <<"lost", "", d>>
  <1>1. c \in Carried <=>
          \/ \E i \in Instance : c \in CarriedBy(i)
          \/ \E u \in UnderWay : c = <<u[1], u[2], u[3].rd>>
          \/ \E t \in Tag : c \in CarriedTo(t)
          \/ \E d \in lost : c = <<"lost", "", d>>
    BY Zenon DEF Carried
  <1>2. \A i \in Instance : c \in CarriedBy(i) <=>
           \/ \E d \in held[i] : c = <<"held", i, d>>
           \/ \E d \in releasing[i] : c = <<"releasing", i, d>>
           \/ \E a \in arriving[i] : c = <<"arriving", i, Of(i, a)>>
           \/ \E k \in DOMAIN m_decrement_channel[i] :
                c = <<"decrement", <<i, k>>, Of(i, m_decrement_channel[i][k])>>
           \/ progress[i].pc = "decrement" /\ c = <<"waiting", i, Of(i, progress[i].msg)>>
           \/ progress[i].pc = "write" /\ c = <<"received", i, progress[i].msg.rd>>
    BY ZenonT(30) DEF CarriedBy
  <1>3. \A t \in Tag : c \in CarriedTo(t) <=>
           \E k \in DOMAIN sink[t] : c = <<"sink", <<t, k>>, sink[t][k].msg.rd>>
    BY Zenon DEF CarriedTo
  <1> QED
    BY <1>1, <1>2, <1>3, Zenon

\* A message under way is an entry of Carried.
LEMMA UnderWayCarried ==
  ASSUME NEW u \in UnderWay
  PROVE  \E c \in Carried : c[3] = u[3].rd
  <1>1. <<u[1], u[2], u[3].rd>> \in Carried
    BY CarriedForms, Zenon
  <1> QED
    BY <1>1, Zenon

\* Every entry of Carried is that of a place and a descriptor in it.
LEMMA CarriedPlace ==
  ASSUME IInv, NEW c \in Carried
  PROVE  \E p \in Place : \E k : /\ c = <<p[1], Mark(p, k), c[3]>>
                                 /\ c[3] \in At(p) /\ Entry(p, k, c[3])
  <1>1. CASE \E i \in Instance : \E d \in held[i] : c = <<"held", i, d>>
    <2> PICK i \in Instance : \E d : d \in held[i] /\ c = <<"held", i, d>>
      BY <1>1, Zenon
    <2> PICK d : d \in held[i] /\ c = <<"held", i, d>>
      BY Zenon
    <2>p. <<"held", i>> \in Place
      BY Zenon DEF Place
    <2> WITNESS <<"held", i>> \in Place
    <2> WITNESS 0
    <2> QED
      BY Zenon DEF Place, Mark, Entry, At
  <1>2. CASE \E i \in Instance : \E d \in releasing[i] : c = <<"releasing", i, d>>
    <2> PICK i \in Instance : \E d : d \in releasing[i] /\ c = <<"releasing", i, d>>
      BY <1>2, Zenon
    <2> PICK d : d \in releasing[i] /\ c = <<"releasing", i, d>>
      BY Zenon
    <2>p. <<"releasing", i>> \in Place
      BY Zenon DEF Place
    <2> WITNESS <<"releasing", i>> \in Place
    <2> WITNESS 0
    <2> QED
      BY Zenon DEF Mark, Entry, At
  <1>3. CASE \E i \in Instance : \E a \in arriving[i] : c = <<"arriving", i, Of(i, a)>>
    <2> PICK i \in Instance : \E a : a \in arriving[i] /\ c = <<"arriving", i, Of(i, a)>>
      BY <1>3, Zenon
    <2> PICK a : a \in arriving[i] /\ c = <<"arriving", i, Of(i, a)>>
      BY Zenon
    <2>p. <<"arriving", i>> \in Place
      BY Zenon DEF Place
    <2> WITNESS <<"arriving", i>> \in Place
    <2> WITNESS 0
    <2> QED
      BY Zenon DEF Mark, Entry, At
  <1>4. CASE \E i \in Instance : \E k \in DOMAIN m_decrement_channel[i] :
               c = <<"decrement", <<i, k>>, Of(i, m_decrement_channel[i][k])>>
    <2> PICK i \in Instance : \E k :
               /\ k \in DOMAIN m_decrement_channel[i]
               /\ c = <<"decrement", <<i, k>>, Of(i, m_decrement_channel[i][k])>>
      BY <1>4, Zenon
    <2> PICK k :
               /\ k \in DOMAIN m_decrement_channel[i]
               /\ c = <<"decrement", <<i, k>>, Of(i, m_decrement_channel[i][k])>>
      BY Zenon
    <2>p. <<"decrement", i>> \in Place
      BY Zenon DEF Place
    <2> WITNESS <<"decrement", i>> \in Place
    <2> WITNESS k
    <2> QED
      BY Zenon DEF Mark, Entry, At, Ids
  <1>5. CASE \E i \in Instance : /\ progress[i].pc = "decrement"
                                 /\ c = <<"waiting", i, Of(i, progress[i].msg)>>
    <2> PICK i \in Instance : /\ progress[i].pc = "decrement"
                              /\ c = <<"waiting", i, Of(i, progress[i].msg)>>
      BY <1>5, Zenon
    <2>p. <<"waiting", i>> \in Place
      BY Zenon DEF Place
    <2> WITNESS <<"waiting", i>> \in Place
    <2> WITNESS 0
    <2> QED
      BY Zenon DEF Mark, Entry, At
  <1>6. CASE \E i \in Instance : /\ progress[i].pc = "write"
                                 /\ c = <<"received", i, progress[i].msg.rd>>
    <2> PICK i \in Instance : /\ progress[i].pc = "write"
                              /\ c = <<"received", i, progress[i].msg.rd>>
      BY <1>6, Zenon
    <2>p. <<"received", i>> \in Place
      BY Zenon DEF Place
    <2> WITNESS <<"received", i>> \in Place
    <2> WITNESS 0
    <2> QED
      BY Zenon DEF Mark, Entry, At
  <1>7. CASE \E u \in UnderWay : c = <<u[1], u[2], u[3].rd>>
    <2> PICK u \in UnderWay : c = <<u[1], u[2], u[3].rd>>
      BY <1>7, Zenon
    <2>1. CASE \E k \in DOMAIN rd_channel : u = <<"channel", k, rd_channel[k]>>
      <3> PICK k \in DOMAIN rd_channel : u = <<"channel", k, rd_channel[k]>>
        BY <2>1, Zenon
      <3>p. <<"channel", None>> \in Place
        BY Zenon DEF Place
      <3> WITNESS <<"channel", None>> \in Place
      <3> WITNESS k
      <3> QED
        BY Zenon DEF Mark, Entry, At, Rds
    <2>2. CASE engine.pc = "write" /\ u = <<"engine", "write", engine.msg>>
      <3>p. <<"engine", None>> \in Place
        BY Zenon DEF Place
      <3> WITNESS <<"engine", None>> \in Place
      <3> WITNESS 0
      <3> QED
        BY <2>2, Zenon DEF Mark, Entry, At
    <2>3. CASE \E f \in Fiber : writer[f].pc # "idle" /\ u = <<"writer", f, writer[f].msg>>
      <3> PICK f \in Fiber : writer[f].pc # "idle" /\ u = <<"writer", f, writer[f].msg>>
        BY <2>3, Zenon
      <3>p. <<"writer", f>> \in Place
        BY Zenon DEF Place
      <3> WITNESS <<"writer", f>> \in Place
      <3> WITNESS 0
      <3> QED
        BY Zenon DEF Mark, Entry, At
    <2>4. CASE \E i \in Instance : \E k \in DOMAIN net[i] : u = <<"net", <<i, k>>, net[i][k]>>
      <3> PICK i \in Instance : \E k : k \in DOMAIN net[i] /\ u = <<"net", <<i, k>>, net[i][k]>>
        BY <2>4, Zenon
      <3> PICK k : k \in DOMAIN net[i] /\ u = <<"net", <<i, k>>, net[i][k]>>
        BY Zenon
      <3>p. <<"net", i>> \in Place
        BY Zenon DEF Place
      <3> WITNESS <<"net", i>> \in Place
      <3> WITNESS k
      <3> QED
        BY Zenon DEF Mark, Entry, At, Rds
    <2> QED
      BY <2>1, <2>2, <2>3, <2>4, UnderWayForms, Zenon
  <1>8. CASE \E t \in Tag : \E k \in DOMAIN sink[t] : c = <<"sink", <<t, k>>, sink[t][k].msg.rd>>
    <2> PICK t \in Tag : \E k : k \in DOMAIN sink[t] /\ c = <<"sink", <<t, k>>, sink[t][k].msg.rd>>
      BY <1>8, Zenon
    <2> PICK k : k \in DOMAIN sink[t] /\ c = <<"sink", <<t, k>>, sink[t][k].msg.rd>>
      BY Zenon
    <2>p. <<"sink", t>> \in Place
      BY Zenon DEF Place
    <2> WITNESS <<"sink", t>> \in Place
    <2> WITNESS k
    <2> QED
      BY Zenon DEF Mark, Entry, At, BufferRds
  <1>9. CASE \E d \in lost : c = <<"lost", "", d>>
    <2> PICK d \in lost : c = <<"lost", "", d>>
      BY <1>9, Zenon
    <2>p. <<"lost", None>> \in Place
      BY Zenon DEF Place
    <2> WITNESS <<"lost", None>> \in Place
    <2> WITNESS 0
    <2> QED
      BY Zenon DEF Mark, Entry, At
  <1> QED
    BY <1>1, <1>2, <1>3, <1>4, <1>5, <1>6, <1>7, <1>8, <1>9, CarriedForms, ZenonT(30)

\* Every descriptor in a place has an entry in Carried.
LEMMA PlaceCarried ==
  ASSUME NEW p \in Place, NEW d \in At(p)
  PROVE  \E c \in Carried : c[3] = d
  <1> DEFINE x == Index(p)
  <1>0. p = <<Kind(p), x>>
    BY PlaceKinds, Zenon
  <1>1. CASE Kind(p) \in {"held", "releasing", "arriving"}
    <2>1. x \in Instance
      BY <1>1, PlaceKinds, Zenon
    <2>2. <<Kind(p), x, d>> \in Carried
      <3>1. CASE Kind(p) = "held"
        <4>1. d \in held[x]
          BY <1>0, <3>1, AtHeld, Zenon
        <4> QED
          BY <2>1, <3>1, <4>1, CarriedForms, Zenon
      <3>2. CASE Kind(p) = "releasing"
        <4>1. d \in releasing[x]
          BY <1>0, <3>2, AtReleasing, Zenon
        <4> QED
          BY <2>1, <3>2, <4>1, CarriedForms, Zenon
      <3>3. CASE Kind(p) = "arriving"
        <4>1. \E a \in arriving[x] : d = Of(x, a)
          BY <1>0, <3>3, AtArriving
        <4> QED
          BY <2>1, <3>3, <4>1, CarriedForms, Zenon
      <3> QED
        BY <1>1, <3>1, <3>2, <3>3, Zenon
    <2> QED
      BY <2>2, Zenon
  <1>2. CASE Kind(p) = "decrement"
    <2>1. x \in Instance
      BY <1>2, PlaceKinds, Zenon
    <2>2. PICK k \in DOMAIN m_decrement_channel[x] : d = Of(x, m_decrement_channel[x][k])
      BY <1>0, <1>2, AtDecrement DEF Ids
    <2>3. <<"decrement", <<x, k>>, d>> \in Carried
      BY <2>1, <2>2, CarriedForms, Zenon
    <2> QED
      BY <2>3, Zenon
  <1>3. CASE Kind(p) = "waiting"
    <2>1. x \in Instance
      BY <1>3, PlaceKinds, Zenon
    <2>2. progress[x].pc = "decrement" /\ d = Of(x, progress[x].msg)
      BY <1>0, <1>3, AtWaiting, Zenon
    <2>3. <<"waiting", x, d>> \in Carried
      BY <2>1, <2>2, CarriedForms, Zenon
    <2> QED
      BY <2>3, Zenon
  <1>4. CASE Kind(p) = "received"
    <2>1. x \in Instance
      BY <1>4, PlaceKinds, Zenon
    <2>2. progress[x].pc = "write" /\ d = progress[x].msg.rd
      BY <1>0, <1>4, AtReceived, Zenon
    <2>3. <<"received", x, d>> \in Carried
      BY <2>1, <2>2, CarriedForms, Zenon
    <2> QED
      BY <2>3, Zenon
  <1>5. CASE Kind(p) = "net"
    <2>1. x \in Instance
      BY <1>5, PlaceKinds, Zenon
    <2>2. PICK k \in DOMAIN net[x] : d = net[x][k].rd
      BY <1>0, <1>5, AtNet DEF Rds
    <2>3. <<"net", <<x, k>>, net[x][k]>> \in UnderWay
      BY <2>1, UnderWayForms, Zenon
    <2> QED
      BY <2>2, <2>3, UnderWayCarried, Zenon
  <1>6. CASE Kind(p) = "writer"
    <2>1. x \in Fiber
      BY <1>6, PlaceKinds, Zenon
    <2>2. writer[x].pc # "idle" /\ d = writer[x].msg.rd
      BY <1>0, <1>6, AtWriter, Zenon
    <2>3. <<"writer", x, writer[x].msg>> \in UnderWay
      BY <2>1, <2>2, UnderWayForms, Zenon
    <2> QED
      BY <2>2, <2>3, UnderWayCarried, Zenon
  <1>7. CASE Kind(p) = "engine"
    <2>1. engine.pc = "write" /\ d = engine.msg.rd
      BY <1>0, <1>7, AtEngine, Zenon
    <2>2. <<"engine", "write", engine.msg>> \in UnderWay
      BY <2>1, UnderWayForms, Zenon
    <2> QED
      BY <2>1, <2>2, UnderWayCarried, Zenon
  <1>8. CASE Kind(p) = "channel"
    <2>1. PICK k \in DOMAIN rd_channel : d = rd_channel[k].rd
      BY <1>0, <1>8, AtChannel, Zenon DEF Rds
    <2>2. <<"channel", k, rd_channel[k]>> \in UnderWay
      BY UnderWayForms, Zenon
    <2> QED
      BY <2>1, <2>2, UnderWayCarried, Zenon
  <1>9. CASE Kind(p) = "sink"
    <2>1. x \in Tag
      BY <1>9, PlaceKinds, Zenon
    <2>2. PICK k \in DOMAIN sink[x] : d = sink[x][k].msg.rd
      BY <1>0, <1>9, AtSink DEF BufferRds
    <2>3. <<"sink", <<x, k>>, d>> \in Carried
      BY <2>1, <2>2, CarriedForms, Zenon
    <2> QED
      BY <2>3, Zenon
  <1>10. CASE Kind(p) = "lost"
    <2>1. d \in lost
      BY <1>0, <1>10, AtLost, Zenon
    <2>2. <<"lost", "", d>> \in Carried
      BY <2>1, CarriedForms, Zenon
    <2> QED
      BY <2>2, Zenon
  <1> QED
    BY <1>1, <1>2, <1>3, <1>4, <1>5, <1>6, <1>7, <1>8, <1>9, <1>10, PlaceKinds, Zenon

\* No two entries of Carried are for one descriptor.
LEMMA CarriedOnce ==
  ASSUME IInv, NEW c \in Carried, NEW e \in Carried, c[3] = e[3]
  PROVE  c = e
  <1>1. PICK p \in Place : \E k : /\ c = <<p[1], Mark(p, k), c[3]>>
                                  /\ c[3] \in At(p) /\ Entry(p, k, c[3])
    BY CarriedPlace, Zenon
  <1>2. PICK k : c = <<p[1], Mark(p, k), c[3]>> /\ c[3] \in At(p) /\ Entry(p, k, c[3])
    BY <1>1, Zenon
  <1>3. PICK q \in Place : \E n : /\ e = <<q[1], Mark(q, n), e[3]>>
                                  /\ e[3] \in At(q) /\ Entry(q, n, e[3])
    BY CarriedPlace, Zenon
  <1>4. PICK n : e = <<q[1], Mark(q, n), e[3]>> /\ e[3] \in At(q) /\ Entry(q, n, e[3])
    BY <1>3, Zenon
  <1>5. p = q
    BY <1>2, <1>4, Zenon DEF IInv, Carriers, Apart
  <1>6. Mark(p, k) = Mark(p, n)
    <2>0. Entry(p, k, c[3]) /\ Entry(p, n, c[3])
      BY <1>2, <1>4, <1>5, Zenon
    <2>1. CASE p[1] \in {"decrement", "net", "sink", "channel"}
      <3>1. k = n
        <4>1. CASE p[1] = "decrement"
          <5>1. p[2] \in Instance
            BY <4>1, PlaceKinds, Zenon DEF Kind, Index
          <5>2. OnceId(m_decrement_channel[p[2]])
            BY <5>1, Zenon DEF IInv, Carriers, NoRepeats
          <5> QED
            BY <2>0, <4>1, <5>2 DEF Entry, OnceId, Of
        <4>2. CASE p[1] = "net"
          <5>1. p[2] \in Instance
            BY <4>2, PlaceKinds, Zenon DEF Kind, Index
          <5>2. Once(net[p[2]])
            BY <5>1, Zenon DEF IInv, Carriers, NoRepeats
          <5> QED
            BY <2>0, <4>2, <5>2, Zenon DEF Entry, Once
        <4>3. CASE p[1] = "sink"
          <5>1. p[2] \in Tag
            BY <4>3, PlaceKinds, Zenon DEF Kind, Index
          <5>2. OnceBuffer(sink[p[2]])
            BY <5>1, Zenon DEF IInv, Carriers, NoRepeats
          <5> QED
            BY <2>0, <4>3, <5>2, Zenon DEF Entry, OnceBuffer
        <4>4. CASE p[1] = "channel"
          <5>1. Once(rd_channel)
            BY Zenon DEF IInv, Carriers, NoRepeats
          <5> QED
            BY <2>0, <4>4, <5>1, Zenon DEF Entry, Once
        <4> QED
          BY <2>1, <4>1, <4>2, <4>3, <4>4, ZenonT(30)
      <3> QED
        BY <3>1, Zenon
    <2>2. CASE p[1] \notin {"decrement", "net", "sink", "channel"}
      BY <2>2, Zenon DEF Mark
    <2> QED
      BY <2>1, <2>2, Zenon
  <1> QED
    BY <1>2, <1>4, <1>5, <1>6, Zenon

\* The tokens of a stored object are in exactly one place, and those of an object that is
\* gone nowhere (remote_descriptor/manager.cpp:160-186).
THEOREM TokensInOnePlace == Spec => []OneCarrier
  <1>1. ASSUME IInv, Running
        PROVE  /\ {c[3] : c \in Carried} = Stored
               /\ \A c, e \in Carried : c[3] = e[3] => c = e
    <2>1. \A c \in Carried : c[3] \in Stored
      BY <1>1, CarriedPlace, Zenon DEF IInv, Carriers, Backed
    <2>2. \A d \in Stored : \E c \in Carried : c[3] = d
      BY <1>1, PlaceCarried, Zenon DEF IInv, Carriers, Somewhere
    <2>3. \A c, e \in Carried : c[3] = e[3] => c = e
      BY <1>1, CarriedOnce, Zenon
    <2>4. {c[3] : c \in Carried} = Stored
      BY <2>1, <2>2, ZenonT(30)
    <2> QED
      BY <2>3, <2>4, Zenon
  <1>2. IInv =>
          Stored = UNION {{[owner |-> i, id |-> a] : a \in m_stored_objects[i]} : i \in Instance}
    BY DEF IInv, Types, Objects, Stored, Descriptor
  <1>3. IInv => OneCarrier
    BY <1>1, <1>2, Zenon DEF OneCarrier
  <1> QED
    BY <1>3, Invariance, PTL

\* A manager that stopped is left alone: nobody has a descriptor of an object of it, so that
\* no decrement message comes after its channel is closed (manager.cpp:213-237).
THEOREM StoppedIsLeftAlone == Spec => []QuietAfterStop
  <1>1. ASSUME IInv, NEW i \in Instance, service[i] = "stopped", NEW c \in Carried
        PROVE  c[3].owner # i
    <2>1. c[3] \in Stored
      BY <1>1, CarriedPlace, Zenon DEF IInv, Carriers, Backed
    <2>2. m_stored_objects[i] = {}
      BY <1>1, Zenon DEF IInv, Stops
    <2> QED
      BY <2>1, <2>2, Zenon DEF Stored
  <1>2. IInv => QuietAfterStop
    BY <1>1, Zenon DEF QuietAfterStop
  <1> QED
    BY <1>2, Invariance, PTL

\* A step keeps what the starved pool i depends on.
Holds(i) ==
  /\ progress'[i] = progress[i] /\ recvs'[i] = recvs[i] /\ current'[i] = current[i]
  /\ i = Pub => \A f \in Fiber : writer[f].block \in Block => writer'[f].block = writer[f].block

\* What holds the blocks of a starved pool keeps them.
LEMMA StarvedStays ==
  ASSUME IInv, [Next]_vars, NEW i \in Instance, Starved(i)
  PROVE  Starved(i)'
  <1>1. progress[i].pc = "pop" /\ Free(i) = {}
    BY Zenon DEF Starved, Short, Free, Pinned
  <1>2. SUFFICES Holds(i)
    <2>1. /\ progress'[i] = progress[i] /\ recvs'[i] = recvs[i] /\ current'[i] = current[i]
          /\ progress'[i].pc = "pop"
      BY <1>1, <1>2, Zenon DEF Holds
    <2>2. ASSUME NEW b \in Block
          PROVE  b \in {current'[i], progress'[i].block} \cup Range(recvs'[i])
                         \cup {writer'[f].block : f \in {f \in Fiber : i = Pub}}
      <3>1. \/ b \in {current[i], progress[i].block} \cup Range(recvs[i])
            \/ i = Pub /\ \E f \in Fiber : b = writer[f].block
        BY Zenon DEF Starved, Short
      <3>2. CASE b \in {current[i], progress[i].block} \cup Range(recvs[i])
        BY <2>1, <3>2, Zenon
      <3>3. CASE i = Pub /\ \E f \in Fiber : b = writer[f].block
        BY <1>2, <3>3, Zenon DEF Holds
      <3> QED
        BY <3>1, <3>2, <3>3, Zenon
    <2> QED
      BY <2>1, <2>2, Zenon DEF Starved, Short
  <1>3. CASE UNCHANGED <<progress, recvs, current, writer>>
    BY <1>3, Zenon DEF Holds
  <1>4. ASSUME NEW j \in Instance, j # i,
               UNCHANGED writer,
               \/ UNCHANGED progress \/ \E x : progress' = [progress EXCEPT ![j] = x],
               \/ UNCHANGED recvs \/ \E x : recvs' = [recvs EXCEPT ![j] = x],
               \/ UNCHANGED current \/ \E x : current' = [current EXCEPT ![j] = x]
        PROVE  Holds(i)
    BY <1>4, Zenon DEF Holds, IInv, Types, Servers
  <1>5. CASE \E j \in Instance :
               \/ \E a \in arriving[j] : active_message_callback(j, a)
               \/ active_message_written(j)
    <2> PICK j \in Instance : \/ \E a \in arriving[j] : active_message_callback(j, a)
                              \/ active_message_written(j)
      BY <1>5, Zenon
    <2>1. j # i /\ UNCHANGED <<writer, recvs, current>>
      BY <1>1, Zenon DEF active_message_callback, active_message_written, pool
    <2>2. UNCHANGED progress \/ \E x : progress' = [progress EXCEPT ![j] = x]
      BY Zenon DEF active_message_callback, active_message_written
    <2> QED
      BY <1>4, <2>1, <2>2, Zenon
  <1>6. CASE \E j \in Instance : pre_posted_recv_callback(j) \/ recv_await_write(j)
    <2> PICK j \in Instance : pre_posted_recv_callback(j) \/ recv_await_write(j)
      BY <1>6, Zenon
    <2>1. j # i /\ UNCHANGED writer
      BY <1>1, Zenon DEF pre_posted_recv_callback, recv_await_write
    <2>2. /\ UNCHANGED progress \/ \E x : progress' = [progress EXCEPT ![j] = x]
          /\ UNCHANGED recvs \/ \E x : recvs' = [recvs EXCEPT ![j] = x]
          /\ UNCHANGED current
      BY Zenon DEF pre_posted_recv_callback, recv_await_write, pre_post_recv, TakeRoom, pool
    <2> QED
      BY <1>4, <2>1, <2>2, Zenon
  <1>7. CASE \E j \in Instance : recv_await_item(j)
    <2> PICK j \in Instance : recv_await_item(j)
      BY <1>7, Zenon
    <2>1. j # i /\ UNCHANGED writer
      BY <1>1, Zenon DEF recv_await_item, PopBlock
    <2>2. /\ \E x : progress' = [progress EXCEPT ![j] = x]
          /\ \E x : recvs' = [recvs EXCEPT ![j] = x]
          /\ \E x : current' = [current EXCEPT ![j] = x]
      BY Zenon DEF recv_await_item, PopBlock
    <2> QED
      BY <1>4, <2>1, <2>2, Zenon
  <1>8. CASE \E f \in Fiber : issue_remote_descriptor(f)
    <2> PICK f \in Fiber : issue_remote_descriptor(f)
      BY <1>8, Zenon
    <2>1. writer[f].pc = "idle" /\ UNCHANGED <<progress, recvs, current>>
      BY Zenon DEF issue_remote_descriptor, TakeRoom, pool
    <2>2. writer[f].block \notin Block
      BY <2>1, IdleIs, Zenon DEF IInv, Types, Writers
    <2>3. \A g \in Fiber : g # f => writer'[g] = writer[g]
      BY Zenon DEF issue_remote_descriptor, IInv, Types, Writers
    <2> QED
      BY <2>1, <2>2, <2>3, Zenon DEF Holds
  <1>9. CASE \E f \in Fiber : send_await_item(f) \/ async_send(f)
    <2> PICK f \in Fiber : send_await_item(f) \/ async_send(f)
      BY <1>9, Zenon
    <2>1. i # Pub
      BY <1>1, Zenon DEF send_await_item, async_send, PopBlock
    <2>2. UNCHANGED <<progress, recvs>>
      BY Zenon DEF send_await_item, async_send
    <2>3. current'[i] = current[i]
      BY <2>1, Zenon DEF send_await_item, async_send, PopBlock, pool, IInv, Types, Servers
    <2> QED
      BY <2>1, <2>2, <2>3, Zenon DEF Holds
  <1>10. CASE \E j \in Instance : \/ \E d \in releasing[j] : am_send(j, d)
                                  \/ decrement_handler(j) \/ do_service_stop(j)
    BY <1>3, <1>10, Zenon DEF am_send, decrement_handler, do_service_stop, transport, pool
  <1>11. CASE \E t \in Tag : network_handler(t)
    BY <1>3, <1>11, Zenon DEF network_handler, pool
  <1>12. CASE on_next
    BY <1>3, <1>12, Zenon DEF on_next, pool
  <1>13. CASE UserNext
    <2>1. CASE \E j \in Instance :
                 \/ register_object(j) \/ service_stop(j)
                 \/ \E d \in held[j] : \/ release_ownership(j, d) \/ destroy(j, d)
                                       \/ \E m \in Instance : unwrap_handle(j, m, d)
      BY <1>3, <2>1 DEF register_object, service_stop, release_ownership, destroy, unwrap_handle,
                        transport, pool
    <2>2. CASE apply_policy \/ on_completed
      BY <1>3, <2>2, Zenon DEF apply_policy, on_completed, transport, pool
    <2>3. CASE \E tags \in SUBSET Tag : \/ update_tagged_instances(tags)
                                        \/ \E f \in tags : UpdateThrows(tags, f)
      BY <1>3, <2>3, Zenon DEF update_tagged_instances, UpdateThrows, transport, pool
    <2>4. CASE \E t \in Tag : do_subscription_service_setup(t)
      BY <1>3, <2>4, Zenon DEF do_subscription_service_setup, transport, pool
    <2>5. CASE \E j \in Instance, r \in Tag \cup {None} : do_subscription_service_teardown(j, r)
      BY <1>3, <2>5, Zenon DEF do_subscription_service_teardown, transport, pool
    <2> QED
      BY <1>13, <2>1, <2>2, <2>3, <2>4, <2>5, ZenonT(30) DEF UserNext
  <1>14. CASE UNCHANGED vars
    BY <1>3, <1>14, Zenon DEF vars, transport, pool
  <1> QED
    BY <1>5, <1>6, <1>7, <1>8, <1>9, <1>10, <1>11, <1>12, <1>13, <1>14, Zenon DEF Next

\* A pool that is starved stays so: the progress engine waits for a block that only it could
\* free (data_plane/server.cpp:83-89, transient_pool.cpp:112-118).
THEOREM StarvationLasts == Spec => StarvedForGood
  <1>1. IInv /\ [Next]_vars => [\A i \in Instance : Starved(i) => Starved(i)']_vars
    BY StarvedStays, Zenon
  <1> QED
    BY <1>1, Invariance, PTL DEF Spec, StarvedForGood
=============================================================================
