------------------------------- MODULE Events -------------------------------
(***************************************************************************)
(* The daemon's event bus (daemon/events.rs) and the connection tasks that *)
(* feed it and drain it (daemon/socket.rs).  In-process code emits through *)
(* a bounded channel the dispatch loop drains; a connection's emit op      *)
(* dispatches on the connection's own task.  Each dispatch is four awaits: *)
(* take a sequence number, append to the log, offer the event to every     *)
(* matching subscriber, drop the subscribers that must go.  A subscribe is *)
(* four as well: drop the connection's old subscription, read the log,     *)
(* register, answer.  All of them interleave.                              *)
(*                                                                         *)
(* A topic pattern is a set of topics here.                                *)
(***************************************************************************)
EXTENDS Naturals, Sequences, FiniteSets

CONSTANTS Conns,      \* client connections, each used once
          Subscribers, Emitters, \* the connections that subscribe, that emit
          Identities, \* what clients call themselves, Nothing for no name
          Topics,
          Loop,       \* the dispatch loop, and the source of the daemon's own events
          Nothing,
          Capacity,   \* events the log keeps
          Buffer,     \* slots of the emit channel
          SubBuffer,  \* slots of a subscriber's channel
          MaxEvents,  \* events ever offered to the bus
          MaxSubs     \* subscriptions ever asked for

ASSUME EventsAssumption ==
  /\ Loop \notin Conns /\ Nothing \notin Conns
  /\ Subscribers \cup Emitters \subseteq Conns
  /\ {Capacity, Buffer, SubBuffer} \subseteq Nat \ {0}
  /\ {MaxEvents, MaxSubs} \subseteq Nat

VARIABLES seq,        \* EventRouter::seq
          queue,      \* topics in the emit channel
          log,        \* EventLog::events
          subs,       \* registered subscribers
          rx,         \* rx[id]: events in the channel of subscription id
          closed,     \* subscriptions whose receiver is gone
          relaying,   \* subscriptions with a relay task
          task,       \* what the loop and each connection's task is doing
          current,    \* ConnectionState::sub_id
          wire,       \* what was written to each connection, in order
          gone,       \* connections whose client hung up
          offered,    \* events offered so far
          asked,      \* next_sub_id
          history,    \* every event ever logged
          dispatched, \* sequence numbers whose dispatch took place
          start,      \* start[id]: what subscription id began from
          missed      \* missed[id]: events that found the channel full

router == <<seq, queue, log, subs, rx, closed>>
book == <<history, dispatched, start, missed>>
busVars == <<router, relaying, task, current, wire, gone, offered, asked, book>>

Tasks == Conns \cup {Loop}
Subs == 1..MaxSubs
Policies == {"DropOldest", "Disconnect"}
Event == [seq : 1..MaxEvents, topic : Topics, source : Tasks]
Resting == [pc |-> "idle"]

Seqs(events) == {events[i].seq : i \in DOMAIN events}

\* Subscriber::matches: not the client's own, and a topic it asked for.
matches(sub, e) == e.source # sub.identity /\ e.topic \in sub.topics

Ids(set) == {s.id : s \in set}
Without(set, ids) == {s \in set : s.id \notin ids}

BusInit ==
  /\ seq = 0
  /\ queue = <<>>
  /\ log = <<>>
  /\ subs = {}
  /\ rx = [id \in Subs |-> <<>>]
  /\ closed = {}
  /\ relaying = {}
  /\ task = [p \in Tasks |-> Resting]
  /\ current = [c \in Conns |-> 0]
  /\ wire = [c \in Conns |-> <<>>]
  /\ gone = {}
  /\ offered = 0
  /\ asked = 0
  /\ history = <<>>
  /\ dispatched = {}
  /\ start = [id \in Subs |-> Nothing]
  /\ missed = [id \in Subs |-> {}]

\* A client resumes after the last event it was sent.
LastSeen(c) == IF wire[c] = <<>> THEN 0 ELSE wire[c][Len(wire[c])].seq

Become(p, t) == task' = [task EXCEPT ![p] = t]

-----------------------------------------------------------------------------
(* Emitting and dispatching.                                               *)

\* EventEmitter::emit: a full channel drops the event, without a number.
Emit(topic) ==
  /\ offered < MaxEvents
  /\ offered' = offered + 1
  /\ queue' = IF Len(queue) < Buffer THEN Append(queue, topic) ELSE queue
  /\ UNCHANGED <<seq, log, subs, rx, closed, relaying, task, current, wire, gone,
                 asked, book>>

\* Mutant: the number is one more than the log's head, not a counter's.
AssignFromLog(p, topic) ==
  /\ seq' = (IF log = <<>> THEN 0 ELSE log[Len(log)].seq) + 1
  /\ Become(p, [pc |-> "assigned", ev |-> [seq |-> seq', topic |-> topic, source |-> p]])
  /\ UNCHANGED <<log, subs, rx, closed, relaying, current, wire, gone, asked, book>>

\* The first step of assign_and_dispatch: the number is taken.
Assign(p, topic) ==
  /\ seq' = seq + 1
  /\ Become(p, [pc |-> "assigned",
                ev |-> [seq |-> seq + 1, topic |-> topic, source |-> p]])
  /\ UNCHANGED <<log, subs, rx, closed, relaying, current, wire, gone, asked, book>>

\* dispatch_loop receives the next queued event.
Receive ==
  /\ task[Loop] = Resting
  /\ queue # <<>>
  /\ queue' = Tail(queue)
  /\ Assign(Loop, Head(queue))
  /\ UNCHANGED offered

\* handle_emit on a connection: the client names itself as the source.
EmitExternal(c, topic) ==
  /\ task[c] = Resting
  /\ c \notin gone
  /\ offered < MaxEvents
  /\ offered' = offered + 1
  /\ Assign(c, topic)
  /\ UNCHANGED queue

\* EventLog::push.
push(l, e) == Append(IF Len(l) >= Capacity THEN Tail(l) ELSE l, e)

LogEvent(p) ==
  /\ task[p].pc = "assigned"
  /\ log' = push(log, task[p].ev)
  /\ history' = Append(history, task[p].ev)
  /\ Become(p, [task[p] EXCEPT !.pc = "logged"])
  /\ UNCHANGED <<seq, queue, subs, rx, closed, relaying, current, wire, gone,
                 offered, asked, dispatched, start, missed>>

\* Under the subscribers' read lock, try_send to every match: a full channel
\* drops the event or marks the subscriber for removal, a closed one marks it.
Dispatch(p) ==
  /\ task[p].pc = "logged"
  /\ LET e    == task[p].ev
         hit  == {s \in subs : matches(s, e)}
         dead == {s \in hit : s.id \in closed}
         full == {s \in hit \ dead : Len(rx[s.id]) >= SubBuffer}
         out  == Ids(dead \cup {s \in full : s.overflow = "Disconnect"})
     IN  /\ rx' = [id \in Subs |-> IF id \in Ids(hit \ (dead \cup full)) THEN Append(rx[id], e) ELSE rx[id]]
         /\ missed' = [id \in Subs |->
                         IF id \in Ids(full) THEN missed[id] \cup {e.seq} ELSE missed[id]]
         /\ dispatched' = dispatched \cup {e.seq}
         /\ Become(p, IF out = {} THEN Resting ELSE [pc |-> "sent", out |-> out])
  /\ UNCHANGED <<seq, queue, log, subs, closed, relaying, current, wire, gone,
                 offered, asked, history, start>>

\* Mutant: only the subscribers whose receiver is gone are dropped.
CleanUpClosed(p) ==
  /\ task[p].pc = "sent"
  /\ subs' = Without(subs, task[p].out \cap closed)
  /\ Become(p, Resting)
  /\ UNCHANGED <<seq, queue, log, rx, closed, relaying, current, wire, gone,
                 offered, asked, book>>

\* The write lock is taken only when somebody has to go.
CleanUp(p) ==
  /\ task[p].pc = "sent"
  /\ subs' = Without(subs, task[p].out)
  /\ Become(p, Resting)
  /\ UNCHANGED <<seq, queue, log, rx, closed, relaying, current, wire, gone,
                 offered, asked, book>>

-----------------------------------------------------------------------------
(* A connection's subscription.                                            *)

\* handle_subscribe: the connection's old subscription is dropped first.
Subscribe(c, topics, identity, since, overflow) ==
  /\ task[c] = Resting
  /\ c \notin gone
  /\ asked < MaxSubs
  /\ asked' = asked + 1
  /\ subs' = Without(subs, {current[c]})
  /\ current' = [current EXCEPT ![c] = 0]
  /\ Become(c, [pc |-> "replay", since |-> since,
                sub |-> [id |-> asked + 1, conn |-> c, identity |-> identity,
                         topics |-> topics, overflow |-> overflow]])
  /\ UNCHANGED <<seq, queue, log, rx, closed, relaying, wire, gone, offered, book>>

\* Mutant: a client that is behind the log is not told.
GapUntold(since) == FALSE

\* EventLog::since_matching: whether since lies before what the log still holds.
Gap(since) ==
  /\ since > 0
  /\ since < (IF log = <<>> THEN 0 ELSE Head(log).seq)

\* The elements of s at the indices in S, in their order.
Picked(s, S) ==
  [k \in 1..Cardinality(S) |->
     s[CHOOSE i \in S : Cardinality({j \in S : j <= i}) = k]]

Replay(since, sub) ==
  Picked(log, {i \in DOMAIN log : log[i].seq > since /\ matches(sub, log[i])})

\* EventRouter::subscribe reads the log under its read lock.
ReadLog(c) ==
  /\ task[c].pc = "replay"
  /\ LET t == task[c] IN
       /\ Become(c, [pc |-> "register", sub |-> t.sub,
                     replay |-> Replay(t.since, t.sub)])
       /\ start' = [start EXCEPT ![t.sub.id] =
                      [sub |-> t.sub, since |-> t.since, gap |-> Gap(t.since),
                       upto |-> Len(history), before |-> {}]]
  /\ UNCHANGED <<router, relaying, current, wire, gone, offered, asked, history,
                 dispatched, missed>>

\* ... and registers under the subscribers' write lock.
Register(c) ==
  /\ task[c].pc = "register"
  /\ subs' = subs \cup {task[c].sub}
  /\ current' = [current EXCEPT ![c] = task[c].sub.id]
  /\ start' = [start EXCEPT ![task[c].sub.id].before = dispatched]
  /\ Become(c, [task[c] EXCEPT !.pc = "answer"])
  /\ UNCHANGED <<seq, queue, log, rx, closed, relaying, wire, gone, offered, asked,
                 history, dispatched, missed>>

\* The response and the replayed events are enqueued, then the relay is spawned.
AnswerSubscribe(c) ==
  /\ task[c].pc = "answer"
  /\ LET t == task[c] IN
       /\ wire' = [wire EXCEPT ![c] = @ \o
            [i \in DOMAIN t.replay |->
               [live |-> FALSE, id |-> t.sub.id, seq |-> t.replay[i].seq]]]
       /\ relaying' = relaying \cup {t.sub.id}
  /\ Become(c, Resting)
  /\ UNCHANGED <<router, current, gone, offered, asked, book>>

\* unsubscribe_topics: the subscriber goes with its last pattern.
Unsubscribe(c, topics) ==
  /\ task[c] = Resting
  /\ c \notin gone
  /\ \E s \in subs :
       /\ s.id = current[c]
       /\ s.topics \cap topics # {}
       /\ LET left == s.topics \ topics IN
            subs' = (subs \ {s})
                    \cup (IF left = {} THEN {} ELSE {[s EXCEPT !.topics = left]})
  /\ UNCHANGED <<seq, queue, log, rx, closed, relaying, task, current, wire, gone,
                 offered, asked, book>>

\* The relay task moves an event from the subscriber's channel to the connection,
\* also after the subscription is dropped, until the channel is empty.
Relay(id) ==
  /\ id \in relaying
  /\ rx[id] # <<>>
  /\ LET c == start[id].sub.conn
         e == Head(rx[id])
     IN  /\ c \notin gone
         /\ wire' = [wire EXCEPT ![c] =
                       Append(@, [live |-> TRUE, id |-> id, seq |-> e.seq])]
  /\ rx' = [rx EXCEPT ![id] = Tail(@)]
  /\ UNCHANGED <<seq, queue, log, subs, closed, relaying, task, current, gone,
                 offered, asked, book>>

\* A write to a client that hung up fails: the relay returns and drops the receiver.
RelayFails(id) ==
  /\ id \in relaying
  /\ rx[id] # <<>>
  /\ start[id].sub.conn \in gone
  /\ relaying' = relaying \ {id}
  /\ closed' = closed \cup {id}
  /\ rx' = [rx EXCEPT ![id] = <<>>]
  /\ UNCHANGED <<seq, queue, log, subs, task, current, wire, gone, offered, asked, book>>

HangUp(c) ==
  /\ c \notin gone
  /\ gone' = gone \cup {c}
  /\ UNCHANGED <<router, relaying, task, current, wire, offered, asked, book>>

\* The read loop ends: ConnectionState::cleanup.
Disconnect(c) ==
  /\ c \in gone
  /\ task[c] = Resting
  /\ subs' = Without(subs, {current[c]})
  /\ Become(c, [pc |-> "ended"])
  /\ UNCHANGED <<seq, queue, log, rx, closed, relaying, current, wire, gone, offered,
                 asked, book>>

Step(p) == LogEvent(p) \/ Dispatch(p) \/ CleanUp(p)
Handle(c) == ReadLog(c) \/ Register(c) \/ AnswerSubscribe(c)

BusNext ==
  \/ \E t \in Topics : Emit(t)
  \/ Receive
  \/ \E c \in Emitters, t \in Topics : EmitExternal(c, t)
  \/ \E p \in Tasks : Step(p)
  \/ \E c \in Subscribers :
       \E ts \in SUBSET Topics \ {{}}, name \in Identities,
          since \in {0, LastSeen(c)}, o \in Policies :
         Subscribe(c, ts, name, since, o)
  \/ \E c \in Conns : Handle(c)
  \/ \E c \in Conns, ts \in SUBSET Topics \ {{}} : Unsubscribe(c, ts)
  \/ \E id \in Subs : Relay(id) \/ RelayFails(id)
  \/ \E c \in Subscribers : HangUp(c)
  \/ \E c \in Conns : Disconnect(c)

\* Every task that can take a step takes it: tokio runs what is ready.
BusFairness ==
  /\ WF_busVars(Receive)
  /\ \A p \in Tasks : WF_busVars(Step(p))
  /\ \A c \in Conns : WF_busVars(Handle(c)) /\ WF_busVars(Disconnect(c))
  /\ \A id \in Subs : WF_busVars(Relay(id)) /\ WF_busVars(RelayFails(id))

BusSpec == BusInit /\ [][BusNext]_busVars /\ BusFairness

-----------------------------------------------------------------------------

BusTypeOK ==
  /\ seq \in 0..MaxEvents
  /\ queue \in Seq(Topics) /\ Len(queue) <= Buffer
  /\ log \in Seq(Event) /\ Len(log) <= Capacity
  /\ Ids(subs) \subseteq 1..asked
  /\ \A id \in Subs : rx[id] \in Seq(Event) /\ Len(rx[id]) <= SubBuffer
  /\ closed \subseteq 1..asked /\ relaying \subseteq 1..asked
  /\ \A p \in Tasks : task[p].pc \in {"idle", "assigned", "logged", "sent", "replay",
                                      "register", "answer", "ended"}
  /\ current \in [Conns -> 0..MaxSubs]
  /\ offered <= MaxEvents

\* The log was filled in the order of its sequence numbers: the number is taken
\* before the log's lock, so two dispatches may append the other way round.
InOrder == \A i, j \in DOMAIN history : i < j => history[i].seq < history[j].seq

\* Events dispatched after the log was read and before the subscriber was there.
Window(id) ==
  start[id].before
  \ {history[i].seq : i \in DOMAIN history \cap 1..start[id].upto}

Reached(id) ==
  LET sent == wire[start[id].sub.conn]
  IN Seqs(rx[id]) \cup {sent[i].seq : i \in {j \in DOMAIN sent : sent[j].id = id}}

\* EventRouter::subscribe and assign_and_dispatch: a registered subscriber that was
\* told of no gap, once answered, has or will get every logged event after since that
\* it asked for, save those dispatched between the two steps of its own registration
\* and those that found its channel full, if the log is in order.
OnlyTheWindowIsLost ==
  \A s \in subs :
    (/\ s.id \in relaying
     /\ InOrder
     /\ ~start[s.id].gap
     /\ start[s.id].since > 0)
    => \A i \in DOMAIN history :
         (/\ history[i].seq > start[s.id].since
          /\ history[i].seq \in dispatched
          /\ matches(s, history[i])
          /\ history[i].seq \notin Window(s.id) \cup missed[s.id])
         => history[i].seq \in Reached(s.id)

\* assign_and_dispatch takes its number with one fetch_add and handle_subscribe drops the
\* old subscription before it registers the new one: no sequence number is pushed to a
\* connection twice, whoever emits at the same time and however often it subscribes.
PushedOnce ==
  \A c \in Conns : \A i, j \in DOMAIN wire[c] :
    (i # j /\ wire[c][i].live /\ wire[c][j].live) => wire[c][i].seq # wire[c][j].seq

\* assign_and_dispatch's clean-up and ConnectionState::cleanup: a subscriber that missed
\* an event under OverflowPolicy::Disconnect does not stay, nor does anything of a
\* client that hung up.
DeadOnesLeave ==
  /\ \A id \in Subs :
       (\E s \in subs : s.id = id /\ s.overflow = "Disconnect" /\ missed[id] # {})
         ~> (\A s \in subs : s.id # id)
  /\ \A c \in Conns : c \in gone ~> (\A s \in subs : s.conn # c)

=============================================================================
