----------------------------- MODULE LspClient -----------------------------
(***************************************************************************)
(* The language server client (lsp/src/client.rs) and a language server:   *)
(* two pipes, the bounded channel the reader task forwards stdout into,    *)
(* and the one future that at any time uses the client.  The               *)
(* server is external: it answers in any order or never, sends requests of *)
(* its own, reports its work as progress or as one status, and may die; it *)
(* reads nothing while it waits to write.  Pipes hold whole messages; what *)
(* a message says is left out but for the file it is about.                *)
(***************************************************************************)
EXTENDS Naturals, Sequences, FiniteSets

CONSTANTS Files, NoFile,
          Tokens,      \* work the server may report, each once, in order: numbers
          PipeSize,    \* messages the pipe to the server holds
          Backlog,     \* messages the pipe from it and the channel hold
          MaxStatus    \* how often the server may change its status

ASSUME NoFileIsNone == NoFile \notin Files

VARIABLES stdin,
          rx,          \* the server's stdout and, behind the reader task, the channel
          client,      \* LspClient
          call,        \* the future that uses it
          server

wire == <<stdin, rx>>

Kinds == {"progress", "status"}

FreshServer(kind) ==
  [alive |-> TRUE, kind |-> kind,
   deaf   |-> FALSE,    \* it lost the framing of its input
   todo   |-> {},       \* requests read and not answered
   asked  |-> "no",     \* its window/workDoneProgress/create: no, sent, acked
   begun  |-> {}, ended |-> {},
   quiet  |-> FALSE, changes |-> 0,
   opened |-> FALSE,    \* a file was opened
   owes   |-> <<>>]     \* the message it waits to write

Gone == [FreshServer("progress") EXCEPT !.alive = FALSE]

FreshClient ==
  [in_flight |-> {}, saw_cycle_end |-> FALSE, quiescent |-> "none"]

\* at: free, send, recv, await, drain, done.
NoCall == [at |-> "free", id |-> 0, out |-> <<>>, then |-> "free", got |-> <<>>]

LspInit ==
  /\ stdin = <<>> /\ rx = <<>>
  /\ client = FreshClient
  /\ call = NoCall
  /\ server = Gone

-----------------------------------------------------------------------------
(* The server.                                                             *)

\* A write finds room, or the server waits with it.
Say(m, s) ==
  /\ server.alive /\ server.owes = <<>>
  /\ IF Len(rx) < Backlog
       THEN rx' = Append(rx, m) /\ server' = s
       ELSE server' = [s EXCEPT !.owes = <<m>>] /\ UNCHANGED rx
  /\ UNCHANGED <<stdin, client, call>>

Flush ==
  /\ server.alive /\ server.owes # <<>> /\ Len(rx) < Backlog
  /\ rx' = Append(rx, server.owes[1])
  /\ server' = [server EXCEPT !.owes = <<>>]
  /\ UNCHANGED <<stdin, client, call>>

\* After a cut message the bytes of later ones are taken for its rest.
Hear ==
  /\ server.alive /\ server.owes = <<>> /\ stdin # <<>>
  /\ stdin' = Tail(stdin)
  /\ LET m == Head(stdin) IN
     server' = IF server.deaf \/ m.k = "cut" THEN [server EXCEPT !.deaf = TRUE]
               ELSE CASE m.k = "req" -> [server EXCEPT !.todo = @ \cup {m}]
                      [] m.k = "ack" -> [server EXCEPT !.asked = "acked"]
                      [] m.k = "didOpen" -> [server EXCEPT !.opened = TRUE]
                      [] OTHER -> server
  /\ UNCHANGED <<rx, client, call>>

\* Past the handshake an empty answer and an error are treated alike.
Values == {"some", "error"}

Answer == \E m \in server.todo, v \in Values :
  Say([k |-> "resp", id |-> m.id, about |-> m.about, val |-> v],
      [server EXCEPT !.todo = @ \ {m}])

\* A request of the server's own, once it was initialized.
Ask ==
  /\ server.asked = "no" /\ server.opened
  /\ Say([k |-> "ask"], [server EXCEPT !.asked = "sent"])

\* Progress is reported once the token's creation was acknowledged.
Progress ==
  /\ server.kind = "progress" /\ server.asked = "acked"
  /\ \/ \E t \in Tokens \ server.begun :
          /\ \A u \in Tokens \ server.begun : t <= u
          /\ Say([k |-> "begin", token |-> t], [server EXCEPT !.begun = @ \cup {t}])
     \/ \E t \in server.begun \ server.ended :
          Say([k |-> "end", token |-> t], [server EXCEPT !.ended = @ \cup {t}])

Status ==
  /\ server.kind = "status" /\ server.opened /\ server.changes < MaxStatus
  /\ Say([k |-> "status", quiescent |-> ~server.quiet],
         [server EXCEPT !.quiet = ~@, !.changes = @ + 1])

ServerDies ==
  /\ server.alive
  /\ server' = Gone
  /\ stdin' = <<>>
  /\ UNCHANGED <<rx, client, call>>

Server == Flush \/ Hear \/ Answer \/ Ask \/ Progress \/ Status \/ ServerDies

-----------------------------------------------------------------------------
(* The client.                                                             *)

\* The reader task has ended and what it read was taken.
Closed == ~server.alive /\ rx = <<>>

\* ReadinessTracker::is_ready: a status, once there was one, has the last word.
is_ready ==
  IF client.quiescent = "none"
    THEN client.saw_cycle_end /\ client.in_flight = {}
    ELSE client.quiescent = "yes"

\* Mutant: the first end of any token makes the server ready.
FirstEnd(m) ==
  IF m.k = "begin" THEN [client EXCEPT !.in_flight = @ \cup {m.token}]
                   ELSE [client EXCEPT !.in_flight = {}, !.saw_cycle_end = TRUE]

\* ReadinessTracker::on_progress.
on_progress(m) ==
  IF m.k = "begin" THEN [client EXCEPT !.in_flight = @ \cup {m.token}]
                   ELSE [client EXCEPT !.in_flight = @ \ {m.token}, !.saw_cycle_end = TRUE]

on_server_status(m) == [client EXCEPT !.quiescent = IF m.quiescent THEN "yes" ELSE "no"]

\* Diagnostics, which the client only collects, are left out.
handle_notification(m) == IF m.k = "status" THEN on_server_status(m) ELSE on_progress(m)

Notifications == {"begin", "end", "status"}

\* next_id only counts up.  Here an id no message bears any more is taken again: all that
\* is ever asked of ids is whether two are the same.
Messages ==
  server.todo \cup UNION {{q[i] : i \in DOMAIN q} : q \in {stdin, rx, server.owes}}
Borne == {m.id : m \in {x \in Messages : x.k \in {"req", "resp"}}}

next_id == CHOOSE n \in 1..(Cardinality(Borne) + 1) : n \notin Borne

\* request: a fresh id, the message sent, then its answer awaited.
request(about) ==
  [NoCall EXCEPT !.at = "send", !.id = next_id, !.then = "recv",
                 !.out = <<[k |-> "req", id |-> next_id, about |-> about]>>]

notify(k, about) ==
  [NoCall EXCEPT !.at = "send", !.then = "done", !.out = <<[k |-> k, about |-> about]>>,
                 !.got = <<[val |-> "some"]>>]

Failed == [NoCall EXCEPT !.at = "done", !.got = <<[val |-> "error"]>>]

\* send: it waits for room, and fails once the server is gone; await_ready and
\* drain_notifications go on over that, request and notify do not.
Send ==
  /\ call.at = "send"
  /\ \/ /\ server.alive /\ Len(stdin) < PipeSize
        /\ stdin' = Append(stdin, call.out[1])
        /\ call' = [call EXCEPT !.at = call.then, !.out = <<>>]
     \/ /\ ~server.alive
        /\ call' = IF call.then \in {"await", "drain"}
                     THEN [call EXCEPT !.at = call.then, !.out = <<>>] ELSE Failed
        /\ UNCHANGED stdin
  /\ UNCHANGED <<rx, client, server>>

answer_server_request ==
  call' = [call EXCEPT !.at = "send", !.then = call.at, !.out = <<[k |-> "ack"]>>]

\* What the three loops do with a message that is not the answer awaited.
Dispatch(m) ==
  \/ m.k = "ask" /\ answer_server_request /\ UNCHANGED client
  \/ m.k \in Notifications /\ client' = handle_notification(m) /\ UNCHANGED call

\* Mutant: whatever answer arrives is the one awaited.
RecvAny ==
  /\ call.at = "recv" /\ rx # <<>>
  /\ rx' = Tail(rx)
  /\ LET m == Head(rx) IN
     \/ Dispatch(m)
     \/ /\ m.k = "resp" /\ call' = [NoCall EXCEPT !.at = "done", !.got = <<m>>]
        /\ UNCHANGED client
  /\ UNCHANGED <<stdin, server>>

\* The loop of request: an answer with another id is one its caller gave up.
Recv ==
  /\ call.at = "recv" /\ rx # <<>>
  /\ rx' = Tail(rx)
  /\ LET m == Head(rx) IN
     \/ Dispatch(m)
     \/ /\ m.k = "resp" /\ m.id = call.id
        /\ call' = [NoCall EXCEPT !.at = "done", !.got = <<m>>]
        /\ UNCHANGED client
     \/ m.k = "resp" /\ m.id # call.id /\ UNCHANGED <<call, client>>
  /\ UNCHANGED <<stdin, server>>

RecvClosed ==
  /\ call.at = "recv" /\ Closed
  /\ call' = Failed
  /\ UNCHANGED <<wire, client, server>>

\* The loops of await_ready and drain_notifications empty the channel.
TryRecv ==
  /\ call.at \in {"await", "drain"} /\ rx # <<>>
  /\ rx' = Tail(rx)
  /\ LET m == Head(rx) IN
     \/ Dispatch(m)
     \/ m.k = "resp" /\ UNCHANGED <<call, client>>
  /\ UNCHANGED <<stdin, server>>

\* await_ready returns when ready, or when its own deadline has passed.
AwaitReturns ==
  /\ call.at = "await" /\ rx = <<>>
  /\ call' = [NoCall EXCEPT !.at = "done", !.got = <<[val |-> IF is_ready THEN "some" ELSE "none"]>>]
  /\ UNCHANGED <<wire, client, server>>

DrainReturns ==
  /\ call.at = "drain" /\ rx = <<>>
  /\ call' = [NoCall EXCEPT !.at = "done"]
  /\ UNCHANGED <<wire, client, server>>

Client == Send \/ Recv \/ RecvClosed \/ TryRecv \/ AwaitReturns \/ DrainReturns

\* The future is dropped.  One that waits for room in the pipe may have written part of
\* its message.
Abandon ==
  /\ call' = NoCall
  /\ stdin' \in {stdin} \cup (IF call.at = "send" /\ server.alive /\ Len(stdin) = PipeSize
                              THEN {Append(stdin, [k |-> "cut"])} ELSE {})
  /\ UNCHANGED <<rx, client, server>>
=============================================================================
