-------------------------- MODULE EnrichmentProofs --------------------------
(***************************************************************************)
(* Enrichment for any files, connections, pipe sizes and bounds, whatever  *)
(* the language server does: what a pass stores was said of its file, and  *)
(* a server reported ready had told the client of all it works on.         *)
(***************************************************************************)
EXTENDS Enrichment, FiniteSetTheorems, TLAPS

Abouts == Files \cup {NoFile}
Req == [k : {"req"}, id : Nat, about : Abouts]
Resp == [k : {"resp"}, id : Nat, about : Abouts, val : Values]
ToServer ==
  Req \cup [k : {"didOpen", "initialized"}, about : Abouts] \cup [k : {"ack", "cut"}]
FromServer ==
  Resp \cup [k : {"ask"}] \cup [k : {"begin", "end"}, token : Tokens]
       \cup [k : {"status"}, quiescent : BOOLEAN]

Stages == {"none", "parse", "initialize", "initialized", "end"} \cup PerFile

ServerState ==
  [alive : BOOLEAN, kind : Kinds, deaf : BOOLEAN, todo : SUBSET Req,
   asked : {"no", "sent", "acked"}, begun : SUBSET Tokens, ended : SUBSET Tokens,
   quiet : BOOLEAN, changes : Nat, opened : BOOLEAN, owes : Seq(FromServer)]

ClientState ==
  [in_flight : SUBSET Tokens, saw_cycle_end : BOOLEAN, quiescent : {"none", "yes", "no"}]

Got == Resp \cup [val : {"some", "error", "none"}]

CallState ==
  [at : {"free", "send", "recv", "await", "drain", "done"}, id : Nat, out : Seq(ToServer),
   then : {"free", "recv", "await", "drain", "done"},
   got : Seq(Got)]

Typed ==
  /\ stdin \in Seq(ToServer) /\ rx \in Seq(FromServer)
  /\ server \in ServerState /\ IsFiniteSet(server.todo)
  /\ client \in ClientState
  /\ call \in CallState /\ (call.at = "send" => call.out # <<>>)
  /\ writer \in Abouts
  /\ job \in [stage : Stages, tries : Nat, symbols : Abouts]

\* What the call waits for, an acknowledgement it sends meanwhile apart.
Awaits == IF call.at = "send" THEN call.then ELSE call.at

Asking == {"initialize", "symbols", "probe", "query"}

\* Which stage of the pass made the call, and that the pass holds the writer lock.
StageInv ==
  /\ call.at = "send" => call.out # <<>> /\ call.then # "free"
  /\ Awaits = "recv" => job.stage \in Asking
  /\ Awaits = "await" => job.stage = "ready"
  /\ Awaits = "drain" => job.stage = "drain"
  /\ call.at = "send" /\ call.then = "done" => job.stage \in {"open", "initialized"}
  /\ job.stage \in {"none", "parse", "end"} => call.at = "free"
  /\ job.stage # "none" => writer \in Files
  /\ job.stage \in {"ready", "probe", "drain", "query"} => job.symbols = writer

Subject == IF job.stage = "initialize" THEN NoFile ELSE writer

\* Every message with the id of the request that is awaited is about its file, those
\* of requests given up long ago included; so is the answer it got.
IdInv ==
  /\ Awaits = "recv" =>
       \A m \in Messages \cup {call.out[i] : i \in DOMAIN call.out} :
         (m.k \in {"req", "resp"} /\ m.id = call.id) => m.about = Subject
  /\ (job.stage \in Asking /\ call.at = "done" /\ Value = "some") => call.got[1].about = Subject

\* What the server has said and the client not yet heard.
Told == UNION {{q[i] : i \in DOMAIN q} : q \in {rx, server.owes}}

\* A server that reports progress: what it works on the client knows of, or will be told.
ProgressInv ==
  server.alive /\ server.kind = "progress" =>
    /\ client.quiescent = "none"
    /\ \A m \in Told : m.k # "status" /\ (m.k = "end" => m.token \in server.ended)
    /\ \A t \in server.begun \ server.ended :
         t \in client.in_flight \/ [k |-> "begin", token |-> t] \in Told

NotQuiet == [k |-> "status", quiescent |-> FALSE]

\* A server that reports one status: while it is at work, the client has not heard it
\* is quiet, or the news that it is not follows.
StatusInv ==
  server.alive /\ server.kind = "status" =>
    /\ ~client.saw_cycle_end
    /\ \A m \in Told : m.k \notin {"begin", "end"}
    /\ \A i \in DOMAIN server.owes :
         server.owes[i].k = "status" => server.owes[i].quiescent = server.quiet
    /\ ~server.quiet =>
         /\ client.quiescent = "yes" => NotQuiet \in Told
         /\ \A i \in DOMAIN rx : rx[i].k = "status" /\ rx[i].quiescent =>
              \/ \E j \in DOMAIN rx : j > i /\ rx[j] = NotQuiet
              \/ \E j \in DOMAIN server.owes : server.owes[j] = NotQuiet

\* The server waits with one message at most.
OwesInv == server.alive => Len(server.owes) <= 1

\* The answer await_ready gave stands: nobody reads for the client until the next call.
ReadyInv == Returned("ready") /\ Value = "some" => is_ready

-----------------------------------------------------------------------------
\* What a sequence holds is finitely much.
LEMMA FiniteRange ==
  ASSUME NEW S, NEW q \in Seq(S)
  PROVE  IsFiniteSet({q[i] : i \in DOMAIN q})
<1>1. q \in Surjection(1..Len(q), {q[i] : i \in DOMAIN q})
  BY DEF Surjection
<1>2. QED
  BY <1>1, FS_Interval, FS_Surjection

\* next_id is borne by no message on its way.
LEMMA NextIdIsFresh ==
  ASSUME Typed
  PROVE  next_id \in Nat \ Borne
<1> DEFINE X == {x \in Messages : x.k \in {"req", "resp"}}
           R(q) == {q[i] : i \in DOMAIN q}
<1>1. IsFiniteSet(Messages)
  <2>1. IsFiniteSet(R(stdin)) /\ IsFiniteSet(R(rx)) /\ IsFiniteSet(R(server.owes))
    <3>1. stdin \in Seq(ToServer) /\ rx \in Seq(FromServer) /\ server.owes \in Seq(FromServer)
      BY Zenon DEF Typed, ServerState
    <3>2. QED
      BY ZenonT(30), <3>1, FiniteRange
  <2>2. Messages = ((server.todo \cup R(stdin)) \cup R(rx)) \cup R(server.owes)
    BY DEF Messages
  <2> HIDE DEF R
  <2>3. QED
    BY ZenonT(30), <2>1, <2>2, FS_Union DEF Typed
<1>2. IsFiniteSet(X)
  BY Zenon, <1>1, FS_Subset
<1>3. IsFiniteSet(Borne)
  <2>1. [x \in X |-> x.id] \in Surjection(X, Borne)
    BY Zenon DEF Surjection, Borne
  <2> HIDE DEF X
  <2>2. QED
    BY Zenon, <1>2, <2>1, FS_Surjection
<1> DEFINE n == Cardinality(Borne)
<1>4. n \in Nat
  BY Zenon, <1>3, FS_CardinalityType
<1>5. \E i \in 1..(n + 1) : i \notin Borne
  <2>1. SUFFICES ASSUME 1..(n + 1) \subseteq Borne PROVE FALSE
    BY Zenon
  <2>2. Cardinality(1..(n + 1)) <= n
    BY ZenonT(30), <1>3, <2>1, FS_Subset
  <2>3. Cardinality(1..(n + 1)) = n + 1
    BY <1>4, FS_Interval
  <2>4. QED
    BY <1>4, <2>2, <2>3
<1>6. QED
  BY <1>4, <1>5 DEF next_id

\* The client is free.
LEMMA NoCallTypes == NoCall \in CallState
<1>1. <<>> \in Seq(ToServer) /\ <<>> \in Seq(Got)
  OBVIOUS
<1>2. QED
  BY Zenon, <1>1 DEF NoCall, CallState

\* The calls the stages make.
LEMMA CallOfTypes ==
  ASSUME Typed, NEW stage
  PROVE  /\ CallOf(stage) \in CallState
         /\ CallOf(stage).at = "send" => CallOf(stage).out # <<>>
<1>1. next_id \in Nat
  BY Zenon, NextIdIsFresh
<1>2. writer \in Abouts
  BY Zenon DEF Typed
<1>3. ASSUME NEW k \in {"didOpen", "initialized"}, NEW about \in Abouts
      PROVE  notify(k, about) \in CallState /\ notify(k, about).out # <<>>
  <2>1. [k |-> k, about |-> about] \in ToServer
    BY Zenon, <1>3 DEF ToServer
  <2>2. [val |-> "some"] \in Got
    BY Zenon DEF Got
  <2>3. <<[k |-> k, about |-> about]>> \in Seq(ToServer) /\ <<[val |-> "some"]>> \in Seq(Got)
    BY <2>1, <2>2
  <2>4. QED
    BY ZenonT(30), <2>3, NoCallTypes DEF notify, CallState
<1>4. request(writer) \in CallState /\ request(writer).out # <<>>
  <2>1. [k |-> "req", id |-> next_id, about |-> writer] \in ToServer
    BY Zenon, <1>1, <1>2 DEF ToServer, Req
  <2>2. <<[k |-> "req", id |-> next_id, about |-> writer]>> \in Seq(ToServer)
    BY <2>1
  <2>3. QED
    BY ZenonT(30), <1>1, <2>2, NoCallTypes DEF request, CallState
<1>5. [NoCall EXCEPT !.at = "await"] \in CallState /\ [NoCall EXCEPT !.at = "drain"] \in CallState
  BY Zenon, NoCallTypes DEF CallState
<1>6. NoFile \in Abouts
  BY Zenon DEF Abouts
<1>7. QED
  BY Zenon, <1>2, <1>3, <1>4, <1>5, <1>6 DEF CallOf, NoCall

-----------------------------------------------------------------------------
\* What the server writes goes into the channel, or it waits with it.
LEMMA SayTypes ==
  ASSUME Typed, NEW m \in FromServer, NEW s \in ServerState, IsFiniteSet(s.todo), Say(m, s)
  PROVE  rx' \in Seq(FromServer) /\ server' \in ServerState /\ IsFiniteSet(server'.todo)
<1>1. <<m>> \in Seq(FromServer)
  OBVIOUS
<1>2. CASE Len(rx) < Backlog
  BY <1>2 DEF Say, Typed
<1>3. CASE ~(Len(rx) < Backlog)
  BY ZenonT(30), <1>1, <1>3 DEF Say, Typed, ServerState
<1>4. QED
  BY Zenon, <1>2, <1>3

\* One step of the server.
LEMMA ServerTypes ==
  ASSUME Typed, Server
  PROVE  /\ stdin' \in Seq(ToServer) /\ rx' \in Seq(FromServer)
         /\ server' \in ServerState /\ IsFiniteSet(server'.todo)
<1> DEFINE Goal == /\ stdin' \in Seq(ToServer) /\ rx' \in Seq(FromServer)
                   /\ server' \in ServerState /\ IsFiniteSet(server'.todo)
<1>0. server \in ServerState /\ IsFiniteSet(server.todo)
  BY Zenon DEF Typed
<1>1. CASE Flush
  <2>1. <<>> \in Seq(FromServer) /\ server.owes \in Seq(FromServer)
    BY <1>0 DEF ServerState
  <2>2. rx' \in Seq(FromServer)
    BY <1>1, <2>1 DEF Flush, Typed
  <2>3. server' \in ServerState /\ server'.todo = server.todo
    BY ZenonT(30), <1>0, <1>1, <2>1 DEF Flush, ServerState
  <2>4. QED
    BY Zenon, <1>0, <1>1, <2>2, <2>3 DEF Flush, Typed
<1>2. CASE Hear
  <2>1. stdin' \in Seq(ToServer) /\ Head(stdin) \in ToServer
    BY <1>2 DEF Hear, Typed
  <2>2. Head(stdin).k = "req" => Head(stdin) \in Req
    BY Zenon, <2>1 DEF ToServer
  <2>3. \/ server' \in {server, [server EXCEPT !.deaf = TRUE], [server EXCEPT !.asked = "acked"],
                        [server EXCEPT !.opened = TRUE]}
        \/ Head(stdin).k = "req" /\ server' = [server EXCEPT !.todo = @ \cup {Head(stdin)}]
    BY Zenon, <1>2 DEF Hear
  <2>4. IsFiniteSet(server.todo \cup {Head(stdin)})
    BY Zenon, <1>0, FS_AddElement
  <2>5. server' \in ServerState /\ IsFiniteSet(server'.todo)
    <3>1. ASSUME Head(stdin) \in Req, server' = [server EXCEPT !.todo = @ \cup {Head(stdin)}]
          PROVE  server' \in ServerState /\ server'.todo = server.todo \cup {Head(stdin)}
      BY Zenon, <1>0, <3>1 DEF ServerState
    <3>2. ASSUME server' \in {server, [server EXCEPT !.deaf = TRUE],
                              [server EXCEPT !.asked = "acked"], [server EXCEPT !.opened = TRUE]}
          PROVE  server' \in ServerState /\ server'.todo = server.todo
      BY ZenonT(30), <1>0, <3>2 DEF ServerState
    <3>3. QED
      BY Zenon, <1>0, <2>2, <2>3, <2>4, <3>1, <3>2
  <2>6. QED
    BY Zenon, <1>2, <2>1, <2>5 DEF Hear, Typed
<1>3. CASE Answer
  <2>1. PICK m \in server.todo, v \in Values :
          Say([k |-> "resp", id |-> m.id, about |-> m.about, val |-> v],
              [server EXCEPT !.todo = @ \ {m}])
    BY ZenonT(30), <1>3 DEF Answer
  <2>2. [k |-> "resp", id |-> m.id, about |-> m.about, val |-> v] \in FromServer
    BY Zenon, <1>0, <2>1 DEF ServerState, Req, Resp, FromServer
  <2>3. IsFiniteSet(server.todo \ {m})
    BY Zenon, <1>0, FS_RemoveElement
  <2>4. [server EXCEPT !.todo = @ \ {m}] \in ServerState
    BY Zenon, <1>0 DEF ServerState
  <2>5. IsFiniteSet([server EXCEPT !.todo = @ \ {m}].todo)
    BY Zenon, <1>0, <2>3 DEF ServerState
  <2>6. QED
    BY ZenonT(30), <2>1, <2>2, <2>4, <2>5, SayTypes DEF Say, Typed
<1>4. CASE Ask
  <2>1. [k |-> "ask"] \in FromServer
    BY Zenon DEF FromServer
  <2>2. /\ [server EXCEPT !.asked = "sent"] \in ServerState
        /\ IsFiniteSet([server EXCEPT !.asked = "sent"].todo)
    BY Zenon, <1>0 DEF ServerState
  <2>3. QED
    BY ZenonT(30), <1>4, <2>1, <2>2, SayTypes DEF Ask, Say, Typed
<1>5. CASE Progress
  <2>1. ASSUME NEW t \in Tokens
        PROVE  /\ [k |-> "begin", token |-> t] \in FromServer
               /\ [k |-> "end", token |-> t] \in FromServer
               /\ [server EXCEPT !.begun = @ \cup {t}] \in ServerState
               /\ [server EXCEPT !.ended = @ \cup {t}] \in ServerState
               /\ IsFiniteSet([server EXCEPT !.begun = @ \cup {t}].todo)
               /\ IsFiniteSet([server EXCEPT !.ended = @ \cup {t}].todo)
    BY ZenonT(30), <1>0 DEF FromServer, ServerState
  <2>2. server.begun \subseteq Tokens
    BY Zenon, <1>0 DEF ServerState
  <2>3. ASSUME NEW t \in Tokens,
               \/ Say([k |-> "begin", token |-> t], [server EXCEPT !.begun = @ \cup {t}])
               \/ Say([k |-> "end", token |-> t], [server EXCEPT !.ended = @ \cup {t}])
        PROVE  Goal
    BY ZenonT(30), <2>1, <2>3, SayTypes DEF Say, Typed
  <2>4. QED
    BY ZenonT(30), <1>5, <2>2, <2>3 DEF Progress
<1>6. CASE Status
  <2>1. [k |-> "status", quiescent |-> ~server.quiet] \in FromServer
    BY Zenon, <1>0 DEF FromServer, ServerState
  <2>2. /\ [server EXCEPT !.quiet = ~@, !.changes = @ + 1] \in ServerState
        /\ IsFiniteSet([server EXCEPT !.quiet = ~@, !.changes = @ + 1].todo)
    <3>1. (~server.quiet) \in BOOLEAN /\ server.changes + 1 \in Nat
      BY <1>0 DEF ServerState
    <3>2. ASSUME NEW b \in BOOLEAN, NEW n \in Nat
          PROVE  /\ [server EXCEPT !.quiet = b, !.changes = n] \in ServerState
                 /\ IsFiniteSet([server EXCEPT !.quiet = b, !.changes = n].todo)
      BY ZenonT(30), <1>0 DEF ServerState
    <3>3. QED
      BY Zenon, <3>1, <3>2
  <2>3. QED
    BY ZenonT(30), <1>6, <2>1, <2>2, SayTypes DEF Status, Say, Typed
<1>7. CASE ServerDies
  <2>1. Gone \in ServerState /\ Gone.todo = {}
    <3>1. <<>> \in Seq(FromServer)
      OBVIOUS
    <3>2. QED
      BY ZenonT(30), <3>1 DEF Gone, FreshServer, ServerState, Kinds
  <2>2. QED
    BY <1>7, <2>1, FS_EmptySet DEF ServerDies, Typed
<1>8. QED
  BY Zenon, <1>1, <1>2, <1>3, <1>4, <1>5, <1>6, <1>7 DEF Server

\* One step of the client.
LEMMA ClientTypes ==
  ASSUME Typed, Client
  PROVE  /\ stdin' \in Seq(ToServer) /\ rx' \in Seq(FromServer)
         /\ client' \in ClientState
         /\ call' \in CallState /\ (call'.at = "send" => call'.out # <<>>)
<1> DEFINE Calls == call' \in CallState /\ (call'.at = "send" => call'.out # <<>>)
<1>0. /\ call \in CallState /\ client \in ClientState
      /\ stdin \in Seq(ToServer) /\ rx \in Seq(FromServer)
  BY Zenon DEF Typed
<1>1. <<>> \in Seq(ToServer) /\ <<[k |-> "ack"]>> \in Seq(ToServer)
  <2>1. [k |-> "ack"] \in ToServer
    BY Zenon DEF ToServer
  <2>2. QED
    BY <2>1
<1>2. ASSUME NEW got \in Seq(Got)
      PROVE  [NoCall EXCEPT !.at = "done", !.got = got] \in CallState
  BY ZenonT(30), <1>2, NoCallTypes DEF CallState
<1>3. ASSUME NEW v \in {"some", "error", "none"} PROVE <<[val |-> v]>> \in Seq(Got)
  BY DEF Got
<1>4. Failed \in CallState /\ Failed.at = "done"
  BY ZenonT(30), <1>2, <1>3, NoCallTypes DEF Failed, CallState
<1>5. ASSUME NEW m \in FromServer, Dispatch(m), call.at \in {"recv", "await", "drain"}
      PROVE  Calls /\ client' \in ClientState
  <2>1. CASE m.k = "ask" /\ answer_server_request /\ UNCHANGED client
    BY ZenonT(30), <1>0, <1>1, <1>5, <2>1 DEF answer_server_request, CallState
  <2>2. CASE m.k \in Notifications /\ client' = handle_notification(m) /\ UNCHANGED call
    <3>1. m.k \in {"begin", "end"} => m.token \in Tokens
      BY Zenon DEF FromServer, Resp
    <3>2. client' \in ClientState
      BY ZenonT(30), <1>0, <2>2, <3>1
         DEF Notifications, handle_notification, on_progress, on_server_status, ClientState
    <3>3. QED
      BY Zenon, <1>0, <2>2, <3>2 DEF Typed
  <2>3. QED
    BY Zenon, <1>5, <2>1, <2>2 DEF Dispatch
<1>6. ASSUME rx # <<>>
      PROVE  /\ Tail(rx) \in Seq(FromServer) /\ Head(rx) \in FromServer
             /\ Head(rx).k = "resp" => <<Head(rx)>> \in Seq(Got)
  <2>1. Tail(rx) \in Seq(FromServer) /\ Head(rx) \in FromServer
    BY <1>0, <1>6
  <2>2. Head(rx).k = "resp" => Head(rx) \in Got
    BY Zenon, <2>1 DEF FromServer, Got
  <2>3. QED
    BY <2>1, <2>2
<1>7. CASE Send
  <2>1. call.out[1] \in ToServer
    BY <1>0, <1>7 DEF Send, Typed, CallState
  <2>2. [call EXCEPT !.at = call.then, !.out = <<>>] \in CallState /\ call.then # "send"
    BY ZenonT(30), <1>0, <1>1 DEF CallState
  <2>3. Append(stdin, call.out[1]) \in Seq(ToServer)
    BY <1>0, <2>1
  <2>4. [call EXCEPT !.at = call.then, !.out = <<>>].at # "send"
    BY Zenon, <1>0, <2>2 DEF CallState
  <2> DEFINE c == [call EXCEPT !.at = call.then, !.out = <<>>]
  <2>5. (stdin' = stdin \/ stdin' = Append(stdin, call.out[1])) /\ (call' = c \/ call' = Failed)
    BY Zenon, <1>7 DEF Send
  <2> HIDE DEF c
  <2>6. c \in CallState /\ c.at # "send"
    BY Zenon, <2>2, <2>4 DEF c
  <2>7. QED
    BY ZenonT(30), <1>0, <1>4, <1>7, <2>3, <2>5, <2>6 DEF Send
<1>8. CASE Recv
  <2>1. Head(rx).k = "resp" => [NoCall EXCEPT !.at = "done", !.got = <<Head(rx)>>] \in CallState
    BY ZenonT(30), <1>2, <1>6, <1>8 DEF Recv
  <2>2. [NoCall EXCEPT !.at = "done", !.got = <<Head(rx)>>].at = "done"
    BY Zenon DEF NoCall
  <2>3. CASE Dispatch(Head(rx))
    BY Zenon, <1>0, <1>5, <1>6, <1>8, <2>3 DEF Recv
  <2>4. CASE Head(rx).k = "resp" /\ UNCHANGED client
             /\ (UNCHANGED call \/ call' = [NoCall EXCEPT !.at = "done", !.got = <<Head(rx)>>])
    BY ZenonT(30), <1>0, <1>6, <1>8, <2>1, <2>2, <2>4 DEF Recv
  <2>5. QED
    BY ZenonT(30), <1>8, <2>3, <2>4 DEF Recv
<1>9. CASE TryRecv
  <2>1. CASE Dispatch(Head(rx))
    BY Zenon, <1>0, <1>5, <1>6, <1>9, <2>1 DEF TryRecv
  <2>2. CASE UNCHANGED <<call, client>>
    BY Zenon, <1>0, <1>6, <1>9, <2>2 DEF TryRecv, Typed
  <2>3. QED
    BY Zenon, <1>9, <2>1, <2>2 DEF TryRecv
<1>10. CASE RecvClosed
  BY Zenon, <1>0, <1>4, <1>10 DEF RecvClosed, wire
<1>11. CASE AwaitReturns
  <2>1. [NoCall EXCEPT !.at = "done", !.got = <<[val |-> IF is_ready THEN "some" ELSE "none"]>>]
          \in CallState
    BY ZenonT(30), <1>2, <1>3
  <2>2. QED
    BY Zenon, <1>0, <1>11, <2>1 DEF AwaitReturns, wire, NoCall
<1>12. CASE DrainReturns
  BY ZenonT(30), <1>0, <1>12, NoCallTypes DEF DrainReturns, wire, NoCall, CallState
<1>13. QED
  BY Zenon, <1>7, <1>8, <1>9, <1>10, <1>11, <1>12 DEF Client

\* A stage that starts makes the call that is its own.
LEMMA StartTypes ==
  ASSUME Typed, NEW stage \in Stages, NEW tries \in Nat, NEW symbols \in Abouts,
         Start(stage, tries, symbols)
  PROVE  /\ job' \in [stage : Stages, tries : Nat, symbols : Abouts]
         /\ call' \in CallState /\ (call'.at = "send" => call'.out # <<>>)
BY Zenon, CallOfTypes DEF Start

\* A pass that ends makes no call.
LEMMA EndTypes ==
  ASSUME End
  PROVE  /\ job' \in [stage : Stages, tries : Nat, symbols : Abouts]
         /\ call' \in CallState /\ (call'.at = "send" => call'.out # <<>>)
<1>1. call' = NoCall /\ NoCall.at = "free"
  BY Zenon DEF End, NoCall
<1>2. job' \in [stage : Stages, tries : Nat, symbols : Abouts]
  BY Zenon DEF End, NoJob, Stages, Abouts
<1>3. QED
  BY Zenon, <1>1, <1>2, NoCallTypes

\* Every action keeps the types.
LEMMA TypeStep ==
  ASSUME Typed, StageInv, IdInv, [Next]_vars
  PROVE  Typed'
<1> DEFINE Job == job' \in [stage : Stages, tries : Nat, symbols : Abouts]
           Calls == call' \in CallState /\ (call'.at = "send" => call'.out # <<>>)
<1> USE DEF lsp, wire, Rest
<1>0. NoFile \in Abouts /\ {"open", "initialized", "symbols", "ready", "drain", "probe", "query"}
                             \subseteq Stages
  BY Zenon DEF Abouts, Stages, PerFile
<1>1. ASSUME UNCHANGED <<lsp, writer, job>> PROVE Typed'
  BY Zenon, <1>1 DEF Typed
<1>2. ASSUME NEW f \in Files, Acquire(f) PROVE Typed'
  BY Zenon, <1>2 DEF Acquire, Typed, NoJob, Stages, Abouts
<1>3. ASSUME UNCHANGED <<wire, client, server, writer>>, Job, Calls PROVE Typed'
  BY Zenon, <1>3 DEF Typed
<1>4. ASSUME Open PROVE Job /\ Calls
  BY Zenon, <1>0, <1>4, StartTypes, EndTypes DEF Open
<1>5. CASE Skip \/ UsePooled
  BY Zenon, <1>3, <1>4, <1>5, EndTypes DEF Skip, UsePooled
<1>6. CASE Spawn
  <2>1. ASSUME NEW kind \in Kinds PROVE FreshServer(kind) \in ServerState
    <3>1. <<>> \in Seq(FromServer)
      OBVIOUS
    <3>2. QED
      BY Zenon, <3>1 DEF FreshServer, ServerState
  <2>2. server' \in ServerState /\ server'.todo = {}
    BY <1>6, <2>1 DEF Spawn, FreshServer
  <2>3. <<[k |-> "req", id |-> 1, about |-> NoFile]>> \in Seq(ToServer)
    <3>1. [k |-> "req", id |-> 1, about |-> NoFile] \in ToServer
      BY Zenon, <1>0 DEF ToServer, Req
    <3>2. QED
      BY <3>1
  <2>4. Calls
    BY ZenonT(30), <1>6, <2>3, NoCallTypes DEF Spawn, CallState
  <2>5. client' \in ClientState
    BY Zenon, <1>6 DEF Spawn, FreshClient, ClientState
  <2>6. Job
    BY Zenon, <1>6 DEF Spawn, NoJob, Stages, Abouts
  <2>7. QED
    BY <1>6, <2>2, <2>4, <2>5, <2>6, FS_EmptySet DEF Spawn, Typed
<1>7. CASE Handshaken
  <2>1. Job /\ Calls
    BY Zenon, <1>0, <1>4, <1>7, StartTypes, EndTypes DEF Handshaken
  <2>2. Gone \in ServerState /\ Gone.todo = {}
    <3>1. <<>> \in Seq(FromServer)
      OBVIOUS
    <3>2. QED
      BY ZenonT(30), <3>1 DEF Gone, FreshServer, ServerState, Kinds
  <2>3. \/ UNCHANGED <<wire, server>>
        \/ server' = Gone /\ stdin' = <<>> /\ rx' = <<>>
    BY Zenon, <1>7 DEF Handshaken
  <2>4. server' \in ServerState /\ IsFiniteSet(server'.todo)
    BY ZenonT(30), <2>2, <2>3, FS_EmptySet DEF Typed
  <2>5. stdin' \in Seq(ToServer) /\ rx' \in Seq(FromServer)
    <3>1. <<>> \in Seq(ToServer) /\ <<>> \in Seq(FromServer)
      OBVIOUS
    <3>2. CASE stdin' = <<>> /\ rx' = <<>>
      BY Zenon, <3>1, <3>2
    <3>3. CASE stdin' = stdin /\ rx' = rx
      BY Zenon, <3>3 DEF Typed
    <3>4. QED
      BY Zenon, <2>3, <3>2, <3>3
  <2>6. client' = client /\ writer' = writer
    BY Zenon, <1>7 DEF Handshaken
  <2>7. QED
    BY Zenon, <2>1, <2>4, <2>5, <2>6 DEF Typed
<1>8. CASE Continue
  <2>1. job.symbols \in Abouts /\ job.tries + 1 \in Nat /\ job.stage \in Stages
    BY DEF Typed
  <2>2. Returned("symbols") /\ Value = "some" => call.got[1].about \in Abouts
    BY Zenon DEF IdInv, Returned, Asking, Subject, Typed
  <2>3. ASSUME NEW stage \in Stages, NEW tries \in Nat, NEW symbols \in Abouts,
               Start(stage, tries, symbols)
        PROVE  Job /\ Calls
    BY Zenon, <2>3, StartTypes
  <2>4. Job /\ Calls
    BY Zenon, <1>0, <1>8, <2>1, <2>2, <2>3, EndTypes DEF Continue, Again
  <2>5. QED
    BY Zenon, <1>3, <1>8, <2>4 DEF Continue
<1>9. CASE Merge \/ Project
  <2>1. Job /\ Calls
    BY ZenonT(30), <1>0, <1>9, StartTypes, EndTypes DEF Merge, Project, Typed
  <2>2. QED
    BY Zenon, <1>3, <1>9, <2>1 DEF Merge, Project
<1>10. CASE Release
  BY Zenon, <1>10 DEF Release, Typed, NoJob, Stages, Abouts
<1>11. CASE Timeout
  <2>1. [k |-> "cut"] \in ToServer /\ NoCall.at = "free"
    BY Zenon DEF ToServer, NoCall
  <2>2. Append(stdin, [k |-> "cut"]) \in Seq(ToServer)
    BY <2>1 DEF Typed
  <2>3. Job
    BY Zenon, <1>11 DEF Timeout, NoJob, Stages, Abouts
  <2>4. stdin' \in Seq(ToServer) /\ call' = NoCall
    BY ZenonT(30), <1>11, <2>2 DEF Timeout, Abandon, Typed
  <2>5. QED
    BY Zenon, <1>11, <2>1, <2>3, <2>4, NoCallTypes DEF Timeout, Abandon, Typed
<1>12. CASE Server /\ Outside
  <2>1. UNCHANGED <<client, call>>
    BY ZenonT(30), <1>12 DEF Server, Flush, Hear, Answer, Ask, Progress, Status, ServerDies, Say
  <2>2. QED
    BY Zenon, <1>12, <2>1, ServerTypes DEF Outside, Typed
<1>13. CASE Client /\ Outside
  <2>1. UNCHANGED server
    BY Zenon, <1>13 DEF Client, Send, Recv, RecvClosed, TryRecv, AwaitReturns, DrainReturns
  <2>2. QED
    BY Zenon, <1>13, <2>1, ClientTypes DEF Outside, Typed
<1>14. ASSUME NEW c \in Conns,
      needs_enrich(c) \/ try_enrich_file(c) \/ \E f \in Files : Query(c, f)
       PROVE  Typed'
  BY Zenon, <1>1, <1>14 DEF needs_enrich, try_enrich_file, Query
<1>15. ASSUME NEW f \in Files, Ungate(f) PROVE Typed'
  BY Zenon, <1>1, <1>15 DEF Ungate
<1>16. CASE UNCHANGED vars
  BY Zenon, <1>1, <1>16 DEF vars
<1>17. QED
  BY Zenon, <1>2, <1>5, <1>6, <1>7, <1>8, <1>9, <1>10, <1>11, <1>12, <1>13, <1>14, <1>15, <1>16
     DEF Next, Task

-----------------------------------------------------------------------------
\* What a call waits for as its stage starts it.
LEMMA StartStage ==
  ASSUME NEW stage, NEW tries, NEW symbols, Start(stage, tries, symbols)
  PROVE  /\ job' = [stage |-> stage, tries |-> tries, symbols |-> symbols]
         /\ call'.at = CASE stage = "ready" -> "await" [] stage = "drain" -> "drain"
                         [] OTHER -> "send"
         /\ call'.at = "send" =>
              /\ call'.out # <<>>
              /\ call'.then = IF stage \in {"open", "initialized"} THEN "done" ELSE "recv"
BY Zenon DEF Start, CallOf, notify, request, NoCall

\* Every action keeps the calls with their stages.
LEMMA StageStep ==
  ASSUME Typed, StageInv, IdInv, [Next]_vars
  PROVE  StageInv'
<1> USE DEF lsp, wire, Rest
<1>1. ASSUME UNCHANGED <<lsp, writer, job>> PROVE StageInv'
  BY Zenon, <1>1 DEF StageInv, Awaits
<1>2. ASSUME NEW f \in Files, Acquire(f) PROVE StageInv'
  BY Zenon, <1>2, NoFileIsNone DEF Acquire, StageInv, Awaits, NoJob
<1>3. ASSUME End, writer' = writer, job.stage # "none" PROVE StageInv'
  BY Zenon, <1>3 DEF End, StageInv, Awaits, NoJob, NoCall
<1>4. ASSUME NEW stage \in Stages \ {"none", "parse", "end"}, NEW tries, NEW symbols,
             Start(stage, tries, symbols), writer' = writer, job.stage # "none",
             stage \in {"ready", "probe", "drain", "query"} => symbols = writer
      PROVE  StageInv'
  <2>1. stage \in Asking \cup {"open", "initialized", "ready", "drain"}
    BY Zenon DEF Stages, PerFile, Asking
  <2>2. QED
    BY <1>4, <2>1, StartStage DEF StageInv, Awaits, Asking
<1>5. ASSUME Open, writer' = writer, job.stage # "none" PROVE StageInv'
  BY Zenon, <1>3, <1>4, <1>5 DEF Open, Stages, PerFile
<1>6. CASE Skip \/ UsePooled
  BY Zenon, <1>3, <1>5, <1>6 DEF Skip, UsePooled
<1>7. CASE Spawn
  BY Zenon, <1>7 DEF Spawn, StageInv, Awaits, NoCall, NoJob, Asking
<1>8. CASE Handshaken
  BY Zenon, <1>3, <1>4, <1>5, <1>8 DEF Handshaken, Returned, Stages
<1>9. CASE Continue
  <2>1. writer' = writer
    BY Zenon, <1>9 DEF Continue
  <2>2. Returned("symbols") /\ Value = "some" => call.got[1].about = writer
    BY Zenon DEF Returned, IdInv, Asking, Subject
  <2>3. job.stage \in {"ready", "probe", "drain", "query"} => job.symbols = writer
    BY Zenon DEF StageInv
  <2>4. CASE Returned("open") \/ Returned("symbols")
    BY Zenon, <1>3, <1>4, <1>9, <2>1, <2>2, <2>4 DEF Continue, Again, Returned, Stages, PerFile
  <2>5. CASE Returned("ready") \/ Returned("probe")
    BY Zenon, <1>3, <1>4, <1>9, <2>1, <2>3, <2>5 DEF Continue, Again, Returned, Stages, PerFile
  <2>6. QED
    BY Zenon, <1>9, <2>4, <2>5 DEF Continue
<1>10. CASE Merge \/ Project
  <2>1. job.stage = "drain" => job.symbols = writer
    BY Zenon DEF StageInv
  <2>2. QED
    BY Zenon, <1>3, <1>4, <1>10, <2>1 DEF Merge, Project, Returned, Stages, PerFile
<1>11. CASE Release
  BY Zenon, <1>11 DEF Release, StageInv, Awaits, NoJob, Asking
<1>12. CASE Timeout
  BY ZenonT(30), <1>12 DEF Timeout, Abandon, StageInv, Awaits, NoJob, NoCall, PerFile
<1>13. CASE Server /\ Outside
  BY ZenonT(30), <1>13 DEF Server, Flush, Hear, Answer, Ask, Progress, Status, ServerDies, Say,
     Outside,
               StageInv, Awaits
<1>14. CASE Client /\ Outside
  <2>1. call \in CallState /\ writer' = writer /\ job' = job
    BY Zenon, <1>14 DEF Typed, Outside
  <2>2. CASE Send
    BY ZenonT(30), <2>1, <2>2 DEF Send, Failed, NoCall, StageInv, Awaits, CallState
  <2>3. ASSUME call' = [NoCall EXCEPT !.at = "done", !.got = call'.got],
               call.at \in {"recv", "await", "drain"}
        PROVE  StageInv'
    BY ZenonT(30), <2>1, <2>3 DEF NoCall, StageInv, Awaits, Asking
  <2>4. ASSUME UNCHANGED call PROVE StageInv'
    BY Zenon, <2>1, <2>4 DEF StageInv, Awaits
  <2>5. ASSUME answer_server_request, call.at \in {"recv", "await", "drain"} PROVE StageInv'
    BY Zenon, <2>1, <2>5 DEF answer_server_request, StageInv, Awaits, CallState
  <2>6. CASE Recv
    BY ZenonT(30), <2>3, <2>4, <2>5, <2>6 DEF Recv, Dispatch, NoCall
  <2>7. CASE TryRecv
    BY Zenon, <2>4, <2>5, <2>7 DEF TryRecv, Dispatch
  <2>8. CASE RecvClosed \/ AwaitReturns \/ DrainReturns
    BY ZenonT(30), <2>3, <2>8 DEF RecvClosed, AwaitReturns, DrainReturns, Failed, NoCall
  <2>9. QED
    BY Zenon, <1>14, <2>2, <2>6, <2>7, <2>8 DEF Client
<1>15. ASSUME NEW c \in Conns,
      needs_enrich(c) \/ try_enrich_file(c) \/ \E f \in Files : Query(c, f)
       PROVE  StageInv'
  BY Zenon, <1>1, <1>15 DEF needs_enrich, try_enrich_file, Query
<1>16. ASSUME NEW f \in Files, Ungate(f) PROVE StageInv'
  BY Zenon, <1>1, <1>16 DEF Ungate
<1>17. CASE UNCHANGED vars
  BY Zenon, <1>1, <1>17 DEF vars
<1>18. QED
  BY Zenon, <1>2, <1>6, <1>7, <1>8, <1>9, <1>10, <1>11, <1>12, <1>13, <1>14, <1>15, <1>16, <1>17
     DEF Next, Task

-----------------------------------------------------------------------------
\* What a queue holds after a message was put at its end.
LEMMA AppendHolds ==
  ASSUME NEW S, NEW q \in Seq(S), NEW x \in S
  PROVE  /\ \A i \in DOMAIN Append(q, x) :
              Append(q, x)[i] = x \/ \E j \in DOMAIN q : q[j] = Append(q, x)[i]
         /\ \A j \in DOMAIN q : j \in DOMAIN Append(q, x) /\ Append(q, x)[j] = q[j]
         /\ Len(q) + 1 \in DOMAIN Append(q, x) /\ Append(q, x)[Len(q) + 1] = x
<1>1. DOMAIN q = 1..Len(q) /\ Len(q) \in Nat /\ DOMAIN Append(q, x) = 1..(Len(q) + 1)
  OBVIOUS
<1>2. Append(q, x)[Len(q) + 1] = x /\ \A j \in 1..Len(q) : Append(q, x)[j] = q[j]
  OBVIOUS
<1>3. \A i \in 1..(Len(q) + 1) : i = Len(q) + 1 \/ i \in 1..Len(q)
  BY <1>1
<1>4. QED
  BY <1>1, <1>2, <1>3

\* The same of the queue whose first message was taken.
LEMMA TailHolds ==
  ASSUME NEW S, NEW q \in Seq(S), q # <<>>
  PROVE  /\ \A i \in DOMAIN Tail(q) : i + 1 \in DOMAIN q /\ Tail(q)[i] = q[i + 1]
         /\ \A j \in DOMAIN q : j > 1 => j - 1 \in DOMAIN Tail(q) /\ Tail(q)[j - 1] = q[j]
         /\ 1 \in DOMAIN q /\ Head(q) = q[1]
<1>1. /\ DOMAIN q = 1..Len(q) /\ Len(q) \in Nat /\ Len(q) > 0
      /\ DOMAIN Tail(q) = 1..(Len(q) - 1) /\ Head(q) = q[1]
  OBVIOUS
<1>2. \A i \in 1..(Len(q) - 1) : Tail(q)[i] = q[i + 1]
  OBVIOUS
<1>3. QED
  BY <1>1, <1>2

Holds(q, m) == \E i \in DOMAIN q : q[i] = m

\* A message is on its way in one of four places.
LEMMA MessagesAre ==
  /\ \A m : m \in Messages <=>
       m \in server.todo \/ Holds(stdin, m) \/ Holds(rx, m) \/ Holds(server.owes, m)
  /\ \A m : m \in Messages' <=>
       m \in server'.todo \/ Holds(stdin', m) \/ Holds(rx', m) \/ Holds(server'.owes, m)
BY DEF Messages, Holds

\* What the server writes is all that is new on its way.
LEMMA SayMessages ==
  ASSUME Typed, NEW x \in FromServer, NEW s \in ServerState, Say(x, s),
         s.todo \subseteq server.todo, s.owes = server.owes, NEW m \in Messages'
  PROVE  m \in Messages \/ m = x
<1>1. CASE Len(rx) < Backlog
  <2>1. rx' = Append(rx, x) /\ server' = s /\ stdin' = stdin
    BY Zenon, <1>1 DEF Say
  <2>2. Holds(rx', m) => Holds(rx, m) \/ m = x
    BY <2>1, AppendHolds DEF Holds, Typed
  <2>3. QED
    BY Zenon, <2>1, <2>2, MessagesAre
<1>2. CASE ~(Len(rx) < Backlog)
  <2>1. rx' = rx /\ server'.owes = <<x>> /\ server'.todo = s.todo /\ stdin' = stdin
    BY Zenon, <1>2 DEF Say, ServerState
  <2>2. Holds(server'.owes, m) => m = x
    BY <2>1 DEF Holds
  <2>3. QED
    BY Zenon, <2>1, <2>2, MessagesAre
<1>3. QED
  BY Zenon, <1>1, <1>2

\* The server invents no id: an answer has the id and the file of its request.
LEMMA ServerKeepsIds ==
  ASSUME Typed, Server, NEW m \in Messages', m.k \in {"req", "resp"}
  PROVE  \E x \in Messages : x.k \in {"req", "resp"} /\ x.id = m.id /\ x.about = m.about
<1>0. server \in ServerState
  BY Zenon DEF Typed
<1>1. CASE Flush
  <2>1. server.owes \in Seq(FromServer) /\ server.owes # <<>> /\ rx \in Seq(FromServer)
    BY Zenon, <1>0, <1>1 DEF Flush, ServerState, Typed
  <2>2. 1 \in DOMAIN server.owes /\ server.owes[1] \in FromServer
    BY <2>1
  <2>3. Holds(rx', m) => Holds(rx, m) \/ Holds(server.owes, m)
    BY <1>1, <2>1, <2>2, AppendHolds DEF Flush, Holds
  <2>4. server'.todo = server.todo /\ server'.owes = <<>> /\ stdin' = stdin
    BY Zenon, <1>0, <1>1 DEF Flush, ServerState
  <2>5. ~Holds(<<>>, m)
    BY DEF Holds
  <2>6. m \in Messages
    BY Zenon, <2>3, <2>4, <2>5, MessagesAre
  <2>7. QED
    BY Zenon, <2>6
<1>2. CASE Hear
  <2>1. stdin \in Seq(ToServer) /\ stdin # <<>> /\ stdin' = Tail(stdin) /\ rx' = rx
    BY Zenon, <1>2 DEF Hear, Typed
  <2>2. Holds(stdin', m) => Holds(stdin, m)
    BY <2>1, TailHolds DEF Holds
  <2>3. Holds(stdin, Head(stdin))
    BY Zenon, <2>1, TailHolds DEF Holds
  <2>4. server'.todo \subseteq server.todo \cup {Head(stdin)} /\ server'.owes = server.owes
    BY Zenon, <1>0, <1>2 DEF Hear, ServerState
  <2>5. m \in Messages
    BY Zenon, <2>1, <2>2, <2>3, <2>4, MessagesAre
  <2>6. QED
    BY Zenon, <2>5
<1>3. CASE Answer
  <2>1. PICK x \in server.todo, v \in Values :
          Say([k |-> "resp", id |-> x.id, about |-> x.about, val |-> v],
              [server EXCEPT !.todo = @ \ {x}])
    BY ZenonT(30), <1>3 DEF Answer
  <2>2. [k |-> "resp", id |-> x.id, about |-> x.about, val |-> v] \in FromServer /\ x.k = "req"
    BY Zenon, <1>0, <2>1 DEF ServerState, Req, Resp, FromServer
  <2>3. [server EXCEPT !.todo = @ \ {x}] \in ServerState
    BY Zenon, <1>0 DEF ServerState
  <2>4. /\ [server EXCEPT !.todo = @ \ {x}].todo \subseteq server.todo
        /\ [server EXCEPT !.todo = @ \ {x}].owes = server.owes
    BY Zenon, <1>0 DEF ServerState
  <2>5. m \in Messages \/ m = [k |-> "resp", id |-> x.id, about |-> x.about, val |-> v]
    BY ZenonT(30), <2>1, <2>2, <2>3, <2>4, SayMessages
  <2>6. x \in Messages
    BY Zenon, <2>1, MessagesAre
  <2>7. QED
    BY <2>2, <2>5, <2>6
<1>4. ASSUME NEW x \in FromServer, NEW s \in ServerState, Say(x, s),
             s.todo = server.todo, s.owes = server.owes, x.k \notin {"req", "resp"}
      PROVE  m \in Messages
  BY Zenon, <1>4, SayMessages
<1>5. CASE Ask
  <2>1. [k |-> "ask"] \in FromServer
    BY Zenon DEF FromServer
  <2>2. /\ [server EXCEPT !.asked = "sent"] \in ServerState
        /\ [server EXCEPT !.asked = "sent"].todo = server.todo
        /\ [server EXCEPT !.asked = "sent"].owes = server.owes
    BY Zenon, <1>0 DEF ServerState
  <2>3. QED
    BY ZenonT(30), <1>4, <1>5, <2>1, <2>2 DEF Ask
<1>6. CASE Progress
  <2>1. ASSUME NEW t \in Tokens, NEW k \in {"begin", "end"}
        PROVE  [k |-> k, token |-> t] \in FromServer
    BY Zenon DEF FromServer
  <2>2. ASSUME NEW t \in Tokens
        PROVE  /\ [server EXCEPT !.begun = @ \cup {t}] \in ServerState
               /\ [server EXCEPT !.ended = @ \cup {t}] \in ServerState
               /\ [server EXCEPT !.begun = @ \cup {t}].todo = server.todo
               /\ [server EXCEPT !.ended = @ \cup {t}].todo = server.todo
               /\ [server EXCEPT !.begun = @ \cup {t}].owes = server.owes
               /\ [server EXCEPT !.ended = @ \cup {t}].owes = server.owes
    BY ZenonT(30), <1>0 DEF ServerState
  <2>3. server.begun \subseteq Tokens
    BY Zenon, <1>0 DEF ServerState
  <2>4. ASSUME NEW t \in Tokens,
               \/ Say([k |-> "begin", token |-> t], [server EXCEPT !.begun = @ \cup {t}])
               \/ Say([k |-> "end", token |-> t], [server EXCEPT !.ended = @ \cup {t}])
        PROVE  m \in Messages
    BY ZenonT(30), <1>4, <2>1, <2>2, <2>4
  <2>5. QED
    BY ZenonT(30), <1>6, <2>3, <2>4 DEF Progress
<1>7. CASE Status
  <2>1. [k |-> "status", quiescent |-> ~server.quiet] \in FromServer
    BY Zenon, <1>0 DEF FromServer, ServerState
  <2>2. (~server.quiet) \in BOOLEAN /\ server.changes + 1 \in Nat
    BY <1>0 DEF ServerState
  <2>3. ASSUME NEW b \in BOOLEAN, NEW n \in Nat
        PROVE  /\ [server EXCEPT !.quiet = b, !.changes = n] \in ServerState
               /\ [server EXCEPT !.quiet = b, !.changes = n].todo = server.todo
               /\ [server EXCEPT !.quiet = b, !.changes = n].owes = server.owes
    BY ZenonT(30), <1>0 DEF ServerState
  <2> DEFINE s == [server EXCEPT !.quiet = ~@, !.changes = @ + 1]
  <2>4. s \in ServerState /\ s.todo = server.todo /\ s.owes = server.owes
    BY Zenon, <2>2, <2>3
  <2>5. Say([k |-> "status", quiescent |-> ~server.quiet], s)
    BY Zenon, <1>7 DEF Status
  <2> HIDE DEF s
  <2>6. QED
    BY Zenon, <1>4, <2>1, <2>4, <2>5
<1>8. CASE ServerDies
  <2>1. server'.todo = {} /\ server'.owes = <<>> /\ stdin' = <<>> /\ rx' = rx
    BY Zenon, <1>8 DEF ServerDies, Gone, FreshServer
  <2>2. ~Holds(<<>>, m)
    BY DEF Holds
  <2>3. m \in Messages
    BY Zenon, <2>1, <2>2, MessagesAre
  <2>4. QED
    BY Zenon, <2>3
<1>9. QED
  BY Zenon, <1>1, <1>2, <1>3, <1>5, <1>6, <1>7, <1>8 DEF Server

-----------------------------------------------------------------------------
\* What the client takes is on its way no longer.
LEMMA TakeMessages ==
  ASSUME Typed, rx # <<>>, rx' = Tail(rx), UNCHANGED <<stdin, server>>
  PROVE  Messages' \subseteq Messages /\ Head(rx) \in Messages
<1>1. rx \in Seq(FromServer)
  BY Zenon DEF Typed
<1>2. Holds(rx, Head(rx)) /\ \A m : Holds(Tail(rx), m) => Holds(rx, m)
  BY <1>1, TailHolds DEF Holds
<1>3. QED
  BY Zenon, <1>2, MessagesAre

\* Every action keeps ids apart.
LEMMA IdStep ==
  ASSUME Typed, StageInv, IdInv, [Next]_vars, StageInv'
  PROVE  IdInv'
<1> USE DEF lsp, wire, Rest
<1>1. ASSUME UNCHANGED <<lsp, writer, job>> PROVE IdInv'
  <2>1. Messages' = Messages
    BY Zenon, <1>1 DEF Messages
  <2>2. QED
    BY Zenon, <1>1, <2>1 DEF IdInv, Awaits, Subject, Value
<1>2. ASSUME job'.stage \in {"none", "parse", "end"} PROVE IdInv'
  BY Zenon, <1>2 DEF StageInv, IdInv, Awaits, Asking
<1>3. ASSUME End PROVE IdInv'
  BY Zenon, <1>2, <1>3 DEF End, NoJob
<1>4. ASSUME NEW stage \in Stages \ {"none", "parse", "end", "initialize"}, NEW tries,
      NEW symbols,
             Start(stage, tries, symbols), UNCHANGED <<wire, server, writer>>
      PROVE  IdInv'
  <2>1. Messages' = Messages
    BY Zenon, <1>4 DEF Messages
  <2>2. CASE stage \in {"symbols", "probe", "query"}
    <3>1. /\ call'.at = "send" /\ call'.then = "recv" /\ call'.id = next_id
          /\ call'.out = <<[k |-> "req", id |-> next_id, about |-> writer]>>
      BY Zenon, <1>4, <2>2 DEF Start, CallOf, request, NoCall
    <3>2. Subject' = writer
      BY Zenon, <1>4, <2>2 DEF Start, Subject
    <3>3. \A m \in Messages : m.k \in {"req", "resp"} => m.id # next_id
      BY Zenon, NextIdIsFresh DEF Borne
    <3>4. \A i \in DOMAIN call'.out : call'.out[i].about = writer
      BY <3>1
    <3>5. QED
      BY Zenon, <2>1, <3>1, <3>2, <3>3, <3>4 DEF IdInv, Awaits
  <2>3. CASE stage \in {"open", "initialized", "ready", "drain"}
    BY Zenon, <1>4, <2>3 DEF Start, CallOf, notify, NoCall, IdInv, Awaits
  <2>4. QED
    BY Zenon, <2>2, <2>3 DEF Stages, PerFile
<1>5. ASSUME Open, UNCHANGED <<wire, server, writer>> PROVE IdInv'
  BY Zenon, <1>3, <1>4, <1>5 DEF Open, Stages, PerFile
<1>6. ASSUME NEW f \in Files, Acquire(f) PROVE IdInv'
  BY Zenon, <1>2, <1>6 DEF Acquire, NoJob
<1>7. CASE Skip \/ UsePooled
  BY Zenon, <1>3, <1>5, <1>7 DEF Skip, UsePooled
<1>8. CASE Spawn
  <2>1. server'.todo = {} /\ server'.owes = <<>> /\ stdin' = <<>> /\ rx' = <<>>
    BY <1>8 DEF Spawn, FreshServer
  <2>2. Messages' = {}
    BY <2>1, MessagesAre DEF Holds
  <2>3. /\ call'.at = "send" /\ call'.out = <<[k |-> "req", id |-> 1, about |-> NoFile]>>
        /\ job'.stage = "initialize"
    BY Zenon, <1>8 DEF Spawn, NoCall, NoJob
  <2>4. \A i \in DOMAIN call'.out : call'.out[i].about = NoFile
    BY <2>3
  <2>5. QED
    BY Zenon, <2>2, <2>3, <2>4 DEF IdInv, Awaits, Subject
<1>9. CASE Handshaken
  BY Zenon, <1>3, <1>4, <1>5, <1>9 DEF Handshaken, Stages
<1>10. CASE Continue
  <2>1. UNCHANGED <<wire, server, writer>>
    BY Zenon, <1>10 DEF Continue
  <2>2. CASE Returned("open") \/ Returned("symbols")
    BY Zenon, <1>3, <1>4, <1>10, <2>1, <2>2 DEF Continue, Again, Returned, Stages, PerFile
  <2>3. CASE Returned("ready") \/ Returned("probe")
    BY Zenon, <1>3, <1>4, <1>10, <2>1, <2>3 DEF Continue, Again, Returned, Stages, PerFile
  <2>4. QED
    BY Zenon, <1>10, <2>2, <2>3 DEF Continue
<1>11. CASE Merge \/ Project
  BY Zenon, <1>3, <1>4, <1>11 DEF Merge, Project, Stages, PerFile
<1>12. CASE Release \/ Timeout
  BY <1>2, <1>12 DEF Release, Timeout, NoJob
<1>13. CASE Server /\ Outside
  <2>1. UNCHANGED <<client, call, job, writer>>
    BY ZenonT(30), <1>13 DEF Server, Flush, Hear, Answer, Ask, Progress, Status, ServerDies,
       Say, Outside
  <2>2. ASSUME NEW m \in Messages', m.k \in {"req", "resp"}
        PROVE  \E x \in Messages : x.k \in {"req", "resp"} /\ x.id = m.id /\ x.about = m.about
    BY Zenon, <1>13, <2>2, ServerKeepsIds
  <2>3. Awaits' = Awaits /\ Subject' = Subject /\ Value' = Value
    BY Zenon, <2>1 DEF Awaits, Subject, Value
  <2>4. ASSUME Awaits = "recv", NEW m \in Messages', m.k \in {"req", "resp"}, m.id = call.id
        PROVE  m.about = Subject
    BY ZenonT(30), <2>2, <2>4 DEF IdInv
  <2>5. QED
    BY ZenonT(30), <2>1, <2>3, <2>4 DEF IdInv
<1>14. CASE Client /\ Outside
  <2>1. call \in CallState /\ writer' = writer /\ job' = job /\ Subject' = Subject
    BY Zenon, <1>14 DEF Typed, Outside, Subject
  <2>2. CASE Send
    <3>1. ASSUME call' = [call EXCEPT !.at = call.then, !.out = <<>>],
                 stdin' = Append(stdin, call.out[1]) \/ stdin' = stdin
          PROVE  IdInv'
      <4>1. /\ stdin \in Seq(ToServer) /\ call.out[1] \in ToServer
            /\ 1 \in DOMAIN call.out
        BY <2>1, <2>2 DEF Send, Typed, CallState
      <4>2. \A m : Holds(stdin', m) => Holds(stdin, m) \/ m = call.out[1]
        BY <3>1, <4>1, AppendHolds DEF Holds
      <4>3. Messages' \subseteq Messages \cup {call.out[i] : i \in DOMAIN call.out}
        BY Zenon, <2>2, <4>1, <4>2, MessagesAre DEF Send
      <4>4. /\ call'.at = call.then /\ call'.out = <<>> /\ call'.id = call.id
            /\ call'.got = call.got /\ call.then # "send" /\ Awaits = call.then
            /\ Awaits' = call.then
        BY Zenon, <2>1, <2>2, <3>1 DEF CallState, Send, Awaits
      <4>5. call.then = "done" => job.stage \notin Asking
        BY Zenon, <2>2 DEF StageInv, Send, Asking
      <4>6. QED
        BY <2>1, <4>3, <4>4, <4>5 DEF IdInv
    <3>2. ASSUME call' = Failed PROVE IdInv'
      BY Zenon, <3>2 DEF Failed, NoCall, IdInv, Awaits, Value
    <3>3. QED
      BY Zenon, <2>2, <3>1, <3>2 DEF Send
  <2>3. CASE Recv
    <3>1. Messages' \subseteq Messages /\ Head(rx) \in Messages /\ Awaits = "recv"
      BY Zenon, <2>3, TakeMessages DEF Recv, Awaits
    <3>2. ASSUME answer_server_request PROVE IdInv'
      <4>1. /\ call'.at = "send" /\ call'.id = call.id /\ call'.out = <<[k |-> "ack"]>>
        BY Zenon, <2>1, <3>2 DEF answer_server_request, CallState
      <4>2. \A i \in DOMAIN call'.out : call'.out[i].k = "ack"
        BY <4>1
      <4>3. QED
        BY Zenon, <2>1, <3>1, <4>1, <4>2 DEF IdInv
    <3>3. ASSUME UNCHANGED call PROVE IdInv'
      BY Zenon, <2>1, <2>3, <3>1, <3>3 DEF IdInv, Recv, Awaits
    <3>4. ASSUME Head(rx).k = "resp", Head(rx).id = call.id,
                 call' = [NoCall EXCEPT !.at = "done", !.got = <<Head(rx)>>]
          PROVE  IdInv'
      <4>1. call'.at = "done" /\ call'.got[1] = Head(rx)
        BY Zenon, <3>4 DEF NoCall
      <4>2. Head(rx).about = Subject
        BY Zenon, <3>1, <3>4 DEF IdInv
      <4>3. QED
        BY Zenon, <2>1, <4>1, <4>2 DEF IdInv, Awaits
    <3>5. QED
      BY Zenon, <2>3, <3>2, <3>3, <3>4 DEF Recv, Dispatch
  <2>4. CASE RecvClosed
    BY Zenon, <2>4 DEF RecvClosed, Failed, NoCall, IdInv, Awaits, Value
  <2>5. CASE TryRecv
    BY ZenonT(30), <2>1, <2>5 DEF TryRecv, Dispatch, answer_server_request, IdInv, Awaits,
       CallState
  <2>6. CASE AwaitReturns \/ DrainReturns
    <3>1. job.stage \notin Asking /\ call'.at = "done"
      BY ZenonT(30), <2>6 DEF AwaitReturns, DrainReturns, StageInv, Awaits, Asking, NoCall
    <3>2. QED
      BY Zenon, <2>1, <3>1 DEF IdInv, Awaits
  <2>7. QED
    BY Zenon, <1>14, <2>2, <2>3, <2>4, <2>5, <2>6 DEF Client
<1>15. ASSUME NEW c \in Conns,
      needs_enrich(c) \/ try_enrich_file(c) \/ \E f \in Files : Query(c, f)
       PROVE  IdInv'
  BY Zenon, <1>1, <1>15 DEF needs_enrich, try_enrich_file, Query
<1>16. ASSUME NEW f \in Files, Ungate(f) PROVE IdInv'
  BY Zenon, <1>1, <1>16 DEF Ungate
<1>17. CASE UNCHANGED vars
  BY Zenon, <1>1, <1>17 DEF vars
<1>18. QED
  BY Zenon, <1>6, <1>7, <1>8, <1>9, <1>10, <1>11, <1>12, <1>13, <1>14, <1>15, <1>16, <1>17 DEF Next, Task

-----------------------------------------------------------------------------
\* What was stored for a file was said of it.
RowsInv ==
  /\ rows \in [Files -> [merged : BOOLEAN, hovers : BOOLEAN, from : SUBSET Files]]
  /\ RowsOfTheirFile

Row == [merged : BOOLEAN, hovers : BOOLEAN, from : SUBSET Files]

\* The rows of one file are stored.
LEMMA RowsPut ==
  ASSUME RowsInv, NEW f \in Files, NEW r \in Row, r.from \subseteq {f},
         rows' = [rows EXCEPT ![f] = r]
  PROVE  RowsInv'
BY Zenon DEF RowsInv, RowsOfTheirFile, Row

\* merge_lsp_into_ast and enrich_symbols store what the awaited answers said.
LEMMA RowsStep ==
  ASSUME StageInv, IdInv, RowsInv, [Next]_vars
  PROVE  RowsInv'
<1>1. ASSUME UNCHANGED rows PROVE RowsInv'
  BY Zenon, <1>1 DEF RowsInv, RowsOfTheirFile
<1>2. CASE Merge
  <2>1. writer \in Files /\ job.symbols = writer
    BY Zenon, <1>2 DEF Merge, Returned, StageInv
  <2>2. CASE rows' = [rows EXCEPT ![writer].merged = TRUE, ![writer].from = @ \cup {job.symbols}]
    <3> DEFINE r == [rows[writer] EXCEPT !.merged = TRUE, !.from = @ \cup {writer}]
    <3>1. rows[writer] \in Row /\ rows[writer].from \subseteq {writer}
      BY Zenon, <2>1 DEF RowsInv, RowsOfTheirFile, Row
    <3>2. r \in Row /\ r.from \subseteq {writer}
      BY ZenonT(30), <2>1, <3>1 DEF Row
    <3>3. rows' = [rows EXCEPT ![writer] = r]
      BY ZenonT(30), <2>1, <2>2 DEF RowsInv
    <3> HIDE DEF r
    <3>4. QED
      BY ZenonT(30), <2>1, <3>2, <3>3, RowsPut
  <2>3. QED
    BY ZenonT(30), <1>1, <1>2, <2>2 DEF Merge
<1>3. CASE Project
  <2>1. writer \in Files
    BY Zenon, <1>3 DEF Project, Returned, StageInv
  <2>2. CASE /\ Value = "some"
             /\ rows' = [rows EXCEPT ![writer].hovers = TRUE,
                                     ![writer].from = @ \cup {call.got[1].about}]
    <3>1. call.got[1].about = writer
      BY Zenon, <1>3, <2>2 DEF Project, Returned, IdInv, Asking, Subject
    <3> DEFINE r == [rows[writer] EXCEPT !.hovers = TRUE, !.from = @ \cup {writer}]
    <3>2. rows[writer] \in Row /\ rows[writer].from \subseteq {writer}
      BY Zenon, <2>1 DEF RowsInv, RowsOfTheirFile, Row
    <3>3. r \in Row /\ r.from \subseteq {writer}
      BY ZenonT(30), <2>1, <3>2 DEF Row
    <3>4. rows' = [rows EXCEPT ![writer] = r]
      BY ZenonT(30), <2>1, <2>2, <3>1 DEF RowsInv
    <3> HIDE DEF r
    <3>5. QED
      BY ZenonT(30), <2>1, <3>3, <3>4, RowsPut
  <2>3. QED
    BY ZenonT(30), <1>1, <1>3, <2>2 DEF Project
<1>4. QED
  BY Zenon, <1>1, <1>2, <1>3
     DEF Next, Task, Skip, UsePooled, Spawn, Handshaken, Continue, Release, Timeout, Acquire,
         Ungate, needs_enrich, try_enrich_file, Query, Outside, vars
-----------------------------------------------------------------------------
\* What is told, queue by queue.
LEMMA ToldAre ==
  /\ \A m : m \in Told <=> Holds(rx, m) \/ Holds(server.owes, m)
  /\ \A m : m \in Told' <=> Holds(rx', m) \/ Holds(server'.owes, m)
BY Zenon DEF Told, Holds

\* The server says x.
Speaks(x) ==
  /\ server.owes = <<>>
  /\ \/ rx' = Append(rx, x) /\ server'.owes = <<>>
     \/ rx' = rx /\ server'.owes = <<x>>

\* The part of the server's state that the readiness of the client is about.
Lives == server'.alive = server.alive /\ server'.kind = server.kind
Works == server'.begun = server.begun /\ server'.ended = server.ended
Same == Lives /\ Works /\ server'.quiet = server.quiet

\* The ways a step changes what the client knows or will know of the server.
Silence == UNCHANGED <<rx, client>> /\ Same /\ server'.owes = server.owes
Spawned ==
  /\ \E kind \in Kinds : server' = FreshServer(kind)
  /\ rx' = <<>> /\ client' = FreshClient
Replies ==
  /\ client' = client /\ Same
  /\ \E x \in FromServer : x.k \in {"resp", "ask"} /\ Speaks(x)
Begins ==
  /\ client' = client /\ Lives /\ server.kind = "progress"
  /\ \E t \in Tokens :
       /\ Speaks([k |-> "begin", token |-> t])
       /\ server'.begun = server.begun \cup {t} /\ server'.ended = server.ended
Ends ==
  /\ client' = client /\ Lives /\ server.kind = "progress"
  /\ \E t \in Tokens :
       /\ Speaks([k |-> "end", token |-> t])
       /\ server'.ended = server.ended \cup {t} /\ server'.begun = server.begun
Turns ==
  /\ client' = client /\ Lives /\ server.kind = "status"
  /\ Speaks([k |-> "status", quiescent |-> server'.quiet])
  /\ server'.quiet \in BOOLEAN
Delivers ==
  /\ client' = client /\ Same
  /\ server.owes # <<>> /\ rx' = Append(rx, server.owes[1]) /\ server'.owes = <<>>
Listens ==
  /\ rx # <<>> /\ rx' = Tail(rx) /\ server' = server
  /\ \/ Head(rx).k \in Notifications /\ client' = handle_notification(Head(rx))
     \/ Head(rx).k \notin Notifications /\ client' = client

Heard ==
  \/ Silence \/ ~server'.alive \/ Spawned
  \/ Replies \/ Begins \/ Ends \/ Turns \/ Delivers \/ Listens

\* A write that finds room, or waits.
LEMMA SaySpeaks ==
  ASSUME NEW x, NEW s \in ServerState, Say(x, s), s.owes = server.owes
  PROVE  /\ Speaks(x) /\ client' = client
         /\ server'.alive = s.alive /\ server'.kind = s.kind /\ server'.quiet = s.quiet
         /\ server'.begun = s.begun /\ server'.ended = s.ended
BY Zenon DEF Say, Speaks, ServerState

\* Every step of the server is one of them.
LEMMA ServerHeard ==
  ASSUME Typed, Server
  PROVE  Heard
<1>0. server \in ServerState
  BY Zenon DEF Typed
<1>1. CASE Flush
  BY ZenonT(30), <1>0, <1>1 DEF Flush, ServerState, Heard, Delivers, Same, Lives, Works
<1>2. CASE Hear
  <2>1. Same /\ server'.owes = server.owes
    BY ZenonT(30), <1>0, <1>2 DEF Hear, ServerState, Same, Lives, Works
  <2>2. QED
    BY Zenon, <1>2, <2>1 DEF Hear, Heard, Silence
<1>3. CASE Answer
  <2>1. PICK m \in server.todo, v \in Values :
          Say([k |-> "resp", id |-> m.id, about |-> m.about, val |-> v],
              [server EXCEPT !.todo = @ \ {m}])
    BY ZenonT(30), <1>3 DEF Answer
  <2>2. [k |-> "resp", id |-> m.id, about |-> m.about, val |-> v] \in FromServer
    BY Zenon, <1>0, <2>1 DEF ServerState, Req, Resp, FromServer
  <2> DEFINE s == [server EXCEPT !.todo = @ \ {m}]
  <2>3. /\ s \in ServerState /\ s.owes = server.owes /\ s.alive = server.alive
        /\ s.kind = server.kind /\ s.quiet = server.quiet /\ s.begun = server.begun
        /\ s.ended = server.ended
    BY Zenon, <1>0 DEF ServerState
  <2> HIDE DEF s
  <2>4. Replies
    BY ZenonT(30), <2>1, <2>2, <2>3, SaySpeaks DEF Replies, Same, Lives, Works, s
  <2>5. QED
    BY Zenon, <2>4 DEF Heard
<1>4. CASE Ask
  <2>1. [k |-> "ask"] \in FromServer
    BY Zenon DEF FromServer
  <2> DEFINE s == [server EXCEPT !.asked = "sent"]
  <2>2. /\ s \in ServerState /\ s.owes = server.owes /\ s.alive = server.alive
        /\ s.kind = server.kind /\ s.quiet = server.quiet /\ s.begun = server.begun
        /\ s.ended = server.ended
    BY Zenon, <1>0 DEF ServerState
  <2>3. Say([k |-> "ask"], s)
    BY Zenon, <1>4 DEF Ask
  <2> HIDE DEF s
  <2>4. Replies
    BY Zenon, <2>1, <2>2, <2>3, SaySpeaks DEF Replies, Same, Lives, Works
  <2>5. QED
    BY Zenon, <2>4 DEF Heard
<1>5. CASE Progress
  <2>1. server.begun \subseteq Tokens
    BY Zenon, <1>0 DEF ServerState
  <2>2. ASSUME NEW t \in Tokens,
               Say([k |-> "begin", token |-> t], [server EXCEPT !.begun = @ \cup {t}])
        PROVE  Begins
    <3> DEFINE s == [server EXCEPT !.begun = @ \cup {t}]
    <3>1. /\ s \in ServerState /\ s.owes = server.owes /\ s.alive = server.alive
          /\ s.kind = server.kind /\ s.begun = server.begun \cup {t} /\ s.ended = server.ended
      BY Zenon, <1>0 DEF ServerState
    <3> HIDE DEF s
    <3>2. QED
      BY ZenonT(30), <1>5, <2>2, <3>1, SaySpeaks DEF Progress, Begins, Lives, s
  <2>3. ASSUME NEW t \in Tokens,
               Say([k |-> "end", token |-> t], [server EXCEPT !.ended = @ \cup {t}])
        PROVE  Ends
    <3> DEFINE s == [server EXCEPT !.ended = @ \cup {t}]
    <3>1. /\ s \in ServerState /\ s.owes = server.owes /\ s.alive = server.alive
          /\ s.kind = server.kind /\ s.ended = server.ended \cup {t} /\ s.begun = server.begun
      BY Zenon, <1>0 DEF ServerState
    <3> HIDE DEF s
    <3>2. QED
      BY ZenonT(30), <1>5, <2>3, <3>1, SaySpeaks DEF Progress, Ends, Lives, s
  <2>4. QED
    BY ZenonT(30), <1>5, <2>1, <2>2, <2>3 DEF Progress, Heard
<1>6. CASE Status
  <2>1. (~server.quiet) \in BOOLEAN /\ server.changes + 1 \in Nat
    BY <1>0 DEF ServerState
  <2>2. ASSUME NEW b \in BOOLEAN, NEW n \in Nat
        PROVE  LET s == [server EXCEPT !.quiet = b, !.changes = n]
               IN  /\ s \in ServerState /\ s.owes = server.owes /\ s.alive = server.alive
                   /\ s.kind = server.kind /\ s.quiet = b
    BY ZenonT(30), <1>0 DEF ServerState
  <2> DEFINE s == [server EXCEPT !.quiet = ~@, !.changes = @ + 1]
  <2>3. /\ s \in ServerState /\ s.owes = server.owes /\ s.alive = server.alive
        /\ s.kind = server.kind /\ s.quiet = ~server.quiet
    BY Zenon, <2>1, <2>2
  <2>4. Say([k |-> "status", quiescent |-> ~server.quiet], s)
    BY Zenon, <1>6 DEF Status
  <2> HIDE DEF s
  <2>5. Speaks([k |-> "status", quiescent |-> s.quiet]) /\ client' = client
        /\ server'.alive = server.alive /\ server'.kind = server.kind /\ server'.quiet = s.quiet
    BY Zenon, <2>3, <2>4, SaySpeaks
  <2>6. s.quiet \in BOOLEAN /\ server.kind = "status"
    BY Zenon, <1>6, <2>3 DEF Status, ServerState
  <2>7. Turns
    BY Zenon, <2>5, <2>6 DEF Turns, Lives
  <2>8. QED
    BY Zenon, <2>7 DEF Heard
<1>7. CASE ServerDies
  BY Zenon, <1>7 DEF ServerDies, Gone, FreshServer, Heard
<1>8. QED
  BY Zenon, <1>1, <1>2, <1>3, <1>4, <1>5, <1>6, <1>7 DEF Server

\* Every step is one of them.
LEMMA StepHeard ==
  ASSUME Typed, [Next]_vars
  PROVE  Heard
<1>1. ASSUME UNCHANGED <<rx, client, server>> PROVE Heard
  BY Zenon, <1>1 DEF Heard, Silence, Same, Lives, Works
<1>2. CASE Server /\ Outside
  BY Zenon, <1>2, ServerHeard
<1>3. CASE Client /\ Outside
  <2>1. CASE Recv \/ TryRecv
    <3>1. Listens
      <4>1. Notifications = {"begin", "end", "status"}
        BY Zenon DEF Notifications
      <4>2. QED
        BY Zenon, <2>1, <4>1 DEF Recv, TryRecv, Dispatch, Listens
    <3>2. QED
      BY Zenon, <3>1 DEF Heard
  <2>2. QED
    BY Zenon, <1>1, <1>3, <2>1 DEF Client, Send, RecvClosed, AwaitReturns, DrainReturns, wire
<1>4. CASE Spawn
  BY Zenon, <1>4 DEF Spawn, Heard, Spawned
<1>5. CASE Handshaken
  <2>1. CASE server' = Gone
    BY Zenon, <2>1 DEF Heard, Gone, FreshServer
  <2>2. QED
    BY Zenon, <1>1, <1>5, <2>1 DEF Handshaken, wire
<1>6. QED
  BY Zenon, <1>1, <1>2, <1>3, <1>4, <1>5
     DEF Next, Task, Skip, UsePooled, Continue, Merge, Project, Release, Timeout, Abandon,
           Acquire,
         Ungate, needs_enrich, try_enrich_file, Query, vars, lsp, wire

-----------------------------------------------------------------------------
\* Nothing is told by a server that is new.
LEMMA NothingTold ==
  ASSUME rx' = <<>>, server'.owes = <<>>
  PROVE  Told' = {} /\ DOMAIN rx' = {} /\ DOMAIN server'.owes = {}
<1>1. DOMAIN <<>> = {} /\ \A m : ~Holds(<<>>, m)
  BY DEF Holds
<1>2. \A m : m \notin Told'
  BY Zenon, <1>1, ToldAre
<1>3. QED
  BY Zenon, <1>1, <1>2

\* What the server says is told, and nothing else becomes so.
LEMMA SpeaksTold ==
  ASSUME Typed, NEW x \in FromServer, Speaks(x), NEW m
  PROVE  m \in Told' <=> m \in Told \/ m = x
<1>1. ~Holds(<<>>, m) /\ (Holds(<<x>>, m) <=> m = x)
  BY DEF Holds
<1>2. Holds(Append(rx, x), m) <=> Holds(rx, m) \/ m = x
  BY AppendHolds DEF Typed, Holds
<1>3. QED
  BY ZenonT(30), <1>1, <1>2, ToldAre DEF Speaks

\* The message it waited with was told already.
LEMMA DeliversTold ==
  ASSUME Typed, OwesInv, server.alive, Delivers
  PROVE  /\ Told' = Told
         /\ Len(server.owes) = 1 /\ 1 \in DOMAIN server.owes /\ server.owes[1] \in FromServer
<1>1. server.owes \in Seq(FromServer) /\ Len(server.owes) <= 1 /\ server.owes # <<>>
  BY Zenon DEF Typed, ServerState, OwesInv, Delivers
<1>2. Len(server.owes) = 1 /\ DOMAIN server.owes = {1} /\ server.owes[1] \in FromServer
  <2>1. Len(server.owes) \in Nat /\ Len(server.owes) # 0
    BY <1>1
  <2>2. DOMAIN server.owes = 1..Len(server.owes)
    BY <1>1
  <2>3. 1..1 = {1} /\ \A n \in Nat : n # 0 /\ n <= 1 => n = 1
    OBVIOUS
  <2>4. Len(server.owes) = 1
    BY ZenonT(30), <1>1, <2>1, <2>3
  <2>5. QED
    BY <1>1, <2>2, <2>3, <2>4
<1>3. ASSUME NEW m PROVE m \in Told' <=> m \in Told
  <2>1. Holds(server.owes, m) <=> m = server.owes[1]
    BY Zenon, <1>2 DEF Holds
  <2>2. Holds(Append(rx, server.owes[1]), m) <=> Holds(rx, m) \/ m = server.owes[1]
    <3> DEFINE x == server.owes[1]
    <3>1. rx \in Seq(FromServer) /\ x \in FromServer
      BY Zenon, <1>2 DEF Typed
    <3> HIDE DEF x
    <3>2. /\ \A i \in DOMAIN Append(rx, x) :
               Append(rx, x)[i] = x \/ \E j \in DOMAIN rx : rx[j] = Append(rx, x)[i]
          /\ \A j \in DOMAIN rx : j \in DOMAIN Append(rx, x) /\ Append(rx, x)[j] = rx[j]
          /\ Len(rx) + 1 \in DOMAIN Append(rx, x) /\ Append(rx, x)[Len(rx) + 1] = x
      BY <3>1, AppendHolds
    <3>3. ASSUME Holds(Append(rx, x), m) PROVE Holds(rx, m) \/ m = x
      <4>1. PICK i \in DOMAIN Append(rx, x) : Append(rx, x)[i] = m
        BY Zenon, <3>3 DEF Holds
      <4>2. m = x \/ \E j \in DOMAIN rx : rx[j] = m
        BY Zenon, <3>2, <4>1
      <4>3. QED
        BY Zenon, <4>2 DEF Holds
    <3>4. Holds(rx, m) \/ m = x => Holds(Append(rx, x), m)
      BY Zenon, <3>2 DEF Holds
    <3>5. QED
      BY Zenon, <3>3, <3>4 DEF x
  <2>3. ~Holds(<<>>, m)
    BY DEF Holds
  <2>4. QED
    BY Zenon, <2>1, <2>2, <2>3, ToldAre DEF Delivers
<1>4. QED
  BY ZenonT(30), <1>2, <1>3

\* What the client hears is told no longer.
LEMMA ListensTold ==
  ASSUME Typed, Listens
  PROVE  /\ Told' \subseteq Told /\ Head(rx) \in Told
         /\ \A m \in Told : m \in Told' \/ m = Head(rx)
<1>1. rx \in Seq(FromServer) /\ rx # <<>>
  BY Zenon DEF Typed, Listens
<1>2. \A m : Holds(Tail(rx), m) => Holds(rx, m)
  BY <1>1, TailHolds DEF Holds
<1>3. Holds(rx, Head(rx))
  BY Zenon, <1>1, TailHolds DEF Holds
<1>4. ASSUME NEW m, Holds(rx, m) PROVE m = Head(rx) \/ Holds(Tail(rx), m)
  <2>1. PICK i \in DOMAIN rx : rx[i] = m
    BY Zenon, <1>4 DEF Holds
  <2>2. i = 1 \/ i > 1
    BY <1>1, <2>1
  <2>3. QED
    BY Zenon, <1>1, <2>1, <2>2, TailHolds DEF Holds
<1>5. QED
  BY Zenon, <1>2, <1>3, <1>4, ToldAre DEF Listens

\* One message waits at most: the server writes nothing while it waits.
LEMMA OwesStep ==
  ASSUME Typed, OwesInv, Heard
  PROVE  OwesInv'
<1>1. ASSUME NEW x, Speaks(x) PROVE OwesInv'
  <2>1. Len(<<>>) <= 1 /\ Len(<<x>>) <= 1
    OBVIOUS
  <2>2. QED
    BY ZenonT(30), <1>1, <2>1 DEF Speaks, OwesInv
<1>2. ASSUME server'.owes = <<>> PROVE OwesInv'
  <2>1. Len(<<>>) <= 1
    OBVIOUS
  <2>2. QED
    BY Zenon, <1>2, <2>1 DEF OwesInv
<1>3. CASE Spawned \/ Delivers
  BY <1>2, <1>3 DEF Spawned, FreshServer, Delivers
<1>4. CASE Silence \/ Listens \/ ~server'.alive
  BY ZenonT(30), <1>4 DEF Silence, Same, Lives, Listens, OwesInv
<1>5. QED
  BY ZenonT(30), <1>1, <1>3, <1>4 DEF Heard, Replies, Begins, Ends, Turns

\* Every step keeps what a server that reports progress works on known or told.
LEMMA ProgressStep ==
  ASSUME Typed, OwesInv, ProgressInv, Heard
  PROVE  ProgressInv'
<1>0. server \in ServerState /\ client \in ClientState
  BY Zenon DEF Typed
<1>1. ASSUME Same, Told' = Told, client' = client PROVE ProgressInv'
  BY Zenon, <1>1 DEF Same, Lives, Works, ProgressInv
<1>2. CASE Silence
  <2>1. Told' = Told
    BY Zenon, <1>2 DEF Silence, Told
  <2>2. QED
    BY Zenon, <1>1, <1>2, <2>1 DEF Silence
<1>3. CASE ~server'.alive
  BY Zenon, <1>3 DEF ProgressInv
<1>4. CASE Spawned
  <2>1. server'.begun = {} /\ server'.owes = <<>> /\ rx' = <<>> /\ client'.quiescent = "none"
    BY <1>4 DEF Spawned, FreshServer, FreshClient
  <2>2. Told' = {}
    BY ZenonT(30), <2>1, NothingTold
  <2>3. QED
    BY Zenon, <2>1, <2>2 DEF ProgressInv
<1>5. CASE Replies
  <2>1. PICK x \in FromServer : x.k \in {"resp", "ask"} /\ Speaks(x)
    BY Zenon, <1>5 DEF Replies
  <2>2. \A m : m \in Told' <=> m \in Told \/ m = x
    BY Zenon, <2>1, SpeaksTold
  <2>3. QED
    BY Zenon, <1>5, <2>1, <2>2 DEF Replies, Same, Lives, Works, ProgressInv
<1>6. CASE Begins
  <2>1. PICK t \in Tokens :
          /\ Speaks([k |-> "begin", token |-> t])
          /\ server'.begun = server.begun \cup {t} /\ server'.ended = server.ended
    BY Zenon, <1>6 DEF Begins
  <2>2. [k |-> "begin", token |-> t] \in FromServer
    BY Zenon DEF FromServer
  <2>3. \A m : m \in Told' <=> m \in Told \/ m = [k |-> "begin", token |-> t]
    BY Zenon, <2>1, <2>2, SpeaksTold
  <2>4. QED
    BY <1>6, <2>1, <2>3 DEF Begins, Lives, ProgressInv
<1>7. CASE Ends
  <2>1. PICK t \in Tokens :
          /\ Speaks([k |-> "end", token |-> t])
          /\ server'.ended = server.ended \cup {t} /\ server'.begun = server.begun
    BY Zenon, <1>7 DEF Ends
  <2>2. [k |-> "end", token |-> t] \in FromServer
    BY Zenon DEF FromServer
  <2>3. \A m : m \in Told' <=> m \in Told \/ m = [k |-> "end", token |-> t]
    BY Zenon, <2>1, <2>2, SpeaksTold
  <2>4. QED
    BY <1>7, <2>1, <2>3 DEF Ends, Lives, ProgressInv
<1>8. CASE Turns
  BY Zenon, <1>8 DEF Turns, Lives, ProgressInv
<1>9. CASE Delivers
  BY ZenonT(30), <1>1, <1>3, <1>9, DeliversTold DEF Delivers, Same, Lives
<1>10. CASE Listens
  <2>1. SUFFICES ASSUME server.alive, server.kind = "progress" PROVE ProgressInv'
    BY Zenon, <1>10 DEF Listens, ProgressInv
  <2>2. /\ client.quiescent = "none" /\ Head(rx).k # "status"
        /\ Head(rx).k = "end" => Head(rx).token \in server.ended
    BY Zenon, <1>10, <2>1, ListensTold DEF ProgressInv
  <2>3. /\ client'.quiescent = "none"
        /\ \A t \in server.begun \ server.ended : t \in client.in_flight => t \in client'.in_flight
        /\ Head(rx).k = "begin" => Head(rx).token \in client'.in_flight
    BY ZenonT(30), <1>0, <1>10, <2>2
       DEF Listens, Notifications, handle_notification, on_progress, ClientState
  <2>4. ASSUME NEW t \in server.begun \ server.ended
        PROVE  t \in client'.in_flight \/ [k |-> "begin", token |-> t] \in Told'
    <3>1. t \in client.in_flight \/ [k |-> "begin", token |-> t] \in Told
      BY Zenon, <2>1 DEF ProgressInv
    <3>2. CASE [k |-> "begin", token |-> t] = Head(rx)
      <4>1. Head(rx).k = "begin" /\ Head(rx).token = t
        BY <3>2
      <4>2. QED
        BY Zenon, <2>3, <4>1
    <3>3. QED
      BY Zenon, <1>10, <2>3, <3>1, <3>2, ListensTold
  <2>5. QED
    BY Zenon, <1>10, <2>3, <2>4, ListensTold DEF Listens, ProgressInv
<1>11. QED
  BY Zenon, <1>2, <1>3, <1>4, <1>5, <1>6, <1>7, <1>8, <1>9, <1>10 DEF Heard

\* What the server says comes after all it said before.
LEMMA SpeaksLast ==
  ASSUME Typed, NEW x \in FromServer, Speaks(x)
  PROVE  /\ \A i \in DOMAIN rx' : (i \in DOMAIN rx /\ rx'[i] = rx[i]) \/ rx'[i] = x
         /\ \A j \in DOMAIN rx : j \in DOMAIN rx' /\ rx'[j] = rx[j]
         /\ \/ Holds(server'.owes, x)
            \/ \E n \in DOMAIN rx' : rx'[n] = x /\ \A j \in DOMAIN rx : n > j
         /\ \A i \in DOMAIN server'.owes : server'.owes[i] = x
<1>1. rx \in Seq(FromServer) /\ Len(rx) \in Nat /\ DOMAIN rx = 1..Len(rx)
  BY DEF Typed
<1>2. CASE rx' = Append(rx, x) /\ server'.owes = <<>>
  <2>1. DOMAIN rx' = 1..(Len(rx) + 1) /\ rx'[Len(rx) + 1] = x
        /\ \A j \in 1..Len(rx) : rx'[j] = rx[j]
    BY <1>1, <1>2
  <2>2. \A i \in 1..(Len(rx) + 1) : i = Len(rx) + 1 \/ i \in 1..Len(rx)
    BY <1>1
  <2>3. Len(rx) + 1 \in DOMAIN rx' /\ \A j \in DOMAIN rx : Len(rx) + 1 > j /\ j \in DOMAIN rx'
    BY <1>1, <2>1
  <2>4. QED
    BY <1>1, <1>2, <2>1, <2>2, <2>3
<1>3. CASE rx' = rx /\ server'.owes = <<x>>
  BY <1>3 DEF Holds
<1>4. QED
  BY Zenon, <1>2, <1>3 DEF Speaks

\* Every step keeps the last word of a server that reports a status.
LEMMA StatusStep ==
  ASSUME Typed, OwesInv, StatusInv, Heard
  PROVE  StatusInv'
<1>0. server \in ServerState /\ client \in ClientState /\ rx \in Seq(FromServer)
  BY Zenon DEF Typed
<1> DEFINE Followed(q, o, i) == (\E j \in DOMAIN q : j > i /\ q[j] = NotQuiet)
                                \/ \E j \in DOMAIN o : o[j] = NotQuiet
           On == server.alive /\ server.kind = "status"
<1>1. CASE Silence
  <2>1. Told' = Told
    BY Zenon, <1>1 DEF Silence, Told
  <2>2. QED
    BY Zenon, <1>1, <2>1 DEF Silence, Same, Lives, StatusInv
<1>2. CASE ~server'.alive
  BY Zenon, <1>2 DEF StatusInv
<1>3. CASE Spawned
  <2>1. /\ server'.owes = <<>> /\ rx' = <<>>
        /\ client'.quiescent = "none" /\ client'.saw_cycle_end = FALSE
    BY <1>3 DEF Spawned, FreshServer, FreshClient
  <2>2. Told' = {} /\ DOMAIN rx' = {} /\ DOMAIN server'.owes = {}
    BY Zenon, <2>1, NothingTold
  <2>3. QED
    BY Zenon, <2>1, <2>2 DEF StatusInv
<1>4. CASE Begins \/ Ends
  BY ZenonT(30), <1>4 DEF Begins, Ends, Lives, StatusInv
<1>5. CASE Replies
  <2>1. PICK x \in FromServer : x.k \in {"resp", "ask"} /\ Speaks(x)
    BY Zenon, <1>5 DEF Replies
  <2>2. \A m : m \in Told' <=> m \in Told \/ m = x
    BY Zenon, <2>1, SpeaksTold
  <2>3. SUFFICES ASSUME On PROVE StatusInv'
    BY Zenon, <1>5 DEF Replies, Same, Lives, StatusInv
  <2>4. \A i \in DOMAIN server'.owes : server'.owes[i].k # "status"
    BY Zenon, <2>1, SpeaksLast
  <2>5. ASSUME ~server.quiet, NEW i \in DOMAIN rx', rx'[i].k = "status", rx'[i].quiescent
        PROVE  Followed(rx', server'.owes, i)
    <3>1. i \in DOMAIN rx /\ rx'[i] = rx[i]
      BY Zenon, <2>1, <2>5, SpeaksLast
    <3>2. server.owes = <<>>
      BY Zenon, <2>1 DEF Speaks
    <3>3. Followed(rx, server.owes, i) /\ DOMAIN <<>> = {}
      BY <2>3, <2>5, <3>1 DEF StatusInv
    <3>4. PICK j \in DOMAIN rx : j > i /\ rx[j] = NotQuiet
      BY ZenonT(30), <3>2, <3>3
    <3>5. j \in DOMAIN rx' /\ rx'[j] = NotQuiet
      BY ZenonT(30), <2>1, <3>4, SpeaksLast
    <3>6. QED
      BY ZenonT(30), <3>4, <3>5
  <2>6. QED
    BY ZenonT(30), <1>5, <2>1, <2>2, <2>3, <2>4, <2>5 DEF Replies, Same, Lives, StatusInv
<1>6. CASE Turns
  <2> DEFINE x == [k |-> "status", quiescent |-> server'.quiet]
  <2>1. Speaks(x) /\ x \in FromServer /\ x.k = "status" /\ x.quiescent = server'.quiet
    BY Zenon, <1>6 DEF Turns, FromServer
  <2>2. ~server'.quiet => x = NotQuiet
    BY ZenonT(30), <1>6 DEF Turns, NotQuiet
  <2> HIDE DEF x
  <2>3. \A m : m \in Told' <=> m \in Told \/ m = x
    BY Zenon, <2>1, SpeaksTold
  <2>4. SUFFICES ASSUME On PROVE StatusInv'
    BY Zenon, <1>6 DEF Turns, Lives, StatusInv
  <2>5. \A i \in DOMAIN server'.owes : server'.owes[i].quiescent = server'.quiet
    BY ZenonT(30), <2>1, SpeaksLast
  <2>6. ASSUME ~server'.quiet, NEW i \in DOMAIN rx', rx'[i].k = "status", rx'[i].quiescent
        PROVE  Followed(rx', server'.owes, i)
    <3>1. i \in DOMAIN rx
      BY ZenonT(30), <2>1, <2>6, SpeaksLast
    <3>2. QED
      BY ZenonT(30), <2>1, <2>2, <2>6, <3>1, SpeaksLast DEF Holds
  <2>7. QED
    BY ZenonT(30), <1>6, <2>1, <2>2, <2>3, <2>4, <2>5, <2>6 DEF Turns, Lives, StatusInv
<1>7. CASE Delivers
  <2>1. SUFFICES ASSUME On PROVE StatusInv'
    BY Zenon, <1>7 DEF Delivers, Same, Lives, StatusInv
  <2> DEFINE x == server.owes[1]
  <2>2. Told' = Told /\ 1 \in DOMAIN server.owes /\ x \in FromServer /\ Len(server.owes) = 1
    BY ZenonT(30), <1>7, <2>1, DeliversTold
  <2>3. DOMAIN server'.owes = {} /\ rx' = Append(rx, x)
    BY <1>7 DEF Delivers
  <2>4. \A j \in DOMAIN server.owes : server.owes[j] = x
    <3>1. DOMAIN server.owes = 1..1
      BY <1>0, <2>2 DEF ServerState
    <3>2. QED
      BY <3>1
  <2>5. x.k = "status" => x.quiescent = server.quiet
    BY Zenon, <2>1, <2>2 DEF StatusInv
  <2> HIDE DEF x
  <2>6. /\ DOMAIN rx' = 1..(Len(rx) + 1) /\ rx'[Len(rx) + 1] = x
        /\ \A j \in 1..Len(rx) : rx'[j] = rx[j]
        /\ Len(rx) \in Nat /\ DOMAIN rx = 1..Len(rx)
    BY <1>0, <2>2, <2>3
  <2>7. ASSUME ~server.quiet, NEW i \in DOMAIN rx', rx'[i].k = "status", rx'[i].quiescent
        PROVE  Followed(rx', server'.owes, i)
    <3>1. i \in DOMAIN rx /\ rx'[i] = rx[i] /\ Len(rx) + 1 > i /\ Len(rx) + 1 \in DOMAIN rx'
      BY <2>5, <2>6, <2>7
    <3>2. Followed(rx, server.owes, i)
      BY Zenon, <2>1, <2>7, <3>1 DEF StatusInv
    <3>3. CASE \E j \in DOMAIN server.owes : server.owes[j] = NotQuiet
      BY Zenon, <2>4, <2>6, <3>1, <3>3
    <3>4. CASE \E j \in DOMAIN rx : j > i /\ rx[j] = NotQuiet
      <4>1. PICK j \in DOMAIN rx : j > i /\ rx[j] = NotQuiet
        BY Zenon, <3>4
      <4>2. j \in DOMAIN rx' /\ rx'[j] = NotQuiet
        BY <2>6, <4>1
      <4>3. QED
        BY Zenon, <4>1, <4>2
    <3>5. QED
      BY Zenon, <3>2, <3>3, <3>4
  <2>8. QED
    BY ZenonT(30), <1>7, <2>1, <2>2, <2>3, <2>7 DEF Delivers, Same, Lives, StatusInv
<1>8. CASE Listens
  <2>1. SUFFICES ASSUME On PROVE StatusInv'
    BY Zenon, <1>8 DEF Listens, StatusInv
  <2>2. rx # <<>> /\ rx' = Tail(rx) /\ server' = server
    BY ZenonT(30), <1>8 DEF Listens
  <2>3. Head(rx).k \notin {"begin", "end"}
    BY Zenon, <1>8, <2>1, ListensTold DEF StatusInv
  <2>4. /\ client'.saw_cycle_end = client.saw_cycle_end
        /\ client'.quiescent = "yes" => IF Head(rx).k = "status" THEN Head(rx).quiescent
                                                                ELSE client.quiescent = "yes"
    BY Zenon, <1>0, <1>8, <2>3
       DEF Listens, Notifications, handle_notification, on_server_status, ClientState
  <2>5. ASSUME ~server.quiet, client'.quiescent = "yes" PROVE NotQuiet \in Told'
    <3>1. CASE Head(rx).k = "status"
      <4>1. 1 \in DOMAIN rx /\ rx[1] = Head(rx)
        BY Zenon, <1>0, <2>2, TailHolds
      <4>2. Followed(rx, server.owes, 1)
        BY Zenon, <2>1, <2>4, <2>5, <3>1, <4>1 DEF StatusInv
      <4>3. ASSUME NEW j \in DOMAIN rx, j > 1, rx[j] = NotQuiet PROVE Holds(rx', NotQuiet)
        BY Zenon, <1>0, <2>2, <4>3, TailHolds DEF Holds
      <4>4. QED
        BY Zenon, <2>2, <4>2, <4>3, ToldAre DEF Holds
    <3>2. CASE Head(rx).k # "status"
      <4>1. NotQuiet \in Told /\ NotQuiet # Head(rx)
        BY <2>1, <2>4, <2>5, <3>2 DEF StatusInv, NotQuiet
      <4>2. QED
        BY ZenonT(30), <1>8, <4>1, ListensTold
    <3>3. QED
      BY Zenon, <3>1, <3>2
  <2>6. ASSUME ~server.quiet, NEW i \in DOMAIN rx', rx'[i].k = "status", rx'[i].quiescent
        PROVE  Followed(rx', server'.owes, i)
    <3>1. i + 1 \in DOMAIN rx /\ rx'[i] = rx[i + 1] /\ i \in Nat
      BY <1>0, <2>2, <2>6, TailHolds
    <3>2. Followed(rx, server.owes, i + 1)
      BY Zenon, <2>1, <2>6, <3>1 DEF StatusInv
    <3>3. ASSUME NEW j \in DOMAIN rx, j > i + 1, rx[j] = NotQuiet
          PROVE  Followed(rx', server'.owes, i)
      <4>1. j \in Nat /\ j > 1 /\ j - 1 > i
        BY <1>0, <3>1, <3>3
      <4>2. j - 1 \in DOMAIN rx' /\ rx'[j - 1] = NotQuiet
        BY Zenon, <1>0, <2>2, <3>3, <4>1, TailHolds
      <4>3. QED
        BY Zenon, <4>1, <4>2
    <3>4. QED
      BY Zenon, <2>2, <3>2, <3>3
  <2>7. QED
    BY ZenonT(30), <1>8, <2>1, <2>2, <2>4, <2>5, <2>6, ListensTold DEF StatusInv
<1>9. QED
  BY Zenon, <1>1, <1>2, <1>3, <1>4, <1>5, <1>6, <1>7, <1>8 DEF Heard

\* Only await_ready answers the stage that waits for it, and what it said holds until then.
LEMMA ReadyStep ==
  ASSUME Typed, StageInv, ReadyInv, [Next]_vars
  PROVE  ReadyInv'
<1> USE DEF lsp, wire
<1>1. ASSUME UNCHANGED <<client, call, job>> PROVE ReadyInv'
  BY Zenon, <1>1 DEF ReadyInv, Returned, Value, is_ready
<1>2. ASSUME call'.at # "done" \/ job'.stage # "ready" PROVE ReadyInv'
  BY Zenon, <1>2 DEF ReadyInv, Returned
<1>3. ASSUME End PROVE ReadyInv'
  BY Zenon, <1>2, <1>3 DEF End, NoJob
<1>4. ASSUME NEW stage, NEW tries, NEW symbols, Start(stage, tries, symbols) PROVE ReadyInv'
  BY Zenon, <1>2, <1>4, StartStage
<1>5. CASE Task
  <2>1. CASE Continue
    BY Zenon, <1>3, <1>4, <2>1 DEF Continue, Again
  <2>2. CASE Release
    BY Zenon, <1>2, <2>2 DEF Release, NoJob
  <2>3. CASE Spawn
    BY Zenon, <1>2, <2>3 DEF Spawn, NoJob
  <2>4. QED
    BY ZenonT(30), <1>3, <1>4, <1>5, <2>1, <2>2, <2>3
       DEF Task, Skip, UsePooled, Open, Handshaken, Merge, Project
<1>6. CASE Timeout
  BY ZenonT(30), <1>2, <1>6 DEF Timeout, NoJob
<1>7. CASE Server /\ Outside
  BY ZenonT(30), <1>1, <1>7 DEF Server, Flush, Hear, Answer, Ask, Progress, Status, ServerDies,
     Say, Outside
<1>8. CASE Client /\ Outside
  <2>1. call \in CallState /\ job' = job
    BY Zenon, <1>8 DEF Typed, Outside
  <2>2. CASE Send
    <3>1. ASSUME call' = [call EXCEPT !.at = call.then, !.out = <<>>] PROVE ReadyInv'
      <4>1. call'.at = "done" => call.then = "done"
        BY Zenon, <2>1, <3>1 DEF CallState
      <4>2. QED
        BY Zenon, <1>2, <2>1, <2>2, <4>1 DEF Send, StageInv
    <3>2. ASSUME call' = Failed PROVE ReadyInv'
      BY Zenon, <3>2 DEF Failed, NoCall, ReadyInv, Value
    <3>3. QED
      BY Zenon, <2>2, <3>1, <3>2 DEF Send
  <2>3. CASE Recv \/ RecvClosed \/ DrainReturns
    <3>1. job.stage # "ready"
      BY Zenon, <2>3 DEF Recv, RecvClosed, DrainReturns, StageInv, Awaits, Asking
    <3>2. QED
      BY Zenon, <1>2, <2>1, <3>1
  <2>4. CASE TryRecv
    BY ZenonT(30), <1>2, <2>1, <2>4 DEF TryRecv, Dispatch, answer_server_request, CallState
  <2>5. CASE AwaitReturns
    BY Zenon, <2>5 DEF AwaitReturns, NoCall, ReadyInv, Value, is_ready
  <2>6. QED
    BY Zenon, <1>8, <2>2, <2>3, <2>4, <2>5 DEF Client
<1>9. ASSUME NEW f \in Files, Acquire(f) PROVE ReadyInv'
  BY Zenon, <1>2, <1>9 DEF Acquire, NoJob
<1>10. QED
  BY Zenon, <1>1, <1>5, <1>6, <1>7, <1>8, <1>9
     DEF Next, Ungate, needs_enrich, try_enrich_file, Query, vars

-----------------------------------------------------------------------------
Inv ==
  /\ Typed /\ StageInv /\ IdInv /\ RowsInv
  /\ OwesInv /\ ProgressInv /\ StatusInv /\ ReadyInv

\* No server, no call and no rows.
LEMMA InvInit == Init => Inv
<1> SUFFICES ASSUME Init PROVE Inv
  BY Zenon
<1> USE DEF Init, LspInit
<1>1. <<>> \in Seq(ToServer) /\ <<>> \in Seq(FromServer)
  OBVIOUS
<1>2. server \in ServerState /\ server.todo = {} /\ server.alive = FALSE
  BY ZenonT(30), <1>1 DEF Gone, FreshServer, ServerState, Kinds
<1>3. client \in ClientState
  BY Zenon DEF FreshClient, ClientState
<1>4. call \in CallState /\ call.at = "free"
  BY Zenon, NoCallTypes DEF NoCall
<1>5. writer \in Abouts /\ job \in [stage : Stages, tries : Nat, symbols : Abouts]
      /\ job.stage = "none"
  BY Zenon DEF Abouts, NoJob, Stages
<1>6. Typed
  BY ZenonT(30), <1>1, <1>2, <1>3, <1>4, <1>5, FS_EmptySet DEF Typed
<1>7. StageInv /\ IdInv /\ ReadyInv
  BY Zenon, <1>4, <1>5 DEF StageInv, IdInv, ReadyInv, Awaits, Asking, Returned
<1>8. RowsInv
  BY Zenon DEF RowsInv, RowsOfTheirFile, NoRows
<1>9. OwesInv /\ ProgressInv /\ StatusInv
  BY Zenon, <1>2 DEF OwesInv, ProgressInv, StatusInv
<1>10. QED
  BY Zenon, <1>6, <1>7, <1>8, <1>9 DEF Inv

\* The invariant is inductive.
LEMMA InvStep == Inv /\ [Next]_vars => Inv'
<1> SUFFICES ASSUME Inv, [Next]_vars PROVE Inv'
  BY Zenon
<1>1. Typed' /\ StageInv'
  BY Zenon, TypeStep, StageStep DEF Inv
<1>2. IdInv' /\ RowsInv' /\ ReadyInv'
  BY Zenon, <1>1, IdStep, RowsStep, ReadyStep DEF Inv
<1>3. OwesInv' /\ ProgressInv' /\ StatusInv'
  BY Zenon, StepHeard, OwesStep, ProgressStep, StatusStep DEF Inv
<1>4. QED
  BY Zenon, <1>1, <1>2, <1>3 DEF Inv

\* With the ids of LspClient::request, and for any number of timeouts, late answers and
\* servers that die or answer in any order: what the pass of a file stores was said of
\* that file.
THEOREM AnswersMeetTheirFile == Spec => []RowsOfTheirFile
<1>1. Inv => RowsOfTheirFile
  BY Zenon DEF Inv, RowsInv
<1>2. QED
  BY <1>1, InvInit, InvStep, PTL DEF Spec

\* ReadinessTracker, for any pipe and backlog sizes and any work of the server: when
\* await_ready reports a live server ready, the client has been told of all the server
\* works on, but for what is still on its way.
THEOREM ReadyMeansTold == Spec => []ReadyIsHonest
<1>1. ASSUME Inv PROVE ReadyIsHonest
  <2>1. SUFFICES ASSUME Returned("ready"), Value = "some", server.alive PROVE ReadyIsHonest
    BY ZenonT(30) DEF ReadyIsHonest
  <2>2. is_ready /\ \A m : InTransit(m) <=> m \in Told
    BY <1>1, <2>1 DEF Inv, ReadyInv, InTransit, Told
  <2>3. server.kind \in {"progress", "status"}
    BY Zenon, <1>1 DEF Inv, Typed, ServerState, Kinds
  <2>4. ASSUME server.kind = "progress", NEW t \in server.begun \ server.ended
        PROVE  InTransit([k |-> "begin", token |-> t])
    BY ZenonT(30), <1>1, <2>1, <2>2, <2>4 DEF Inv, ProgressInv, is_ready
  <2>5. ASSUME server.kind = "status" PROVE server.quiet \/ InTransit(NotQuiet)
    BY Zenon, <1>1, <2>1, <2>2, <2>5 DEF Inv, StatusInv, is_ready
  <2>6. QED
    BY ZenonT(30), <2>3, <2>4, <2>5 DEF ReadyIsHonest, NotQuiet
<1>2. QED
  BY <1>1, InvInit, InvStep, PTL DEF Spec
=============================================================================
