----------------------------- MODULE Enrichment -----------------------------
(***************************************************************************)
(* Lazy enrichment: a hover, definition or reference query that finds      *)
(* nothing (daemon/ops.rs, with_lazy_enrich_retry) queues a pass for its   *)
(* file, which runs on the blocking pool with the writer lock held         *)
(* (daemon/lsp_pass.rs) and asks the pooled language server.  The pool's   *)
(* own lock is only taken under the writer's.  One language; the parse the *)
(* pass depends on changes no row the model has.                           *)
(***************************************************************************)
EXTENDS LspClient

CONSTANTS Conns,      \* connections that send queries
          MaxQueries, \* queries in all
          MaxTries    \* PASS_SYMBOL_POLL_MAX_ATTEMPTS and PROBE_MAX_ATTEMPTS

VARIABLES conn,       \* each connection's query
          inflight,   \* DaemonContext::enrich_inflight: files with a task
          writer,     \* the file whose task holds the writer lock
          pool,       \* the client is in the pool
          job,        \* where that task is
          leaving,    \* files whose task has let the lock go and not yet the gate
          rows,       \* what the passes of each file stored in the _lsp tables
          queries

lsp == <<wire, client, call, server>>
vars == <<lsp, conn, inflight, leaving, writer, pool, job, rows, queries>>

NoJob == [stage |-> "none", tries |-> 0, symbols |-> NoFile]

\* The stages under the per-file timeout.
PerFile == {"open", "symbols", "ready", "probe", "drain", "query"}

NoRows == [merged |-> FALSE, hovers |-> FALSE,
           from |-> {}]  \* the files the answers stored were about

Init ==
  /\ LspInit
  /\ conn = [c \in Conns |-> [pc |-> "idle", file |-> NoFile]]
  /\ inflight = {} /\ leaving = {} /\ writer = NoFile /\ pool = FALSE
  /\ job = NoJob
  /\ rows = [f \in Files |-> NoRows]
  /\ queries = 0

-----------------------------------------------------------------------------
(* with_lazy_enrich_retry, on a connection.                                *)

\* The query runs under the writer lock; it may find nothing at its position.
Query(c, f) ==
  /\ conn[c].pc = "idle" /\ writer = NoFile /\ queries < MaxQueries
  /\ queries' = queries + 1
  /\ \/ conn' = [conn EXCEPT ![c] = [pc |-> "check", file |-> f]]
     \/ rows[f].hovers /\ UNCHANGED conn
  /\ UNCHANGED <<lsp, inflight, leaving, writer, pool, job, rows>>

\* needs_enrich looks for symbols of the file, not for what the query missed.
needs_enrich(c) ==
  /\ conn[c].pc = "check"
  /\ conn' = [conn EXCEPT ![c] = IF rows[@.file].merged THEN [pc |-> "idle", file |-> NoFile]
                                                        ELSE [@ EXCEPT !.pc = "gate"]]
  /\ UNCHANGED <<lsp, inflight, leaving, writer, pool, job, rows, queries>>

try_enrich_file(c) ==
  /\ conn[c].pc = "gate"
  /\ inflight' = inflight \cup {conn[c].file}
  /\ conn' = [conn EXCEPT ![c] = [pc |-> "idle", file |-> NoFile]]
  /\ UNCHANGED <<lsp, leaving, writer, pool, job, rows, queries>>

-----------------------------------------------------------------------------
(* The task, and the pass on one file.                                     *)

Rest == UNCHANGED <<conn, inflight, leaving, writer, queries>>

End == job' = [NoJob EXCEPT !.stage = "end"] /\ call' = NoCall

\* The call a stage makes.
CallOf(stage) ==
  CASE stage = "open" -> notify("didOpen", writer)
    [] stage = "initialized" -> notify("initialized", NoFile)
    [] stage = "ready" -> [NoCall EXCEPT !.at = "await"]
    [] stage = "drain" -> [NoCall EXCEPT !.at = "drain"]
    [] OTHER -> request(writer)

\* symbols: the file the answer with the document's symbols was about.
Start(stage, tries, symbols) ==
  /\ job' = [stage |-> stage, tries |-> tries, symbols |-> symbols]
  /\ call' = CallOf(stage)

\* The file is opened at the server, unless it cannot be read.
Open == Start("open", 0, NoFile) \/ End

Acquire(f) ==
  /\ f \in inflight \ leaving /\ writer = NoFile
  /\ writer' = f
  /\ job' = [NoJob EXCEPT !.stage = "parse"]
  /\ UNCHANGED <<lsp, conn, inflight, leaving, pool, rows, queries>>

\* The parse fails, or no server is installed.
Skip ==
  /\ job.stage = "parse"
  /\ End
  /\ UNCHANGED <<wire, client, server, pool, rows>> /\ Rest

\* enrich_files_pooled: the pooled client, or a server spawned now.
UsePooled ==
  /\ job.stage = "parse" /\ pool
  /\ Open
  /\ UNCHANGED <<wire, client, server, pool, rows>> /\ Rest

Spawn ==
  /\ job.stage = "parse" /\ ~pool
  /\ \E kind \in Kinds : server' = FreshServer(kind)
  /\ stdin' = <<>> /\ rx' = <<>>
  /\ call' = [NoCall EXCEPT !.at = "send", !.id = 1, !.then = "recv",
                            !.out = <<[k |-> "req", id |-> 1, about |-> NoFile]>>]
  /\ client' = FreshClient
  /\ job' = [NoJob EXCEPT !.stage = "initialize"]
  /\ UNCHANGED <<pool, rows>> /\ Rest

Returned(stage) == job.stage = stage /\ call.at = "done"
Value == call.got[1].val

\* start_with_options: a failed handshake drops the client, which kills the server.
Handshaken ==
  /\ \/ /\ Returned("initialize") /\ Value # "error"
        /\ Start("initialized", 0, NoFile)
        /\ UNCHANGED <<wire, server, pool>>
     \/ /\ Returned("initialized") /\ Value # "error"
        /\ Open /\ pool' = TRUE
        /\ UNCHANGED <<wire, server>>
     \/ /\ Returned("initialize") \/ Returned("initialized")
        /\ Value = "error"
        /\ server' = Gone /\ stdin' = <<>> /\ rx' = <<>>
        /\ End
        /\ UNCHANGED pool
  /\ UNCHANGED <<client, rows>> /\ Rest

\* A poll that got nothing is repeated, up to the bound.
Last == job.tries + 1 >= MaxTries
Again == ~Last /\ Start(job.stage, job.tries + 1, job.symbols)

\* What per_file does with what a call returned; some languages are not waited for.
Continue ==
  /\ \/ Returned("open") /\ Value # "error" /\ Start("symbols", 0, NoFile)
     \/ Returned("open") /\ Value = "error" /\ End
     \/ /\ Returned("symbols") /\ Value = "some"
        /\ \E stage \in {"ready", "drain"} : Start(stage, 0, call.got[1].about)
     \/ /\ Returned("symbols") /\ Value # "some"
        /\ Again \/ (Last /\ End)
     \/ /\ Returned("ready")
        /\ Start(IF Value = "some" THEN "probe" ELSE "drain", 0, job.symbols)
     \/ /\ Returned("probe")
        /\ IF Value = "some" \/ Last THEN Start("drain", 0, job.symbols) ELSE Again
  /\ UNCHANGED <<wire, client, server, pool, rows>> /\ Rest

\* merge_lsp_into_ast stores the symbols that meet nodes of the file; it may fail at any.
Merge ==
  /\ Returned("drain")
  /\ \/ rows' = [rows EXCEPT ![writer].merged = TRUE,
                             ![writer].from = @ \cup {job.symbols}]
     \/ UNCHANGED rows
  /\ Start("query", 0, job.symbols) \/ End
  /\ UNCHANGED <<wire, client, server, pool>> /\ Rest

\* enrich_symbols, for all its queries: what is answered is stored, or storing it fails.
Project ==
  /\ Returned("query")
  /\ \/ /\ Value = "some"
        /\ rows' = [rows EXCEPT ![writer].hovers = TRUE,
                                ![writer].from = @ \cup {call.got[1].about}]
     \/ UNCHANGED rows
  /\ End
  /\ UNCHANGED <<wire, client, server, pool>> /\ Rest

\* Mutant: the timeout does not reach into a call.
TimeoutBetween ==
  /\ job.stage \in PerFile /\ call.at = "done"
  /\ Abandon /\ job' = [NoJob EXCEPT !.stage = "end"]
  /\ UNCHANGED <<pool, rows>> /\ Rest

\* tokio::time::timeout around per_file: the future is dropped wherever it waits.
Timeout ==
  /\ job.stage \in PerFile
  /\ Abandon /\ job' = [NoJob EXCEPT !.stage = "end"]
  /\ UNCHANGED <<pool, rows>> /\ Rest

\* The writer guard is dropped ...
Release ==
  /\ job.stage = "end"
  /\ job' = NoJob
  /\ writer' = NoFile
  /\ leaving' = leaving \cup {writer}
  /\ UNCHANGED <<lsp, conn, inflight, pool, rows, queries>>

\* ... and then InflightGuard, perhaps after another task took the lock.
Ungate(f) ==
  /\ f \in leaving
  /\ leaving' = leaving \ {f}
  /\ inflight' = inflight \ {f}
  /\ UNCHANGED <<lsp, conn, writer, pool, job, rows, queries>>

Outside == UNCHANGED <<conn, inflight, leaving, writer, pool, job, rows, queries>>

Task ==
  \/ Skip \/ UsePooled \/ Spawn \/ Handshaken \/ Continue \/ Merge \/ Project
  \/ Release

Next ==
  \/ \E c \in Conns : needs_enrich(c) \/ try_enrich_file(c) \/ \E f \in Files : Query(c, f)
  \/ \E f \in Files : Acquire(f) \/ Ungate(f)
  \/ Task \/ Timeout
  \/ (Server \/ Client) /\ Outside

Spec == Init /\ [][Next]_vars

\* The runtime runs the task, deadlines pass, and the writer lock is
\* fair in the end (parking_lot).  Nothing is assumed of the server.
FairSpec ==
  /\ Spec
  /\ WF_vars(Task) /\ WF_vars(Timeout)
  /\ WF_vars(Client /\ Outside)
  /\ \A f \in Files : SF_vars(Acquire(f)) /\ WF_vars(Ungate(f))

-----------------------------------------------------------------------------
TypeOK ==
  /\ Len(stdin) <= PipeSize + 1 /\ Len(rx) <= Backlog
  /\ inflight \subseteq Files /\ writer \in Files \cup {NoFile}
  /\ call.at \in {"free", "send", "recv", "await", "drain", "done"}
  /\ rows \in [Files -> [merged : BOOLEAN, hovers : BOOLEAN, from : SUBSET Files]]

\* LspClient::request matches ids: an answer that comes after its caller's timeout is
\* never taken for the answer to a later request, so what the pass of a file stores was
\* said of that file.
RowsOfTheirFile == \A f \in Files : rows[f].from \subseteq {f}

InTransit(m) ==
  \/ \E q \in {rx, server.owes} : \E i \in DOMAIN q : q[i] = m

\* ReadinessTracker: when await_ready reports a live server ready, whatever the server
\* then works on is work whose start it has not yet told the client.
ReadyIsHonest ==
  (Returned("ready") /\ Value = "some" /\ server.alive) =>
    CASE server.kind = "progress" ->
           \A t \in server.begun \ server.ended : InTransit([k |-> "begin", token |-> t])
      [] server.kind = "status" ->
           server.quiet \/ InTransit([k |-> "status", quiescent |-> FALSE])

Handshaking == job.stage \in {"initialize", "initialized"}

\* The per-file timeout, "so a misbehaving language server can't stall the enrichment
\* loop forever": a queued file leaves the in-flight gate, whether the server is silent,
\* dead or stuck on full pipes together with the client.  The handshake has no timeout.
EnrichmentEnds ==
  []<>~Handshaking => \A f \in Files : f \in inflight ~> f \notin inflight
=============================================================================
