----------------------------- MODULE DeepSession ----------------------------
(***************************************************************************)
(* Deep member evidence: application/project.rs asks a TypeScript worker,  *)
(* one process per project configuration (a group of members), over the    *)
(* pipes of application/typescript_worker.rs, and keeps the answers in a   *)
(* cache that other processes use as well.                                 *)
(*                                                                         *)
(* A group is asked in one session: capabilities, initialize, then batches *)
(* of queries.  The worker, worker/src/*.mjs, answers one line at a time.  *)
(* After initialize it has loaded code of the project, so it may print,    *)
(* hang or exit at any moment.  The thread that reads its lines is folded  *)
(* into the worker's steps: its channel is unbounded.                      *)
(*                                                                         *)
(* The sources and project configurations have a version; an edit changes  *)
(* it, possibly back to an earlier one.                                    *)
(***************************************************************************)
EXTENDS Naturals, Sequences, FiniteSets, SequencesExt

CONSTANTS Groups,       \* the project configurations, in order
          Keys,         \* per group, its members to ask about, in order
          Unowned,      \* TypeScript members no configuration owns
          Foreign,      \* members of files that are not TypeScript
          Found,        \* the member the compiler finds at a member's offset
          Absent,       \* it finds none
          Bytes,        \* what a query adds to a request
          Versions,     \* of the sources
          Batch,        \* queries per request, 128 in the source
          Capacity,     \* of the worker's input pipe
          MaxMessage,   \* WORKER_MAX_MESSAGE_BYTES
          MaxEdits, MaxRuns, MaxOthers  \* bounds of the model

GroupSet == ToSet(Groups)
Owned == UNION {ToSet(Keys[g]) : g \in GroupSet}
Key == Owned \cup Unowned \cup Foreign

ASSUME SessionAssumption ==
  /\ Groups \in Seq(GroupSet)
  /\ Batch \in Nat \ {0} /\ Capacity \in Nat /\ MaxMessage \in Nat
  /\ \A g \in GroupSet : Keys[g] \in Seq(Owned) /\ Keys[g] # <<>>
  /\ \A k \in Owned : Found[k] \in Owned \cup {Absent} /\ Bytes[k] \in Nat
  /\ Owned \cap (Unowned \cup Foreign) = {}
  /\ MaxEdits \in Nat /\ MaxRuns \in Nat /\ MaxOthers \in Nat

VARIABLES disk, edits,      \* the sources
          cache, snapshot,  \* the deep cache, and what the client loaded of it
          other, others,    \* what another process loaded of it
          pc, runs,         \* the client
          digest, edited,   \* the version it saw; edited since then
          next, method, chunk, id,   \* the session
          evidence, failures,        \* the result
          worker, request, lines     \* the worker, its input, its output

sourceVars == <<disk, edits>>
cacheVars == <<cache, snapshot, other, others>>
collectionVars == <<runs, digest>>
sessionVars == <<next, method, chunk, id>>
workerVars == <<worker, request, lines>>
vars == <<sourceVars, cacheVars, pc, collectionVars, edited, sessionVars, evidence, failures,
          workerVars>>

-----------------------------------------------------------------------------
Unresolved == [state |-> "unresolved", about |-> Absent, seen |-> 0, raced |-> FALSE]

Fact == [state: {"unresolved", "note", "resolved"}, about: Owned \cup {Absent},
         seen: Versions \cup {0}, raced: BOOLEAN]

(* What the oracle answers about the member at an offset: the compiler     *)
(* counts UTF-16 units, the client sends a byte offset.                    *)
Answer(k, seen, raced) ==
  [state |-> IF Found[k] = Absent THEN "note" ELSE "resolved", about |-> Found[k],
   seen |-> seen, raced |-> raced]

NoWorker == [state |-> "none", busy |-> FALSE, loaded |-> FALSE, seen |-> 0, raced |-> FALSE]
Started == [NoWorker EXCEPT !.state = "running"]

NoRequest == [id |-> 0, method |-> "none", asked |-> <<>>]

Entry == [group: GroupSet, version: Versions, key: Owned, fact: Fact]

TypeOK ==
  /\ disk \in Versions /\ edits \in 0..MaxEdits
  /\ cache \subseteq Entry /\ snapshot \subseteq Entry
  /\ pc \in {"idle", "group", "send", "write", "await", "reply", "load", "query", "loadStore",
             "commit"}
  /\ digest \in Versions /\ edited \in BOOLEAN
  /\ next \in 1..(Len(Groups) + 1) /\ id \in Nat /\ chunk \in Nat
  /\ method \in {"capabilities", "initialize", "query"}
  /\ evidence \in [Key -> Fact]
  /\ failures \subseteq GroupSet \cup {"unconfigured", "script"}
  /\ worker.state \in {"none", "running", "hung", "exited"}
  /\ Len(lines) <= MaxRuns + 1

Init ==
  /\ disk \in Versions /\ edits = 0
  /\ cache = {} /\ snapshot = {} /\ other = {} /\ others = 0
  /\ pc = "idle" /\ runs = 0
  /\ digest = disk /\ edited = FALSE
  /\ next = 1 /\ method = "capabilities" /\ chunk = 0 /\ id = 1
  /\ evidence = [k \in Key |-> Unresolved] /\ failures = {}
  /\ worker = NoWorker /\ request = NoRequest /\ lines = <<>>

-----------------------------------------------------------------------------
(* The client: collect_deep_member_evidence.                               *)

Group == Groups[next]

Start == IF Unowned = {} THEN {} ELSE {"unconfigured"}

(* The digest is that of the scan before; an edit since then is one that   *)
(* comes before the first session.                                         *)
Collect ==
  /\ pc = "idle" /\ runs < MaxRuns
  /\ runs' = runs + 1
  /\ evidence' = [k \in Key |-> Unresolved]
  /\ digest' = disk /\ edited' = FALSE
  /\ next' = 1
  /\ \/ pc' = "group" /\ failures' = Start
     \/ (Groups # <<>> \/ Unowned # {}) /\ pc' = "idle" /\ failures' = {"script"}
  /\ UNCHANGED <<sourceVars, cacheVars, method, chunk, id, workerVars>>

(* Variant: the worker is left to find out that its pipes are closed.      *)
DropOnly ==
  /\ request' = NoRequest /\ lines' = <<>>
  /\ worker' = IF worker.state = "exited" THEN NoWorker ELSE worker

(* The host is dropped with the session: its worker is killed and waited   *)
(* for, and the channel goes.                                              *)
Drop == worker' = NoWorker /\ request' = NoRequest /\ lines' = <<>>

EndSession == pc' = "group" /\ next' = next + 1 /\ Drop

(* Variant: a failed session keeps what it has got so far.                 *)
FailAfterStoring ==
  /\ pc' = "loadStore" /\ Drop
  /\ failures' = failures \cup {Group}
  /\ UNCHANGED <<sourceVars, cacheVars, collectionVars, edited, next, method, chunk, id, evidence>>

(* Variant: the error of a session is not passed on.                       *)
FailQuietly ==
  /\ EndSession
  /\ UNCHANGED <<sourceVars, cacheVars, collectionVars, edited, method, chunk, id, evidence,
                 failures>>

Fail ==
  /\ EndSession
  /\ failures' = failures \cup {Group}
  /\ UNCHANGED <<sourceVars, cacheVars, collectionVars, edited, method, chunk, id, evidence>>

Spawn ==
  /\ pc = "group" /\ next <= Len(Groups)
  /\ worker' = Started /\ request' = NoRequest /\ lines' = <<>>
  /\ method' = "capabilities" /\ chunk' = 0 /\ id' = 1
  /\ pc' = "send"
  /\ UNCHANGED <<sourceVars, cacheVars, collectionVars, edited, next, evidence, failures>>

SpawnFails == pc = "group" /\ next <= Len(Groups) /\ Fail

Finish ==
  /\ pc = "group" /\ next > Len(Groups)
  /\ pc' = "idle"
  /\ UNCHANGED <<sourceVars, cacheVars, collectionVars, edited, sessionVars, evidence, failures,
                 workerVars>>

Least(a, b) == IF a < b THEN a ELSE b

Chunk ==
  IF method # "query" THEN <<>>
  ELSE SubSeq(Keys[Group], chunk * Batch + 1, Least((chunk + 1) * Batch, Len(Keys[Group])))

Size == IF method = "query" THEN FoldSeq(LAMBDA k, n : Bytes[k] + n, 0, Chunk) ELSE 1

(* A request the pipe has no room for is written as the worker reads it:   *)
(* until then the host has no deadline.                                    *)
Send ==
  /\ pc = "send" /\ Size <= MaxMessage /\ worker.state # "exited"
  /\ id' = id + 1
  /\ request' = [id |-> id, method |-> method, asked |-> Chunk]
  /\ pc' = IF Size <= Capacity THEN "await" ELSE "write"
  /\ UNCHANGED <<sourceVars, cacheVars, collectionVars, edited, next, method, chunk, evidence,
                 failures, worker, lines>>

NotSent ==
  /\ \/ pc = "send" /\ (Size > MaxMessage \/ worker.state = "exited")
     \/ pc = "write" /\ worker.state = "exited"
  /\ Fail

(* validate_response: the reply has the id of the request and no error.    *)
Accepts(line) == line.kind = "result" /\ line.id = id - 1

Receive ==
  /\ pc = "await" /\ lines # <<>> /\ Accepts(Head(lines))
  /\ pc' = "reply"
  /\ UNCHANGED <<sourceVars, cacheVars, collectionVars, edited, sessionVars, evidence, failures,
                 workerVars>>

(* A line of anything else, the end of the output, or the deadline.        *)
Refuse == pc = "await" /\ lines # <<>> /\ ~Accepts(Head(lines)) /\ Fail
Disconnected == pc = "await" /\ lines = <<>> /\ worker.state = "exited" /\ Fail
(* Variant: the deadline starts when the worker takes the request.         *)
TimeoutOfReading == pc = "await" /\ lines = <<>> /\ worker.busy /\ Fail

Timeout == pc = "await" /\ lines = <<>> /\ Fail

Ask(next_method) == method' = next_method /\ pc' = "send" /\ lines' = Tail(lines)

ReplyToCapabilities ==
  /\ pc = "reply" /\ method = "capabilities" /\ Head(lines).body
  /\ Ask("initialize")
  /\ UNCHANGED <<sourceVars, cacheVars, collectionVars, edited, next, chunk, id, evidence,
                 failures, worker, request>>

ReplyToInitialize ==
  /\ pc = "reply" /\ method = "initialize" /\ Head(lines).body
  /\ lines' = Tail(lines) /\ pc' = "load"
  /\ UNCHANGED <<sourceVars, cacheVars, collectionVars, edited, sessionVars, evidence, failures,
                 worker, request>>

Unusable ==
  /\ pc = "reply" /\ method # "query" /\ ~Head(lines).body
  /\ Fail

-----------------------------------------------------------------------------
(* The cache.                                                              *)

CacheKey(entry) == entry.group = Group /\ entry.version = digest

Cached == {entry \in cache : CacheKey(entry) /\ entry.key \in ToSet(Keys[Group])}

(* Every member asked about is there.                                      *)
Hit == ToSet(Keys[Group]) \subseteq {entry.key : entry \in Cached}

LoadCached ==
  /\ pc = "load" /\ Hit
  /\ evidence' = [k \in Key |-> IF k \in ToSet(Keys[Group])
                                THEN (CHOOSE entry \in Cached : entry.key = k).fact
                                ELSE evidence[k]]
  /\ EndSession
  /\ UNCHANGED <<sourceVars, cacheVars, collectionVars, edited, method, chunk, id, failures>>

(* There is no such entry, or the cache cannot be loaded.                  *)
Miss ==
  /\ pc = "load"
  /\ method' = "query" /\ chunk' = 0 /\ pc' = "send"
  /\ UNCHANGED <<sourceVars, cacheVars, collectionVars, edited, next, id, evidence, failures,
                 workerVars>>

(* Variant: an index into all the members of the group.                    *)
AskedOfAll(index) == Keys[Group][index]

(* A query's id is its position in the batch.                              *)
Asked(index) == Chunk[index]

Take(results) ==
  LET answered == {Asked(i) : i \in DOMAIN results}
  IN [k \in Key |-> IF k \in answered
                    THEN results[CHOOSE i \in DOMAIN results : Asked(i) = k]
                    ELSE evidence[k]]

(* A note is evidence as well.  Spans that are not safe end the session,   *)
(* after what came before them in the batch was taken.                     *)
ReplyToQuery ==
  /\ pc = "reply" /\ method = "query"
  /\ evidence' = Take(Head(lines).results)
  /\ lines' = Tail(lines)
  /\ IF (chunk + 1) * Batch < Len(Keys[Group])
     THEN chunk' = chunk + 1 /\ pc' = "send"
     ELSE chunk' = chunk /\ pc' = "loadStore"
  /\ UNCHANGED <<sourceVars, cacheVars, collectionVars, edited, next, method, id, failures,
                 worker, request>>

UnsafeSpans ==
  /\ pc = "reply" /\ method = "query"
  /\ \E n \in 0..(Len(Head(lines).results) - 1) :
       evidence' = Take(SubSeq(Head(lines).results, 1, n))
  /\ EndSession
  /\ failures' = failures \cup {Group}
  /\ UNCHANGED <<sourceVars, cacheVars, collectionVars, edited, method, chunk, id>>

LoadStore ==
  /\ pc = "loadStore"
  /\ \/ snapshot' = cache
     \/ snapshot' = {}
  /\ pc' = "commit"
  /\ UNCHANGED <<sourceVars, cache, other, others, collectionVars, edited, sessionVars, evidence,
                 failures, workerVars>>

(* The facts of this session, and earlier ones of other members under the  *)
(* same key; then everything under other keys.                             *)
Stored ==
  {[group |-> Group, version |-> digest, key |-> k, fact |-> evidence[k]] :
     k \in ToSet(Keys[Group])}

Merged ==
  Stored \cup {entry \in snapshot : ~(CacheKey(entry) /\ entry.key \in ToSet(Keys[Group]))}

Commit ==
  /\ pc = "commit"
  /\ \/ cache' = Merged
     \/ UNCHANGED cache
  /\ snapshot' = {}
  /\ EndSession
  /\ UNCHANGED <<sourceVars, other, others, collectionVars, edited, method, chunk, id, evidence,
                 failures>>

-----------------------------------------------------------------------------
(* The worker: worker.mjs, service.mjs and typescript-oracle.mjs.          *)

Busy == worker.state = "running" /\ worker.busy

Reads ==
  /\ worker.state = "running" /\ ~worker.busy
  /\ request # NoRequest
  /\ worker' = [worker EXCEPT !.busy = TRUE]
  /\ pc' = IF pc = "write" THEN "await" ELSE pc
  /\ UNCHANGED <<sourceVars, cacheVars, collectionVars, edited, sessionVars, evidence, failures,
                 request, lines>>

Line(kind, n, body, results) ==
  lines' = Append(lines, [kind |-> kind, id |-> n, body |-> body, results |-> results])

Capabilities ==
  /\ Busy /\ request.method = "capabilities"
  /\ \E supported \in BOOLEAN : Line("result", request.id, supported, <<>>)
  /\ worker' = [worker EXCEPT !.busy = FALSE]
  /\ request' = NoRequest
  /\ UNCHANGED <<sourceVars, cacheVars, pc, collectionVars, edited, sessionVars, evidence,
                 failures>>

(* initialize builds the program: it is the moment the sources are read.   *)
Initialize ==
  /\ Busy /\ request.method = "initialize"
  /\ \/ /\ worker' = [worker EXCEPT !.busy = FALSE, !.loaded = TRUE, !.seen = disk,
                                    !.raced = edited]
        /\ Line("result", request.id, TRUE, <<>>)
     \/ /\ worker' = [worker EXCEPT !.busy = FALSE]
        /\ Line("result", request.id, FALSE, <<>>)
  /\ request' = NoRequest
  /\ UNCHANGED <<sourceVars, cacheVars, pc, collectionVars, edited, sessionVars, evidence,
                 failures>>

Query ==
  /\ Busy /\ request.method = "query"
  /\ Line("result", request.id, TRUE,
          [i \in DOMAIN request.asked |-> Answer(request.asked[i], worker.seen, worker.raced)])
  /\ worker' = [worker EXCEPT !.busy = FALSE]
  /\ request' = NoRequest
  /\ UNCHANGED <<sourceVars, cacheVars, pc, collectionVars, edited, sessionVars, evidence,
                 failures>>

(* Its own deadline between two queries, a reply that is too large, or a   *)
(* request it cannot serve.                                                *)
Rejects ==
  /\ Busy
  /\ Line("error", request.id, FALSE, <<>>)
  /\ worker' = [worker EXCEPT !.busy = FALSE]
  /\ request' = NoRequest
  /\ UNCHANGED <<sourceVars, cacheVars, pc, collectionVars, edited, sessionVars, evidence,
                 failures>>

Prints ==
  /\ worker.state = "running" /\ worker.loaded /\ Len(lines) < MaxRuns
  /\ Line("noise", 0, FALSE, <<>>)
  /\ UNCHANGED <<sourceVars, cacheVars, pc, collectionVars, edited, sessionVars, evidence,
                 failures, worker, request>>

Hangs ==
  /\ worker.state = "running"
  /\ worker' = [worker EXCEPT !.state = "hung"]
  /\ UNCHANGED <<sourceVars, cacheVars, pc, collectionVars, edited, sessionVars, evidence,
                 failures, request, lines>>

Exits ==
  /\ worker.state = "running"
  /\ worker' = [worker EXCEPT !.state = "exited"]
  /\ UNCHANGED <<sourceVars, cacheVars, pc, collectionVars, edited, sessionVars, evidence,
                 failures, request, lines>>

-----------------------------------------------------------------------------
(* The surroundings: edits, and another process with the same cache.       *)

Edit ==
  /\ edits < MaxEdits
  /\ edits' = edits + 1
  /\ disk' \in Versions \ {disk}
  /\ edited' = TRUE
  /\ UNCHANGED <<cacheVars, pc, collectionVars, sessionVars, evidence, failures, workerVars>>

OtherLoads ==
  /\ others < MaxOthers
  /\ others' = others + 1
  /\ \E g \in {h \in GroupSet : \A k \in ToSet(Keys[h]) : Bytes[k] <= MaxMessage} :
       other' = cache \cup
         {[group |-> g, version |-> disk, key |-> k, fact |-> Answer(k, disk, FALSE)] :
            k \in {j \in ToSet(Keys[g]) :
                     \A entry \in cache : ~(entry.group = g /\ entry.version = disk
                                                           /\ entry.key = j)}}
  /\ UNCHANGED <<sourceVars, cache, snapshot, pc, collectionVars, edited, sessionVars, evidence,
                 failures, workerVars>>

OtherCommits ==
  /\ other # {}
  /\ cache' = other /\ other' = {}
  /\ UNCHANGED <<sourceVars, snapshot, others, pc, collectionVars, edited, sessionVars, evidence,
                 failures, workerVars>>

-----------------------------------------------------------------------------
Client ==
  \/ Spawn \/ SpawnFails \/ Finish \/ Send \/ NotSent
  \/ Receive \/ Refuse \/ Disconnected \/ Timeout
  \/ ReplyToCapabilities \/ ReplyToInitialize \/ Unusable
  \/ LoadCached \/ Miss \/ ReplyToQuery \/ UnsafeSpans \/ LoadStore \/ Commit

Worker ==
  Reads \/ Capabilities \/ Initialize \/ Query \/ Rejects \/ Prints \/ Hangs \/ Exits

Next == Collect \/ Client \/ Worker \/ Edit \/ OtherLoads \/ OtherCommits

(* The client goes on whenever it can, and its deadline passes at last.    *)
(* Nothing is assumed of the worker.                                       *)
Spec == Init /\ [][Next]_vars /\ WF_vars(Client)

-----------------------------------------------------------------------------
(* The member a byte offset leads the compiler to, in UTF-16 units.        *)
Meant(k) == {k, Found[k]}

(* A fact, in the result or in the cache, is about the member it was asked *)
(* for, and describes the sources of its digest, unless they were edited   *)
(* between the digest and the moment the worker read them: batches,        *)
(* sessions, cached facts and other processes are never mixed up.          *)
EvidenceIsSound ==
  /\ \A k \in Key :
       evidence[k].state = "resolved" =>
         evidence[k].about \in Meant(k) /\ (evidence[k].seen = digest \/ evidence[k].raced)
  /\ \A entry \in cache :
       entry.fact.state = "resolved" =>
         /\ entry.fact.about \in Meant(entry.key)
         /\ entry.fact.seen = entry.version \/ entry.fact.raced

(* A member the worker never answered about is not kept: a failed session  *)
(* must not turn into evidence that is found again.                        *)
OnlyAnswersAreKept == \A entry \in cache : entry.fact.state # "unresolved"

(* After a collection, a TypeScript member without an answer has a failure *)
(* that says so: of its group, or of the whole collection.                 *)
GapsAreReported ==
  pc = "idle" /\ runs > 0 =>
    \A k \in Key \ Foreign :
      evidence[k].state = "unresolved" =>
        \/ "script" \in failures
        \/ k \in Unowned /\ "unconfigured" \in failures
        \/ \E g \in failures \cap GroupSet : k \in ToSet(Keys[g])

(* A worker runs in its session only: it has been killed and waited for    *)
(* however the session ended, whatever code of the project it runs.        *)
NoWorkerOutlivesItsSession == pc \in {"idle", "group"} => worker.state = "none"

(* A collection ends, whatever the worker does, except while it does not   *)
(* read a request the pipe cannot hold: that write has no deadline.        *)
CollectionsEnd == []<>(pc = "idle") \/ <>[](pc = "write")
=============================================================================
