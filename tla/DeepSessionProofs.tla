------------------------- MODULE DeepSessionProofs --------------------------
(***************************************************************************)
(* What a deep session finds and keeps is about the member it asked for    *)
(* and the sources of its digest, answered by the worker of that session,  *)
(* and what it misses is reported: for every set of configurations and     *)
(* members, every batch size and every interleaving with the worker, the   *)
(* edits and the other processes.                                          *)
(***************************************************************************)
EXTENDS DeepSession, SequenceTheorems, TLAPS

Output == [kind: {"result", "error", "noise"}, id: Nat, body: BOOLEAN, results: Seq(Fact)]

WorkerType == [state: {"none", "running", "hung", "exited"}, busy: BOOLEAN, loaded: BOOLEAN,
               seen: Versions \cup {0}, raced: BOOLEAN]

InSession == {"send", "write", "await", "reply", "load", "loadStore", "commit"}

Querying == pc \in InSession /\ method = "query"

IsNoise(line) == line.kind = "noise"

Answers(asked) == [i \in DOMAIN asked |-> Answer(asked[i], worker.seen, worker.raced)]

(* Every variable has its type, also those TypeOK is silent about.         *)
Typed ==
  /\ TypeOK
  /\ runs \in Nat
  /\ other \subseteq Entry
  /\ worker \in WorkerType
  /\ request.id \in Nat
  /\ lines \in Seq(Output)

(* A session is one of a group; outside of it nothing is left.             *)
SessionIsOfAGroup ==
  /\ pc \in InSession => next <= Len(Groups)
  /\ pc \notin InSession => worker = NoWorker /\ request = NoRequest /\ lines = <<>>

(* The request on its way is the one the client waits for, and the worker  *)
(* works on no other.                                                      *)
RequestIsAwaited ==
  /\ request # NoRequest =>
       pc \in {"write", "await"} /\ request.method = method /\ request.asked = Chunk
  /\ worker.busy => pc = "await" /\ request # NoRequest

(* The worker has answered at most once, what the request on its way then  *)
(* asked; all other lines are noise.                                       *)
LinesAnswerTheRequest ==
  /\ \A i \in DOMAIN lines :
       ~IsNoise(lines[i]) =>
         /\ pc \in {"await", "reply"} /\ request = NoRequest
         /\ \A j \in DOMAIN lines : ~IsNoise(lines[j]) => i = j
         /\ lines[i].kind = "result" /\ method = "query" => lines[i].results = Answers(Chunk)
         /\ lines[i].kind = "result" /\ method = "initialize" /\ lines[i].body => worker.loaded
  /\ (\A i \in DOMAIN lines : IsNoise(lines[i])) => Len(lines) <= MaxRuns
  /\ pc = "reply" => lines # <<>> /\ Head(lines).kind = "result"

(* A worker that has loaded the project read the sources of the digest, or *)
(* they were edited since; it is loaded before it is queried.              *)
LoadedIsCurrent ==
  /\ edited \/ disk = digest
  /\ worker.loaded => worker.seen = digest \/ worker.raced
  /\ pc \in {"load", "loadStore", "commit"} \/ Querying => worker.loaded

IsSound(fact, k, version) ==
  fact.state = "resolved" => fact.about \in Meant(k) /\ (fact.seen = version \/ fact.raced)

(* What is stored anywhere is answered and sound.                          *)
StoresAreSound ==
  \A entry \in cache \cup snapshot \cup other :
    entry.fact.state # "unresolved" /\ IsSound(entry.fact, entry.key, entry.version)

EvidenceIsCurrent == \A k \in Key : IsSound(evidence[k], k, digest)

Answered(k) == evidence[k].state # "unresolved"

(* The members before the batch are answered, before the store all are.    *)
BatchesAreAnswered ==
  /\ Querying =>
       \A i \in 1..Len(Keys[Group]) : i <= chunk * Batch => Answered(Keys[Group][i])
  /\ pc \in {"loadStore", "commit"} => \A k \in ToSet(Keys[Group]) : Answered(k)

(* So are those of the groups before, or their failure is recorded.        *)
GroupsAreHandled ==
  runs > 0 /\ "script" \notin failures =>
    /\ Unowned # {} => "unconfigured" \in failures
    /\ \A j \in 1..(next - 1) :
         Groups[j] \in failures \/ \A k \in ToSet(Keys[Groups[j]]) : Answered(k)
    /\ pc = "idle" => next > Len(Groups)

IInv ==
  /\ Typed /\ SessionIsOfAGroup /\ RequestIsAwaited /\ LinesAnswerTheRequest
  /\ LoadedIsCurrent /\ StoresAreSound /\ EvidenceIsCurrent
  /\ BatchesAreAnswered /\ GroupsAreHandled
-----------------------------------------------------------------------------
(* The steps, by what they change.                                         *)

LEMMA EvidenceSteps ==
  ASSUME [Next]_vars
  PROVE  UNCHANGED <<evidence, digest>> \/ Collect \/ LoadCached \/ ReplyToQuery \/ UnsafeSpans
BY DEF Next, Client, Worker, vars, collectionVars, Spawn, SpawnFails, Finish, Send, NotSent, Receive,
       Refuse, Disconnected, Timeout, ReplyToCapabilities, ReplyToInitialize, Unusable, Miss,
       LoadStore, Commit, Fail, Reads, Capabilities, Initialize, Query, Rejects, Prints, Hangs,
       Exits, Edit, OtherLoads, OtherCommits

LEMMA StoreSteps ==
  ASSUME [Next]_vars
  PROVE  UNCHANGED <<cache, snapshot, other>> \/ LoadStore \/ Commit \/ OtherLoads \/ OtherCommits
BY DEF Next, Client, Worker, vars, cacheVars, Collect, Spawn, SpawnFails, Finish, Send, NotSent,
       Receive, Refuse, Disconnected, Timeout, ReplyToCapabilities, ReplyToInitialize, Unusable,
       LoadCached, Miss, ReplyToQuery, UnsafeSpans, Fail, Reads, Capabilities, Initialize, Query,
       Rejects, Prints, Hangs, Exits, Edit

Surroundings == Edit \/ OtherLoads \/ OtherCommits

LEMMA SurroundingsStayOutside ==
  ASSUME Surroundings
  PROVE  UNCHANGED <<pc, collectionVars, sessionVars, evidence, failures, workerVars>>
BY DEF Surroundings, Edit, OtherLoads, OtherCommits

(* The steps that end a session without success.                           *)
Failing ==
  SpawnFails \/ NotSent \/ Refuse \/ Disconnected \/ Timeout \/ Unusable

LEMMA FailingSteps ==
  ASSUME IInv, Failing
  PROVE  Fail /\ pc # "idle" /\ next <= Len(Groups)
BY DEF Failing, SpawnFails, NotSent, Refuse, Disconnected, Timeout, Unusable, IInv,
       SessionIsOfAGroup, InSession

Ending == Failing \/ LoadCached \/ UnsafeSpans \/ Commit

LEMMA EndingSteps ==
  ASSUME IInv, Ending
  PROVE  /\ EndSession /\ pc # "idle" /\ next <= Len(Groups)
         /\ UNCHANGED <<sourceVars, collectionVars, edited, method, chunk, id, runs>>
<1>1. CASE Failing
  BY <1>1, FailingSteps DEF Fail, collectionVars
<1>2. CASE LoadCached \/ UnsafeSpans \/ Commit
  BY <1>2 DEF LoadCached, UnsafeSpans, Commit, IInv, SessionIsOfAGroup, InSession, collectionVars
<1>3. QED
  BY <1>1, <1>2 DEF Ending

(* The steps of the worker that answer a request.                          *)
Writes == Capabilities \/ Initialize \/ Query \/ Rejects

LEMMA SessionSteps ==
  ASSUME [Next]_vars
  PROVE  \/ UNCHANGED vars \/ Surroundings \/ Collect \/ Spawn \/ Finish \/ Send \/ Receive
         \/ ReplyToCapabilities \/ ReplyToInitialize \/ Miss \/ ReplyToQuery \/ LoadStore \/ Ending
         \/ Reads \/ Writes \/ Prints \/ Hangs \/ Exits
BY DEF Next, Client, Worker, Surroundings, Ending, Failing, Writes

-----------------------------------------------------------------------------
(* The operators.                                                          *)

LEMMA OwnedAreKeys == Owned \subseteq Key
BY DEF Key

LEMMA OwnersOfMembers ==
  ASSUME NEW j \in 1..Len(Groups)
  PROVE  /\ Groups[j] \in GroupSet
         /\ Keys[Groups[j]] \in Seq(Owned)
         /\ ToSet(Keys[Groups[j]]) \subseteq Owned
         /\ \A i \in 1..Len(Keys[Groups[j]]) : Keys[Groups[j]][i] \in Owned
<1>1. Groups[j] \in GroupSet
  BY SessionAssumption DEF ToSet, GroupSet
<1>2. Keys[Groups[j]] \in Seq(Owned)
  BY <1>1, SessionAssumption
<1>3. QED
  BY <1>1, <1>2 DEF ToSet

LEMMA GroupOfSession ==
  ASSUME TypeOK, next <= Len(Groups)
  PROVE  /\ Group \in GroupSet
         /\ Keys[Group] \in Seq(Owned)
         /\ ToSet(Keys[Group]) \subseteq Owned
         /\ \A i \in 1..Len(Keys[Group]) : Keys[Group][i] \in Owned
<1>1. next \in 1..Len(Groups)
  BY SessionAssumption DEF TypeOK
<1>2. QED
  BY <1>1, OwnersOfMembers DEF Group

LEMMA ChunkOfSession ==
  ASSUME TypeOK, next <= Len(Groups)
  PROVE  /\ Chunk \in Seq(Owned)
         /\ method = "query" =>
              /\ DOMAIN Chunk =
                   1..(Least((chunk + 1) * Batch, Len(Keys[Group])) - chunk * Batch)
              /\ \A i \in DOMAIN Chunk : Chunk[i] = Keys[Group][chunk * Batch + i]
<1>1. Keys[Group] \in Seq(Owned)
  BY GroupOfSession
<1>2. CASE method # "query"
  BY <1>2 DEF Chunk
<1>3. CASE method = "query"
  <2>1. chunk * Batch \in Nat /\ (chunk + 1) * Batch \in Nat
    BY SessionAssumption DEF TypeOK
  <2> DEFINE first == chunk * Batch + 1
             last == Least((chunk + 1) * Batch, Len(Keys[Group]))
  <2>2. Chunk = SubSeq(Keys[Group], first, last)
    BY <1>3 DEF Chunk
  <2>3. first \in Nat /\ first >= 1 /\ last \in Nat /\ last <= Len(Keys[Group])
    BY <1>1, <2>1 DEF Least
  <2>4. first = chunk * Batch + 1
    OBVIOUS
  <2>5. last = Least((chunk + 1) * Batch, Len(Keys[Group]))
    OBVIOUS
  <2> HIDE DEF first, last
  <2>6. SubSeq(Keys[Group], first, last) = [i \in 1..(last - first + 1) |-> Keys[Group][i + first - 1]]
    BY <1>1, <2>3
  <2>7. DOMAIN Chunk = 1..(last - first + 1)
        /\ \A i \in DOMAIN Chunk : Chunk[i] = Keys[Group][i + first - 1]
    BY <2>2, <2>6
  <2>8. Chunk \in Seq(Owned)
    BY <1>1, <2>2, <2>3, SubSeqProperties
  <2>9. DOMAIN Chunk = 1..(last - chunk * Batch)
    BY <2>1, <2>3, <2>4, <2>7
  <2>10. ASSUME NEW i \in DOMAIN Chunk
         PROVE  Chunk[i] = Keys[Group][chunk * Batch + i]
    <3>1. i + first - 1 = chunk * Batch + i
      BY <2>1, <2>4, <2>9
    <3>2. QED
      BY <2>7, <3>1
  <2>11. QED
    BY <2>5, <2>8, <2>9, <2>10
<1>4. QED
  BY <1>2, <1>3

(* What the client takes of a batch is about the member it asked for.      *)
LEMMA TakenFacts ==
  ASSUME TypeOK, next <= Len(Groups), NEW results \in Seq(Fact), Len(results) <= Len(Chunk)
  PROVE  /\ Take(results) \in [Key -> Fact]
         /\ \A k \in Key :
              \/ Take(results)[k] = evidence[k] /\ \A i \in DOMAIN results : Chunk[i] # k
              \/ \E i \in DOMAIN results : Chunk[i] = k /\ Take(results)[k] = results[i]
<1> DEFINE answered == {Asked(i) : i \in DOMAIN results}
           Taken(k) == IF k \in answered
                       THEN results[CHOOSE i \in DOMAIN results : Asked(i) = k]
                       ELSE evidence[k]
<1>1. Take(results) = [k \in Key |-> Taken(k)]
  BY DEF Take
<1>2. ASSUME NEW k \in Key
      PROVE  /\ Taken(k) \in Fact
             /\ \/ Taken(k) = evidence[k] /\ \A i \in DOMAIN results : Chunk[i] # k
                \/ \E i \in DOMAIN results : Chunk[i] = k /\ Taken(k) = results[i]
  <2>1. CASE k \in answered
    <3> DEFINE position == CHOOSE i \in DOMAIN results : Asked(i) = k
    <3>1. position \in DOMAIN results /\ Asked(position) = k
      BY <2>1
    <3>2. Taken(k) = results[position]
      BY <2>1
    <3>3. results[position] \in Fact
      BY <3>1
    <3>4. QED
      BY <3>1, <3>2, <3>3 DEF Asked
  <2>2. CASE k \notin answered
    <3>1. Taken(k) = evidence[k]
      BY <2>2
    <3>2. \A i \in DOMAIN results : Chunk[i] # k
      BY <2>2 DEF Asked
    <3>3. evidence[k] \in Fact
      BY DEF TypeOK
    <3>4. QED
      BY <3>1, <3>2, <3>3
  <2>3. QED
    BY <2>1, <2>2
<1> HIDE DEF Taken
<1>3. QED
  BY <1>1, <1>2

LEMMA AnswersAreFacts ==
  ASSUME NEW k \in Owned, NEW seen \in Versions \cup {0}, NEW raced \in BOOLEAN
  PROVE  /\ Answer(k, seen, raced) \in Fact
         /\ Answer(k, seen, raced).state # "unresolved"
         /\ Answer(k, seen, raced).about \in Meant(k)
         /\ Answer(k, seen, raced).seen = seen
         /\ Answer(k, seen, raced).raced = raced
BY SessionAssumption DEF Answer, Fact, Meant

LEMMA LinesRead ==
  ASSUME NEW queue \in Seq(Output), queue # <<>>
  PROVE  /\ Tail(queue) \in Seq(Output) /\ Head(queue) \in Output
         /\ 1 \in DOMAIN queue /\ Head(queue) = queue[1]
         /\ Len(Tail(queue)) = Len(queue) - 1
         /\ \A i \in DOMAIN Tail(queue) : i + 1 \in DOMAIN queue /\ Tail(queue)[i] = queue[i + 1]
OBVIOUS

LEMMA LinesWritten ==
  ASSUME NEW queue \in Seq(Output), NEW line \in Output
  PROVE  /\ Append(queue, line) \in Seq(Output)
         /\ Len(Append(queue, line)) = Len(queue) + 1
         /\ \A i \in DOMAIN Append(queue, line) :
              \/ i \in DOMAIN queue /\ Append(queue, line)[i] = queue[i]
              \/ i = Len(queue) + 1 /\ Append(queue, line)[i] = line
OBVIOUS

(* A reply to a query that the client takes answers the batch it sent.     *)
LEMMA QueryReplies ==
  ASSUME IInv, pc = "reply", method = "query"
  PROVE  /\ next <= Len(Groups) /\ Chunk \in Seq(Owned)
         /\ lines # <<>> /\ Head(lines) \in Output /\ Tail(lines) \in Seq(Output)
         /\ Head(lines).results = Answers(Chunk)
         /\ Head(lines).results \in Seq(Fact)
         /\ Len(Head(lines).results) = Len(Chunk)
         /\ worker.seen = digest \/ worker.raced
<1>1. next <= Len(Groups) /\ TypeOK /\ Querying
  BY DEF IInv, Typed, SessionIsOfAGroup, InSession, Querying
<1>2. Chunk \in Seq(Owned)
  BY <1>1, ChunkOfSession
<1>3. lines # <<>> /\ lines \in Seq(Output) /\ Head(lines).kind = "result"
  BY DEF IInv, Typed, LinesAnswerTheRequest
<1>4. Head(lines) \in Output /\ Tail(lines) \in Seq(Output) /\ 1 \in DOMAIN lines /\ Head(lines) = lines[1]
  BY <1>3, LinesRead
<1>5. ~IsNoise(lines[1])
  BY <1>3, <1>4 DEF IsNoise
<1>6. Head(lines).results = Answers(Chunk)
  BY <1>3, <1>4, <1>5 DEF IInv, LinesAnswerTheRequest
<1>7. Head(lines).results \in Seq(Fact)
  BY <1>4 DEF Output
<1>8. Len(Head(lines).results) = Len(Chunk)
  BY <1>2, <1>6, <1>7 DEF Answers
<1>9. worker.seen = digest \/ worker.raced
  BY <1>1 DEF IInv, LoadedIsCurrent
<1>10. QED
  BY <1>1, <1>2, <1>3, <1>4, <1>6, <1>7, <1>8, <1>9

(* So does each part of it.                                                *)
LEMMA TakenReplies ==
  ASSUME IInv, pc = "reply", method = "query",
         NEW n \in 0..Len(Head(lines).results)
  PROVE  LET taken == Take(SubSeq(Head(lines).results, 1, n))
         IN  /\ taken \in [Key -> Fact]
             /\ \A k \in Key : /\ IsSound(taken[k], k, digest)
                               /\ Answered(k) => taken[k].state # "unresolved"
             /\ \A i \in 1..n : taken[Chunk[i]].state # "unresolved"
<1> DEFINE all == Head(lines).results
           results == SubSeq(all, 1, n)
           taken == Take(results)
<1>1. next <= Len(Groups) /\ Chunk \in Seq(Owned) /\ all = Answers(Chunk) /\ all \in Seq(Fact)
      /\ Len(all) = Len(Chunk) /\ (worker.seen = digest \/ worker.raced)
  BY QueryReplies
<1>2. TypeOK /\ EvidenceIsCurrent /\ worker.seen \in Versions \cup {0} /\ worker.raced \in BOOLEAN
  BY DEF IInv, Typed, WorkerType
<1>3. results \in Seq(Fact) /\ DOMAIN results = 1..n /\ \A i \in 1..n : results[i] = all[i]
  BY <1>1
<1>4. \A i \in 1..n : i \in DOMAIN Chunk /\ Chunk[i] \in Owned
                      /\ results[i] = Answer(Chunk[i], worker.seen, worker.raced)
  BY <1>1, <1>3 DEF Answers
<1>5. Len(results) <= Len(Chunk)
  BY <1>1, <1>3
<1> HIDE DEF all, results
<1>6. /\ taken \in [Key -> Fact]
      /\ \A k \in Key :
              \/ taken[k] = evidence[k] /\ \A i \in DOMAIN results : Chunk[i] # k
              \/ \E i \in DOMAIN results : Chunk[i] = k /\ taken[k] = results[i]
  BY <1>1, <1>2, <1>3, <1>5, TakenFacts
<1> HIDE DEF taken
<1>7. ASSUME NEW k \in Key
      PROVE  IsSound(taken[k], k, digest) /\ (Answered(k) => taken[k].state # "unresolved")
  <2>1. CASE taken[k] = evidence[k]
    BY <2>1, <1>2 DEF EvidenceIsCurrent, Answered
  <2>2. CASE \E i \in DOMAIN results : Chunk[i] = k /\ taken[k] = results[i]
    <3>1. PICK i \in DOMAIN results : Chunk[i] = k /\ taken[k] = results[i]
      BY <2>2
    <3>2. k \in Owned /\ taken[k] = Answer(k, worker.seen, worker.raced)
      BY <3>1, <1>3, <1>4
    <3>3. /\ taken[k].state # "unresolved" /\ taken[k].about \in Meant(k)
          /\ taken[k].seen = worker.seen /\ taken[k].raced = worker.raced
      BY <3>2, <1>2, AnswersAreFacts
    <3>4. QED
      BY <3>3, <1>1 DEF IsSound
  <2>3. QED
    BY <1>6, <2>1, <2>2
<1>8. ASSUME NEW i \in 1..n
      PROVE  taken[Chunk[i]].state # "unresolved"
  <2>1. Chunk[i] \in Owned /\ Chunk[i] \in Key
    BY <1>4, OwnedAreKeys
  <2>2. PICK j \in DOMAIN results : Chunk[j] = Chunk[i] /\ taken[Chunk[i]] = results[j]
    BY <1>3, <1>6, <2>1
  <2>3. taken[Chunk[i]] = Answer(Chunk[i], worker.seen, worker.raced)
    BY <1>3, <1>4, <2>2
  <2>4. QED
    BY <1>2, <2>1, <2>3, AnswersAreFacts
<1>9. QED
  BY <1>6, <1>7, <1>8 DEF taken, results, all

-----------------------------------------------------------------------------
(* The invariant is inductive: one lemma for each part.                    *)

LEMMA InitEstablishes == Init => IInv
<1> SUFFICES ASSUME Init PROVE IInv
  OBVIOUS
<1>1. Unresolved \in Fact
  BY DEF Unresolved, Fact
<1>2. Typed
  <2>1. /\ edits \in 0..MaxEdits /\ next \in 1..(Len(Groups) + 1) /\ id \in Nat /\ chunk \in Nat
        /\ runs \in Nat /\ Len(lines) <= MaxRuns + 1 /\ lines \in Seq(Output)
    BY SessionAssumption DEF Init
  <2>2. evidence \in [Key -> Fact]
    BY <1>1 DEF Init
  <2>3. /\ cache \subseteq Entry /\ snapshot \subseteq Entry /\ other \subseteq Entry
        /\ disk \in Versions /\ digest \in Versions /\ edited \in BOOLEAN
        /\ failures \subseteq GroupSet \cup {"unconfigured", "script"}
        /\ pc = "idle" /\ method = "capabilities" /\ request.id \in Nat
    BY DEF Init, NoRequest
  <2>4. worker \in WorkerType
    BY DEF Init, NoWorker, WorkerType
  <2>5. worker.state = "none"
    BY DEF Init, NoWorker
  <2>6. QED
    BY <2>1, <2>2, <2>3, <2>4, <2>5 DEF Typed, TypeOK
<1>3. SessionIsOfAGroup /\ RequestIsAwaited /\ LinesAnswerTheRequest
  BY SessionAssumption DEF Init, SessionIsOfAGroup, RequestIsAwaited, LinesAnswerTheRequest,
                           InSession, NoWorker
<1>4. LoadedIsCurrent /\ StoresAreSound /\ BatchesAreAnswered /\ GroupsAreHandled
  BY DEF Init, LoadedIsCurrent, StoresAreSound, BatchesAreAnswered, GroupsAreHandled, NoWorker,
         InSession, Querying
<1>5. EvidenceIsCurrent
  BY DEF Init, EvidenceIsCurrent, IsSound, Unresolved
<1>6. QED
  BY <1>2, <1>3, <1>4, <1>5 DEF IInv

(* A hit: each member of the group has an entry under the key.             *)
LEMMA CachedFacts ==
  ASSUME IInv, LoadCached
  PROVE  /\ next <= Len(Groups)
         /\ evidence' \in [Key -> Fact]
         /\ \A k \in Key : \/ evidence'[k] = evidence[k] /\ k \notin ToSet(Keys[Group])
                           \/ evidence'[k].state # "unresolved" /\ IsSound(evidence'[k], k, digest)
<1>1. next <= Len(Groups) /\ TypeOK /\ StoresAreSound
  BY DEF LoadCached, IInv, SessionIsOfAGroup, InSession, Typed
<1> DEFINE Entered(k) == CHOOSE entry \in Cached : entry.key = k
           Known(k) == IF k \in ToSet(Keys[Group]) THEN Entered(k).fact ELSE evidence[k]
<1>2. evidence' = [k \in Key |-> Known(k)]
  BY DEF LoadCached
<1>3. ASSUME NEW k \in Key
      PROVE  /\ Known(k) \in Fact
             /\ \/ Known(k) = evidence[k] /\ k \notin ToSet(Keys[Group])
                \/ Known(k).state # "unresolved" /\ IsSound(Known(k), k, digest)
  <2>1. CASE k \in ToSet(Keys[Group])
    <3>1. \E entry \in Cached : entry.key = k
      BY <2>1 DEF LoadCached, Hit
    <3>2. Entered(k) \in Cached /\ Entered(k).key = k
      BY <3>1
    <3>3. Entered(k) \in cache /\ Entered(k).version = digest
      BY <3>2 DEF Cached, CacheKey
    <3>4. Entered(k).fact \in Fact
      BY <3>3, <1>1 DEF TypeOK, Entry
    <3>5. Entered(k).fact.state # "unresolved" /\ IsSound(Entered(k).fact, k, digest)
      BY <3>2, <3>3, <1>1 DEF StoresAreSound
    <3>6. Known(k) = Entered(k).fact
      BY <2>1
    <3>7. QED
      BY <3>4, <3>5, <3>6
  <2>2. CASE k \notin ToSet(Keys[Group])
    BY <2>2, <1>1 DEF TypeOK
  <2>3. QED
    BY <2>1, <2>2
<1> HIDE DEF Known
<1>4. QED
  BY <1>1, <1>2, <1>3

(* Evidence, by the steps that change it.                                  *)
LEMMA EvidenceGrows ==
  ASSUME IInv, [Next]_vars
  PROVE  /\ evidence' \in [Key -> Fact]
         /\ EvidenceIsCurrent'
         /\ ~Collect => digest' = digest /\ \A k \in Key : Answered(k) => Answered(k)'
<1>1. TypeOK /\ EvidenceIsCurrent
  BY DEF IInv, Typed
<1>2. CASE UNCHANGED <<evidence, digest>>
  BY <1>1, <1>2 DEF EvidenceIsCurrent, TypeOK, Answered, IsSound
<1>3. CASE Collect
  <2>1. evidence' = [k \in Key |-> Unresolved] /\ Unresolved \in Fact
    BY <1>3 DEF Collect, Unresolved, Fact
  <2>2. QED
    BY <1>3, <2>1 DEF EvidenceIsCurrent, IsSound, Unresolved
<1>4. CASE LoadCached
  <2>1. digest' = digest
    BY <1>4 DEF LoadCached, collectionVars
  <2>2. QED
    BY <1>1, <1>4, <2>1, CachedFacts DEF EvidenceIsCurrent, IsSound, Answered
<1>5. CASE ReplyToQuery
  <2> DEFINE results == Head(lines).results
             n == Len(results)
  <2>1. pc = "reply" /\ method = "query" /\ evidence' = Take(results) /\ digest' = digest
    BY <1>5 DEF ReplyToQuery, collectionVars
  <2>2. results \in Seq(Fact)
    BY <2>1, QueryReplies
  <2>3. SubSeq(results, 1, n) = results /\ n \in 0..Len(results)
    BY <2>2
  <2>4. /\ evidence' \in [Key -> Fact]
        /\ \A k \in Key : /\ IsSound(evidence'[k], k, digest)
                          /\ Answered(k) => evidence'[k].state # "unresolved"
    BY <2>1, <2>3, TakenReplies
  <2>5. QED
    BY <2>1, <2>4 DEF EvidenceIsCurrent, IsSound, Answered
<1>6. CASE UnsafeSpans
  <2>1. pc = "reply" /\ method = "query" /\ digest' = digest
    BY <1>6 DEF UnsafeSpans, collectionVars
  <2>2. PICK n \in 0..(Len(Head(lines).results) - 1) :
          evidence' = Take(SubSeq(Head(lines).results, 1, n))
    BY <1>6 DEF UnsafeSpans
  <2>3. n \in 0..Len(Head(lines).results)
    BY <2>1, QueryReplies
  <2>4. /\ evidence' \in [Key -> Fact]
        /\ \A k \in Key : /\ IsSound(evidence'[k], k, digest)
                          /\ Answered(k) => evidence'[k].state # "unresolved"
    BY <2>1, <2>2, <2>3, TakenReplies
  <2>5. QED
    BY <2>1, <2>4 DEF EvidenceIsCurrent, IsSound, Answered
<1>7. QED
  BY <1>2, <1>3, <1>4, <1>5, <1>6, EvidenceSteps

(* The stores.                                                             *)
LEMMA StoresStaySound ==
  ASSUME IInv, [Next]_vars
  PROVE  /\ StoresAreSound'
         /\ cache' \subseteq Entry /\ snapshot' \subseteq Entry /\ other' \subseteq Entry
<1>1. TypeOK /\ other \subseteq Entry /\ StoresAreSound /\ EvidenceIsCurrent
  BY DEF IInv, Typed
<1> DEFINE Fine(entry) ==
      /\ entry \in Entry /\ entry.fact.state # "unresolved"
      /\ IsSound(entry.fact, entry.key, entry.version)
<1>2. \A entry \in cache \cup snapshot \cup other : Fine(entry)
  BY <1>1 DEF StoresAreSound, TypeOK
<1>3. SUFFICES \A entry \in cache' \cup snapshot' \cup other' : Fine(entry)
  BY <1>3 DEF StoresAreSound, IsSound
<1>4. CASE UNCHANGED <<cache, snapshot, other>>
  BY <1>2, <1>4
<1>5. CASE LoadStore
  <2>1. UNCHANGED <<cache, other>> /\ snapshot' \subseteq cache
    BY <1>5 DEF LoadStore
  <2>2. QED
    BY <1>2, <2>1
<1>6. CASE Commit
  <2>1. next <= Len(Groups) /\ \A k \in ToSet(Keys[Group]) : Answered(k)
    BY <1>6 DEF Commit, IInv, SessionIsOfAGroup, InSession, BatchesAreAnswered
  <2>2. Group \in GroupSet /\ ToSet(Keys[Group]) \subseteq Owned
    BY <2>1, <1>1, GroupOfSession
  <2>3. ASSUME NEW entry \in Stored PROVE Fine(entry)
    <3>1. PICK k \in ToSet(Keys[Group]) :
            entry = [group |-> Group, version |-> digest, key |-> k, fact |-> evidence[k]]
      BY DEF Stored
    <3>2. k \in Owned /\ k \in Key /\ evidence[k] \in Fact /\ digest \in Versions
      BY <2>2, <1>1, OwnedAreKeys DEF TypeOK
    <3>3. entry \in Entry
      BY <3>1, <3>2, <2>2 DEF Entry
    <3>4. entry.fact.state # "unresolved"
      BY <3>1, <2>1 DEF Answered
    <3>5. IsSound(entry.fact, entry.key, entry.version)
      BY <3>1, <3>2, <1>1 DEF EvidenceIsCurrent
    <3>6. QED
      BY <3>3, <3>4, <3>5
  <2>4. cache' \subseteq Stored \cup snapshot \cup cache /\ snapshot' = {} /\ other' = other
    BY <1>6 DEF Commit, Merged
  <2> HIDE DEF Fine
  <2>5. QED
    BY <2>3, <2>4, <1>2
<1>7. CASE OtherLoads
  <2>1. PICK g \in GroupSet :
          other' \subseteq cache \cup
            {[group |-> g, version |-> disk, key |-> k, fact |-> Answer(k, disk, FALSE)] :
               k \in ToSet(Keys[g])}
    BY <1>7 DEF OtherLoads
  <2>2. cache' = cache /\ snapshot' = snapshot
    BY <1>7 DEF OtherLoads
  <2>3. ASSUME NEW k \in ToSet(Keys[g])
        PROVE  Fine([group |-> g, version |-> disk, key |-> k, fact |-> Answer(k, disk, FALSE)])
    <3>1. k \in Owned /\ disk \in Versions
      BY <1>1, SessionAssumption DEF ToSet, TypeOK
    <3>2. /\ Answer(k, disk, FALSE) \in Fact /\ Answer(k, disk, FALSE).state # "unresolved"
          /\ Answer(k, disk, FALSE).about \in Meant(k) /\ Answer(k, disk, FALSE).seen = disk
      BY <3>1, AnswersAreFacts
    <3>3. QED
      BY <3>1, <3>2 DEF Entry, IsSound
  <2> HIDE DEF Fine
  <2>4. QED
    BY <1>2, <2>1, <2>2, <2>3
<1>8. CASE OtherCommits
  BY <1>2, <1>8 DEF OtherCommits
<1>9. QED
  BY <1>4, <1>5, <1>6, <1>7, <1>8, StoreSteps

(* The worker answers what is awaited, with one line.                      *)
AnswerLine(line) ==
  /\ line \in Output /\ ~IsNoise(line)
  /\ line.kind = "result" /\ method = "query" => line.results = Answers(Chunk)
  /\ line.kind = "result" /\ method = "initialize" /\ line.body => worker'.loaded

LEMMA WorkerAnswers ==
  ASSUME IInv, Writes
  PROVE  /\ pc = "await" /\ request # NoRequest /\ request' = NoRequest
         /\ \E line : AnswerLine(line) /\ lines' = Append(lines, line)
         /\ method # "initialize" =>
              worker'.seen = worker.seen /\ worker'.raced = worker.raced
              /\ worker'.loaded = worker.loaded
         /\ worker'.loaded => worker'.seen = digest \/ worker'.raced
         /\ worker' \in WorkerType /\ ~worker'.busy /\ worker'.state = worker.state
         /\ UNCHANGED <<pc, sourceVars, collectionVars, edited, sessionVars>>
<1>1. /\ pc = "await" /\ request # NoRequest /\ request.method = method
      /\ request.asked = Chunk
  BY DEF IInv, RequestIsAwaited, Writes, Capabilities, Initialize, Query, Rejects, Busy
<1>2. next <= Len(Groups) /\ TypeOK /\ request.id \in Nat /\ worker \in WorkerType
  BY <1>1 DEF IInv, SessionIsOfAGroup, InSession, Typed, WorkerType
<1>3. Chunk \in Seq(Owned)
  BY <1>2, ChunkOfSession
<1>4. /\ worker.loaded => worker.seen = digest \/ worker.raced
      /\ edited \/ disk = digest
  BY DEF IInv, LoadedIsCurrent
<1>5. UNCHANGED <<pc, sourceVars, collectionVars, edited, sessionVars>> /\ request' = NoRequest
  BY DEF Writes, Capabilities, Initialize, Query, Rejects
<1>6. CASE Initialize
  <2>1. method = "initialize"
    BY <1>1, <1>6 DEF Initialize
  <2>2. disk \in Versions /\ edited \in BOOLEAN
    BY <1>2 DEF TypeOK
  <2>3. PICK built \in BOOLEAN :
          /\ lines' = Append(lines, [kind |-> "result", id |-> request.id, body |-> built,
                                     results |-> <<>>])
          /\ worker' = IF built THEN [worker EXCEPT !.busy = FALSE, !.loaded = TRUE,
                                                    !.seen = disk, !.raced = edited]
                       ELSE [worker EXCEPT !.busy = FALSE]
    BY <1>6 DEF Initialize, Line
  <2>4. worker' \in WorkerType /\ ~worker'.busy /\ (built => worker'.loaded)
        /\ worker'.state = worker.state
        /\ (worker'.loaded => worker'.seen = digest \/ worker'.raced)
    <3>1. CASE built
      BY <3>1, <2>2, <2>3, <1>2, <1>4 DEF WorkerType
    <3>2. CASE ~built
      BY <3>2, <2>2, <2>3, <1>2, <1>4 DEF WorkerType
    <3>3. QED
      BY <3>1, <3>2
  <2> DEFINE line == [kind |-> "result", id |-> request.id, body |-> built, results |-> <<>>]
  <2>5. AnswerLine(line)
    BY <2>1, <2>4, <1>2 DEF AnswerLine, Output, IsNoise
  <2>6. QED
    BY <2>1, <2>3, <2>4, <2>5, <1>1, <1>5
<1>7. CASE Capabilities \/ Query \/ Rejects
  <2>1. worker' = [worker EXCEPT !.busy = FALSE]
    BY <1>7 DEF Capabilities, Query, Rejects
  <2>2. /\ worker' \in WorkerType /\ ~worker'.busy /\ worker'.seen = worker.seen
        /\ worker'.raced = worker.raced /\ worker'.loaded = worker.loaded
        /\ worker'.state = worker.state
    BY <2>1, <1>2 DEF WorkerType
  <2>3. \E line : AnswerLine(line) /\ lines' = Append(lines, line)
    <3>1. CASE Capabilities
      <4>1. PICK supported \in BOOLEAN :
              lines' = Append(lines, [kind |-> "result", id |-> request.id, body |-> supported,
                                      results |-> <<>>])
        BY <3>1 DEF Capabilities, Line
      <4>2. method = "capabilities"
        BY <3>1, <1>1 DEF Capabilities
      <4>3. AnswerLine([kind |-> "result", id |-> request.id, body |-> supported,
                        results |-> <<>>])
        BY <4>2, <1>2 DEF AnswerLine, Output, IsNoise
      <4>4. QED
        BY <4>1, <4>3
    <3>2. CASE Query
      <4>1. lines' = Append(lines, [kind |-> "result", id |-> request.id, body |-> TRUE,
                                    results |-> Answers(Chunk)])
        BY <3>2, <1>1 DEF Query, Line, Answers
      <4>2. method = "query"
        BY <3>2, <1>1 DEF Query
      <4>3. ASSUME NEW i \in DOMAIN Chunk
            PROVE  Answer(Chunk[i], worker.seen, worker.raced) \in Fact
        BY <1>2, <1>3, AnswersAreFacts DEF WorkerType
      <4>4. Answers(Chunk) \in Seq(Fact)
        BY <1>3, <4>3 DEF Answers
      <4>5. AnswerLine([kind |-> "result", id |-> request.id, body |-> TRUE,
                        results |-> Answers(Chunk)])
        BY <4>2, <4>4, <1>2 DEF AnswerLine, Output, IsNoise
      <4>6. QED
        BY <4>1, <4>5
    <3>3. CASE Rejects
      <4>1. lines' = Append(lines, [kind |-> "error", id |-> request.id, body |-> FALSE,
                                    results |-> <<>>])
        BY <3>3 DEF Rejects, Line
      <4>2. AnswerLine([kind |-> "error", id |-> request.id, body |-> FALSE, results |-> <<>>])
        BY <1>2 DEF AnswerLine, Output, IsNoise
      <4>3. QED
        BY <4>1, <4>2
    <3>4. QED
      BY <1>7, <3>1, <3>2, <3>3
  <2>4. QED
    BY <2>2, <2>3, <1>1, <1>4, <1>5 DEF collectionVars
<1>8. QED
  BY <1>6, <1>7 DEF Writes

LEMMA TypesStay ==
  ASSUME IInv, [Next]_vars
  PROVE  Typed'
<1> USE SessionAssumption
<1>1. Typed /\ TypeOK
  BY DEF IInv, Typed
<1>2. /\ evidence' \in [Key -> Fact]
      /\ cache' \subseteq Entry /\ snapshot' \subseteq Entry /\ other' \subseteq Entry
  BY EvidenceGrows, StoresStaySound
<1> DEFINE SourcesTyped == /\ disk' \in Versions /\ edits' \in 0..MaxEdits
                           /\ digest' \in Versions /\ edited' \in BOOLEAN /\ runs' \in Nat
           SessionTyped == /\ next' \in 1..(Len(Groups) + 1) /\ id' \in Nat /\ chunk' \in Nat
                           /\ method' \in {"capabilities", "initialize", "query"}
                           /\ pc' \in {"idle", "group", "send", "write", "await", "reply", "load",
                                       "query", "loadStore", "commit"}
           FailuresTyped == failures' \subseteq GroupSet \cup {"unconfigured", "script"}
           WorkerTyped == worker' \in WorkerType /\ request'.id \in Nat
                          /\ lines' \in Seq(Output) /\ Len(lines') <= MaxRuns + 1
<1>3. SourcesTyped
  <2>1. CASE UNCHANGED <<sourceVars, collectionVars, edited>>
    BY <2>1, <1>1 DEF sourceVars, collectionVars, Typed, TypeOK
  <2>2. CASE Edit
    BY <2>2, <1>1 DEF Edit, collectionVars, Typed, TypeOK
  <2>3. CASE Collect
    <3>1. disk' = disk /\ edits' = edits /\ digest' = disk /\ edited' = FALSE /\ runs' = runs + 1
      BY <2>3 DEF Collect, sourceVars
    <3>2. disk \in Versions /\ edits \in 0..MaxEdits /\ runs \in Nat
      BY <1>1 DEF Typed, TypeOK
    <3>3. runs' \in Nat
      BY <3>1, <3>2
    <3>4. disk' \in Versions /\ edits' \in 0..MaxEdits /\ digest' \in Versions
      BY <3>1, <3>2
    <3>5. edited' \in BOOLEAN
      BY <3>1
    <3>6. QED
      BY <3>3, <3>4, <3>5
  <2>4. CASE OtherLoads \/ OtherCommits
    BY <2>1, <2>4 DEF OtherLoads, OtherCommits
  <2>5. CASE Spawn \/ Finish \/ Send \/ Receive \/ ReplyToCapabilities \/ ReplyToInitialize
             \/ Miss \/ ReplyToQuery \/ LoadStore \/ Reads \/ Prints \/ Hangs \/ Exits
    BY <2>1, <2>5 DEF Spawn, Finish, Send, Receive, ReplyToCapabilities, ReplyToInitialize,
                      Miss, ReplyToQuery, LoadStore, Reads, Prints, Hangs, Exits
  <2>6. CASE Ending \/ Writes
    BY <2>1, <2>6, EndingSteps, WorkerAnswers
  <2>7. CASE UNCHANGED vars
    BY <2>1, <2>7 DEF vars
  <2>8. QED
    BY <2>2, <2>3, <2>4, <2>5, <2>6, <2>7, SessionSteps DEF Surroundings
<1>4. FailuresTyped
  <2>1. CASE UNCHANGED failures
    BY <2>1, <1>1 DEF TypeOK
  <2>2. CASE Collect
    BY <2>2 DEF Collect, Start
  <2>3. CASE failures' = failures \cup {Group} /\ next <= Len(Groups)
    BY <2>3, <1>1, GroupOfSession DEF TypeOK
  <2>4. QED
    <3>1. CASE Failing
      BY <3>1, <2>3, FailingSteps DEF Fail
    <3>2. CASE UnsafeSpans
      BY <3>2, <2>3, QueryReplies DEF UnsafeSpans
    <3>3. CASE LoadCached \/ Commit
      BY <3>3, <2>1 DEF LoadCached, Commit
    <3>4. CASE Writes
      BY <3>4, <2>1 DEF Writes, Capabilities, Initialize, Query, Rejects
    <3>5. CASE Surroundings
      BY <3>5, <2>1, SurroundingsStayOutside
    <3>6. QED
      BY <2>1, <2>2, <3>1, <3>2, <3>3, <3>4, <3>5, SessionSteps
         DEF vars, Ending, Spawn, Finish, Send, Receive, ReplyToCapabilities, ReplyToInitialize,
             Miss, ReplyToQuery, LoadStore, Reads, Prints, Hangs, Exits
<1>5. SessionTyped
  <2>1. CASE UNCHANGED <<sessionVars, pc>>
    BY <2>1, <1>1 DEF sessionVars, TypeOK
  <2>2. CASE Ending
    BY <2>2, <1>1, EndingSteps DEF EndSession, TypeOK
  <2>3. CASE Collect \/ Spawn \/ Finish
    BY <2>3, <1>1 DEF TypeOK, Collect, Spawn, Finish, sessionVars
  <2>4. CASE Send \/ Receive \/ LoadStore \/ Reads
    BY <2>4, <1>1 DEF TypeOK, Send, Receive, LoadStore, Reads, sessionVars
  <2>5. CASE ReplyToCapabilities \/ ReplyToInitialize
    BY <2>5, <1>1 DEF TypeOK, ReplyToCapabilities, ReplyToInitialize, Ask, sessionVars
  <2>6. CASE Miss \/ ReplyToQuery
    BY <2>6, <1>1 DEF TypeOK, Miss, ReplyToQuery, Ask, sessionVars
  <2>7. QED
    BY <2>1, <2>2, <2>3, <2>4, <2>5, <2>6, SessionSteps, WorkerAnswers, SurroundingsStayOutside
       DEF vars, Prints, Hangs, Exits
<1>6. WorkerTyped
  <2>1. CASE UNCHANGED workerVars
    BY <2>1, <1>1 DEF workerVars, Typed, TypeOK
  <2>2. CASE Drop
    BY <2>2 DEF Drop, NoWorker, NoRequest, WorkerType
  <2>3. CASE Spawn
    <3>1. Started \in WorkerType
      BY DEF Started, NoWorker, WorkerType
    <3>2. QED
      BY <2>3, <3>1 DEF Spawn, NoRequest
  <2>4. CASE Send
    BY <2>4, <1>1 DEF Send, Typed, TypeOK
  <2>5. CASE ReplyToCapabilities \/ ReplyToInitialize \/ ReplyToQuery
    <3>1. lines # <<>>
      BY <2>5 DEF IInv, LinesAnswerTheRequest, ReplyToCapabilities, ReplyToInitialize, ReplyToQuery
    <3>2. lines' = Tail(lines) /\ worker' = worker /\ request' = request
      BY <2>5 DEF ReplyToCapabilities, ReplyToInitialize, ReplyToQuery, Ask
    <3>3. QED
      BY <3>1, <3>2, <1>1, LinesRead DEF Typed, TypeOK
  <2>6. CASE Reads \/ Hangs \/ Exits
    BY <2>6, <1>1 DEF Reads, Hangs, Exits, Typed, TypeOK, WorkerType
  <2>7. CASE Writes
    <3>1. /\ request # NoRequest /\ request' = NoRequest /\ worker' \in WorkerType
          /\ \E line : AnswerLine(line) /\ lines' = Append(lines, line)
      BY <2>7, WorkerAnswers
    <3>2. Len(lines) <= MaxRuns
      BY <3>1 DEF IInv, LinesAnswerTheRequest
    <3>3. lines' \in Seq(Output) /\ Len(lines') = Len(lines) + 1
      BY <3>1, <1>1, LinesWritten DEF AnswerLine, Typed
    <3>4. QED
      BY <3>1, <3>2, <3>3, <1>1 DEF NoRequest, Typed
  <2>8. CASE Prints
    <3>1. [kind |-> "noise", id |-> 0, body |-> FALSE, results |-> <<>>] \in Output
      BY DEF Output
    <3>2. lines' \in Seq(Output) /\ Len(lines') = Len(lines) + 1 /\ Len(lines) < MaxRuns
      BY <2>8, <3>1, <1>1, LinesWritten DEF Prints, Line, Typed
    <3>3. QED
      BY <2>8, <3>2, <1>1 DEF Prints, Typed
  <2>9. QED
    BY <2>1, <2>2, <2>3, <2>4, <2>5, <2>6, <2>7, <2>8, SessionSteps, SurroundingsStayOutside,
       EndingSteps
       DEF vars, EndSession, Collect, Finish, Receive, Miss, LoadStore
<1>7. worker'.state \in {"none", "running", "hung", "exited"}
  BY <1>6 DEF WorkerType
<1>8. QED
  BY <1>2, <1>3, <1>4, <1>5, <1>6, <1>7 DEF Typed, TypeOK

LEMMA SessionStaysOfAGroup ==
  ASSUME IInv, [Next]_vars
  PROVE  SessionIsOfAGroup'
<1>1. SessionIsOfAGroup /\ RequestIsAwaited /\ TypeOK
  BY DEF IInv, Typed
<1>2. CASE UNCHANGED <<pc, next, workerVars>>
  BY <1>1, <1>2 DEF SessionIsOfAGroup, workerVars
<1>3. CASE Ending
  BY <1>3, EndingSteps DEF SessionIsOfAGroup, EndSession, Drop, InSession
<1>4. CASE Collect \/ Finish
  BY <1>1, <1>4 DEF SessionIsOfAGroup, Collect, Finish, InSession, workerVars
<1>5. CASE pc \in InSession /\ pc' \in InSession /\ next' = next
  BY <1>1, <1>5 DEF SessionIsOfAGroup
<1>6. CASE Spawn
  BY <1>6 DEF SessionIsOfAGroup, Spawn, InSession
<1>7. CASE Reads \/ Hangs \/ Exits \/ Prints
  <2>1. pc \in InSession
    <3>1. worker.state = "running"
      BY <1>7 DEF Reads, Hangs, Exits, Prints
    <3>2. worker # NoWorker
      BY <3>1 DEF NoWorker
    <3>3. QED
      BY <1>1, <3>2 DEF SessionIsOfAGroup
  <2>2. pc' \in InSession /\ next' = next
    BY <1>7, <2>1 DEF Reads, Hangs, Exits, Prints, sessionVars, InSession
  <2>3. QED
    BY <1>5, <2>1, <2>2
<1>8. CASE Writes
  BY <1>5, <1>8, WorkerAnswers DEF InSession, sessionVars
<1>9. CASE Send \/ Receive \/ ReplyToCapabilities \/ ReplyToInitialize \/ Miss \/ ReplyToQuery
           \/ LoadStore
  BY <1>5, <1>9 DEF Send, Receive, ReplyToCapabilities, ReplyToInitialize, Miss, ReplyToQuery,
                    LoadStore, Ask, sessionVars, InSession
<1>10. QED
  BY <1>2, <1>3, <1>4, <1>6, <1>7, <1>8, <1>9, SessionSteps, SurroundingsStayOutside
     DEF vars, sessionVars

LEMMA RequestStaysAwaited ==
  ASSUME IInv, [Next]_vars
  PROVE  RequestIsAwaited'
<1>1. SessionIsOfAGroup /\ RequestIsAwaited /\ LinesAnswerTheRequest /\ Typed
  BY DEF IInv
<1> DEFINE Quiet == request = NoRequest /\ ~worker.busy
           QuietNext == request' = NoRequest /\ ~worker'.busy
<1>2. QuietNext => RequestIsAwaited'
  BY DEF RequestIsAwaited
<1>3. pc \notin {"write", "await"} => Quiet
  BY <1>1 DEF RequestIsAwaited, Typed, WorkerType
<1>4. CASE UNCHANGED <<pc, sessionVars, workerVars>>
  BY <1>1, <1>4 DEF RequestIsAwaited, sessionVars, workerVars, Chunk, Group
<1>5. CASE Drop \/ Spawn
  BY <1>2, <1>5 DEF Drop, Spawn, Started, NoWorker
<1>6. CASE Writes
  BY <1>2, <1>6, WorkerAnswers
<1>7. CASE Collect \/ Finish \/ ReplyToCapabilities \/ ReplyToInitialize \/ Miss \/ ReplyToQuery
           \/ LoadStore
  <2>1. Quiet
    BY <1>3, <1>7 DEF Collect, Finish, ReplyToCapabilities, ReplyToInitialize, Miss, ReplyToQuery,
                      LoadStore
  <2>2. worker' = worker /\ request' = request
    BY <1>7 DEF Collect, Finish, ReplyToCapabilities, ReplyToInitialize, Miss, ReplyToQuery,
                LoadStore, workerVars
  <2>3. QED
    BY <1>2, <2>1, <2>2
<1>8. CASE Receive
  <2>1. lines # <<>> /\ Head(lines).kind = "result" /\ worker' = worker /\ request' = request
    BY <1>8 DEF Receive, Accepts, workerVars
  <2>2. 1 \in DOMAIN lines /\ ~IsNoise(lines[1])
    BY <2>1, <1>1, LinesRead DEF Typed, IsNoise
  <2>3. Quiet
    BY <2>2, <1>1 DEF LinesAnswerTheRequest, RequestIsAwaited, Typed, WorkerType
  <2>4. QED
    BY <1>2, <2>1, <2>3
<1>9. CASE Send
  <2>1. /\ request' = [id |-> id, method |-> method, asked |-> Chunk] /\ Chunk' = Chunk
        /\ pc' \in {"write", "await"} /\ method' = method /\ worker' = worker
    BY <1>9 DEF Send, Chunk, Group
  <2>2. ~worker.busy
    BY <1>3, <1>9 DEF Send
  <2>3. QED
    BY <2>1, <2>2 DEF RequestIsAwaited
<1>10. CASE Reads
  <2>1. request # NoRequest /\ request' = request /\ worker'.busy = TRUE
        /\ UNCHANGED sessionVars
    BY <1>1, <1>10 DEF Reads, Typed, WorkerType
  <2>2. pc' = "await"
    BY <1>1, <1>10 DEF Reads, RequestIsAwaited
  <2>3. QED
    BY <1>1, <2>1, <2>2 DEF RequestIsAwaited, sessionVars, Chunk, Group
<1>11. CASE Prints \/ Hangs \/ Exits
  <2>1. worker'.busy = worker.busy /\ request' = request /\ UNCHANGED <<pc, sessionVars>>
    BY <1>1, <1>11 DEF Prints, Hangs, Exits, Typed, WorkerType
  <2>2. QED
    BY <1>1, <2>1 DEF RequestIsAwaited, sessionVars, Chunk, Group
<1>12. QED
  BY <1>4, <1>5, <1>6, <1>7, <1>8, <1>9, <1>10, <1>11, SessionSteps, EndingSteps,
     SurroundingsStayOutside DEF vars, EndSession

LEMMA LoadedStaysCurrent ==
  ASSUME IInv, [Next]_vars
  PROVE  LoadedIsCurrent'
<1>1. SessionIsOfAGroup /\ RequestIsAwaited /\ LinesAnswerTheRequest /\ LoadedIsCurrent /\ Typed
  BY DEF IInv
<1>2. (edited \/ disk = digest)'
  <2>1. CASE UNCHANGED <<sourceVars, collectionVars, edited>>
    BY <1>1, <2>1 DEF LoadedIsCurrent, sourceVars, collectionVars
  <2>2. CASE Edit \/ Collect
    BY <2>2 DEF Edit, Collect, sourceVars
  <2>3. CASE OtherLoads \/ OtherCommits
    BY <2>1, <2>3 DEF OtherLoads, OtherCommits
  <2>4. CASE Spawn \/ Finish \/ Send \/ Receive \/ ReplyToCapabilities \/ ReplyToInitialize
             \/ Miss \/ ReplyToQuery \/ LoadStore \/ Reads \/ Prints \/ Hangs \/ Exits
    BY <2>1, <2>4 DEF Spawn, Finish, Send, Receive, ReplyToCapabilities, ReplyToInitialize,
                      Miss, ReplyToQuery, LoadStore, Reads, Prints, Hangs, Exits
  <2>5. CASE Ending \/ Writes
    BY <2>1, <2>5, EndingSteps, WorkerAnswers
  <2>6. CASE UNCHANGED vars
    BY <2>1, <2>6 DEF vars
  <2>7. QED
    BY <2>2, <2>3, <2>4, <2>5, <2>6, SessionSteps DEF Surroundings
<1> DEFINE Seen == worker.loaded => worker.seen = digest \/ worker.raced
           Asking == pc \in {"load", "loadStore", "commit"} \/ Querying => worker.loaded
<1>3. CASE UNCHANGED <<pc, digest, method, worker>>
  BY <1>1, <1>2, <1>3 DEF LoadedIsCurrent, Querying
<1>4. CASE Ending \/ Collect \/ Finish
  <2>1. pc' \notin InSession /\ worker' = NoWorker
    <3>1. CASE Ending
      BY <3>1, EndingSteps DEF EndSession, Drop, InSession
    <3>2. CASE Collect \/ Finish
      BY <1>1, <3>2 DEF Collect, Finish, SessionIsOfAGroup, InSession, workerVars
    <3>3. QED
      BY <1>4, <3>1, <3>2
  <2>2. QED
    BY <1>2, <2>1 DEF LoadedIsCurrent, NoWorker, InSession, Querying
<1>5. CASE Spawn
  BY <1>2, <1>5 DEF LoadedIsCurrent, Spawn, Started, NoWorker, Querying
<1>6. CASE Reads \/ Hangs \/ Exits
  <2>1. /\ worker'.loaded = worker.loaded /\ worker'.seen = worker.seen
        /\ worker'.raced = worker.raced /\ digest' = digest /\ method' = method
        /\ worker.state = "running"
    BY <1>1, <1>6 DEF Reads, Hangs, Exits, Typed, WorkerType, collectionVars, sessionVars
  <2>2. pc \in InSession
    BY <1>1, <2>1 DEF SessionIsOfAGroup, NoWorker
  <2>3. pc' = pc \/ pc' = "await"
    BY <1>6 DEF Reads, Hangs, Exits
  <2>4. QED
    BY <1>1, <1>2, <2>1, <2>2, <2>3 DEF LoadedIsCurrent, Querying
<1>7. CASE Writes
  <2>1. pc = "await" /\ pc' = pc /\ method' = method /\ digest' = digest
    BY <1>7, WorkerAnswers DEF sessionVars, collectionVars
  <2>2. worker'.loaded => worker'.seen = digest \/ worker'.raced
    BY <1>7, WorkerAnswers
  <2>3. Querying => worker'.loaded
    BY <1>1, <1>7, WorkerAnswers DEF Querying, LoadedIsCurrent
  <2>4. QED
    BY <1>2, <2>1, <2>2, <2>3 DEF LoadedIsCurrent, Querying
<1>8. CASE ReplyToInitialize
  <2>1. pc = "reply" /\ method = "initialize" /\ Head(lines).body /\ pc' = "load"
        /\ worker' = worker /\ digest' = digest /\ method' = method
    BY <1>8 DEF ReplyToInitialize, collectionVars, sessionVars
  <2>2. lines # <<>> /\ Head(lines).kind = "result"
    BY <1>1, <2>1 DEF LinesAnswerTheRequest
  <2>3. 1 \in DOMAIN lines /\ Head(lines) = lines[1] /\ ~IsNoise(lines[1])
    BY <2>2, <1>1, LinesRead DEF Typed, IsNoise
  <2>4. worker.loaded
    BY <1>1, <2>1, <2>2, <2>3 DEF LinesAnswerTheRequest
  <2>5. QED
    BY <1>1, <1>2, <2>1, <2>4 DEF LoadedIsCurrent
<1>9. CASE Send \/ Receive \/ ReplyToCapabilities \/ Miss \/ ReplyToQuery \/ LoadStore
  <2>1. worker' = worker /\ digest' = digest
    BY <1>9 DEF Send, Receive, ReplyToCapabilities, Miss, ReplyToQuery, LoadStore, workerVars,
                collectionVars
  <2>2. Asking'
    BY <1>1, <1>9 DEF LoadedIsCurrent, Send, Receive, ReplyToCapabilities, Miss, ReplyToQuery,
                      LoadStore, workerVars, sessionVars, Ask, Querying, InSession
  <2>3. QED
    BY <1>1, <1>2, <2>1, <2>2 DEF LoadedIsCurrent
<1>10. CASE Prints
  BY <1>3, <1>10 DEF Prints, collectionVars, sessionVars
<1>11. QED
  BY <1>3, <1>4, <1>5, <1>6, <1>7, <1>8, <1>9, <1>10, SessionSteps, SurroundingsStayOutside
     DEF vars, collectionVars, sessionVars, workerVars

LEMMA LinesStayAnswers ==
  ASSUME IInv, [Next]_vars
  PROVE  LinesAnswerTheRequest'
<1>1. SessionIsOfAGroup /\ RequestIsAwaited /\ LinesAnswerTheRequest /\ Typed
      /\ lines \in Seq(Output)
  BY DEF IInv, Typed
<1>2. MaxRuns \in Nat
  BY SessionAssumption
<1>3. CASE UNCHANGED <<pc, sessionVars, workerVars>>
  <2>1. UNCHANGED <<pc, next, method, chunk, worker, request, lines>>
    BY <1>3 DEF sessionVars, workerVars
  <2>2. Answers(Chunk)' = Answers(Chunk)
    BY <2>1 DEF Answers, Chunk, Group
  <2>3. QED
    BY <1>1, <2>1, <2>2 DEF LinesAnswerTheRequest, IsNoise
<1>4. ASSUME lines' = <<>>, pc' # "reply"
      PROVE  LinesAnswerTheRequest'
  <2>1. DOMAIN lines' = {} /\ Len(lines') = 0
    BY <1>4
  <2>2. QED
    BY <1>2, <1>4, <2>1 DEF LinesAnswerTheRequest
<1>5. CASE Ending \/ Spawn
  BY <1>4, <1>5, EndingSteps DEF EndSession, Drop, Spawn
<1>6. CASE Collect \/ Finish
  BY <1>1, <1>4, <1>6 DEF Collect, Finish, SessionIsOfAGroup, InSession, workerVars
<1>7. ASSUME \A i \in DOMAIN lines' : IsNoise(lines'[i]), Len(lines') <= MaxRuns, pc' # "reply"
      PROVE  LinesAnswerTheRequest'
  BY <1>7 DEF LinesAnswerTheRequest, IsNoise
<1>8. CASE Send \/ Miss \/ LoadStore
  <2>1. lines' = lines /\ pc \notin {"await", "reply"} /\ pc' # "reply"
    BY <1>8 DEF Send, Miss, LoadStore, workerVars
  <2>2. \A i \in DOMAIN lines : IsNoise(lines[i])
    BY <1>1, <2>1 DEF LinesAnswerTheRequest
  <2>3. Len(lines) <= MaxRuns
    BY <1>1, <2>2 DEF LinesAnswerTheRequest
  <2>4. QED
    BY <1>7, <2>1, <2>2, <2>3
<1>9. CASE ReplyToCapabilities \/ ReplyToInitialize \/ ReplyToQuery
  <2>1. pc = "reply" /\ lines' = Tail(lines) /\ pc' # "reply"
    BY <1>9 DEF ReplyToCapabilities, ReplyToInitialize, ReplyToQuery, Ask
  <2>2. lines # <<>> /\ Head(lines).kind = "result"
    BY <1>1, <2>1 DEF LinesAnswerTheRequest
  <2>3. 1 \in DOMAIN lines /\ ~IsNoise(lines[1])
    BY <1>1, <2>2, LinesRead DEF IsNoise
  <2>4. ASSUME NEW i \in DOMAIN lines'
        PROVE  IsNoise(lines'[i])
    <3>1. i + 1 \in DOMAIN lines /\ lines'[i] = lines[i + 1] /\ i + 1 # 1
      BY <1>1, <2>1, <2>2, LinesRead
    <3>2. QED
      BY <1>1, <2>3, <3>1 DEF LinesAnswerTheRequest
  <2>5. Len(lines') <= MaxRuns
    <3>1. Len(lines') = Len(lines) - 1 /\ Len(lines) <= MaxRuns + 1
      BY <1>1, <2>1, <2>2, LinesRead DEF Typed, TypeOK
    <3>2. QED
      BY <1>1, <1>2, <3>1
  <2>6. QED
    BY <1>7, <2>1, <2>4, <2>5
<1>10. CASE Receive
  <2>1. pc = "await" /\ pc' = "reply" /\ lines # <<>> /\ Head(lines).kind = "result"
        /\ UNCHANGED <<workerVars, sessionVars>>
    BY <1>10 DEF Receive, Accepts
  <2>2. QED
    <3>1. UNCHANGED <<next, method, chunk, worker, request, lines>>
      BY <2>1 DEF sessionVars, workerVars
    <3>2. Answers(Chunk)' = Answers(Chunk)
      BY <3>1 DEF Answers, Chunk, Group
    <3>3. QED
      BY <1>1, <2>1, <3>1, <3>2 DEF LinesAnswerTheRequest, IsNoise
<1>11. CASE Reads \/ Hangs \/ Exits
  <2>1. /\ worker'.loaded = worker.loaded /\ worker'.seen = worker.seen
        /\ worker'.raced = worker.raced /\ UNCHANGED <<request, lines, sessionVars>>
    BY <1>1, <1>11 DEF Reads, Hangs, Exits, Typed, WorkerType
  <2>2. pc' = pc \/ pc = "write"
    BY <1>11 DEF Reads, Hangs, Exits
  <2>3. pc' = "reply" => pc = "reply"
    BY <1>11 DEF Reads, Hangs, Exits
  <2>4. QED
    BY <1>1, <2>1, <2>2, <2>3
       DEF LinesAnswerTheRequest, sessionVars, Chunk, Group, Answers, IsNoise
<1>12. CASE Prints
  <2> DEFINE noise == [kind |-> "noise", id |-> 0, body |-> FALSE, results |-> <<>>]
  <2>1. lines' = Append(lines, noise) /\ Len(lines) < MaxRuns
        /\ UNCHANGED <<pc, sessionVars, worker, request>>
    BY <1>12 DEF Prints, Line
  <2>2. noise \in Output /\ IsNoise(noise)
    BY DEF Output, IsNoise
  <2> HIDE DEF noise
  <2>3. /\ lines' \in Seq(Output) /\ Len(lines') = Len(lines) + 1
        /\ \A i \in DOMAIN lines' : \/ i \in DOMAIN lines /\ lines'[i] = lines[i]
                                    \/ lines'[i] = noise
    BY <1>1, <2>1, <2>2, LinesWritten
  <2>4. \A i \in DOMAIN lines' : ~IsNoise(lines'[i]) => i \in DOMAIN lines /\ lines'[i] = lines[i]
    BY <2>2, <2>3
  <2>5. Len(lines') <= MaxRuns
    BY <1>1, <1>2, <2>1, <2>3
  <2>6. pc' = "reply" => lines' # <<>> /\ Head(lines').kind = "result"
    <3>1. SUFFICES ASSUME pc' = "reply" PROVE lines' # <<>> /\ Head(lines').kind = "result"
      OBVIOUS
    <3>2. lines # <<>> /\ Head(lines).kind = "result"
      BY <3>1, <1>1, <2>1 DEF LinesAnswerTheRequest
    <3>3. Head(lines') = Head(lines) /\ lines' # <<>>
      BY <3>2, <1>1, <2>1
    <3>4. QED
      BY <3>2, <3>3
  <2>7. Chunk' = Chunk
    BY <2>1 DEF sessionVars, Chunk, Group
  <2>8. QED
    BY <1>1, <2>1, <2>4, <2>5, <2>6, <2>7 DEF LinesAnswerTheRequest, sessionVars, Answers, IsNoise
<1>13. CASE Writes
  <2>1. /\ pc = "await" /\ request # NoRequest /\ request' = NoRequest
        /\ UNCHANGED <<pc, sessionVars>>
    BY <1>13, WorkerAnswers
  <2>2. PICK line : AnswerLine(line) /\ lines' = Append(lines, line)
    BY <1>13, WorkerAnswers
  <2>3. \A i \in DOMAIN lines : IsNoise(lines[i])
    BY <1>1, <2>1 DEF LinesAnswerTheRequest
  <2>4. Len(lines) <= MaxRuns
    BY <1>1, <2>3 DEF LinesAnswerTheRequest
  <2>5. /\ lines' \in Seq(Output) /\ Len(lines') = Len(lines) + 1
        /\ \A i \in DOMAIN lines' : \/ i \in DOMAIN lines /\ lines'[i] = lines[i]
                                    \/ i = Len(lines) + 1 /\ lines'[i] = line
    BY <1>1, <2>2, LinesWritten DEF AnswerLine
  <2>6. ASSUME NEW i \in DOMAIN lines', ~IsNoise(lines'[i])
        PROVE  i = Len(lines) + 1 /\ lines'[i] = line
    BY <2>3, <2>5, <2>6
  <2>7. line.kind = "result" /\ method = "query" => line.results = Answers(Chunk)'
    BY <1>13, <2>1, <2>2, WorkerAnswers DEF AnswerLine, Answers, sessionVars, Chunk, Group
  <2>8. line.kind = "result" /\ method = "initialize" /\ line.body => worker'.loaded
    BY <2>2 DEF AnswerLine
  <2>9. (\A i \in DOMAIN lines' : IsNoise(lines'[i])) => Len(lines') <= MaxRuns
    <3>1. SUFFICES ASSUME \A i \in DOMAIN lines' : IsNoise(lines'[i])
                   PROVE  Len(lines') <= MaxRuns
      OBVIOUS
    <3>2. Len(lines') \in DOMAIN lines' /\ lines'[Len(lines')] = line
      BY <1>1, <2>2, <2>5
    <3>3. QED
      BY <2>2, <3>1, <3>2 DEF AnswerLine
  <2>10. QED
    BY <2>1, <2>6, <2>7, <2>8, <2>9 DEF LinesAnswerTheRequest, sessionVars
<1>14. QED
  BY <1>3, <1>5, <1>6, <1>8, <1>9, <1>10, <1>11, <1>12, <1>13, SessionSteps,
     SurroundingsStayOutside DEF vars

LEMMA BatchesStayAnswered ==
  ASSUME IInv, [Next]_vars
  PROVE  BatchesAreAnswered'
<1>1. BatchesAreAnswered /\ SessionIsOfAGroup /\ TypeOK /\ Typed
  BY DEF IInv, Typed
<1>2. ~Collect => digest' = digest /\ \A k \in Key : Answered(k) => Answered(k)'
  BY EvidenceGrows
<1>3. pc \in InSession =>
        \A i \in 1..Len(Keys[Group]) :
          Keys[Group][i] \in Key /\ Keys[Group][i] \in ToSet(Keys[Group])
  BY <1>1, GroupOfSession, OwnedAreKeys DEF SessionIsOfAGroup, ToSet
<1>4. pc \in InSession => ToSet(Keys[Group]) \subseteq Key
  BY <1>1, GroupOfSession, OwnedAreKeys DEF SessionIsOfAGroup
<1>5. ASSUME pc \in InSession, ~Collect, next' = next, method' = method, chunk' = chunk,
             pc' \in {"loadStore", "commit"} => pc \in {"loadStore", "commit"}
      PROVE  BatchesAreAnswered'
  <2>1. Group' = Group /\ (Querying' => Querying)
    BY <1>5 DEF Group, Querying
  <2>2. \A k \in Key : Answered(k) => evidence'[k].state # "unresolved"
    BY <1>2, <1>5 DEF Answered
  <2>3. Querying' => \A i \in 1..Len(Keys[Group']) :
                       i <= chunk' * Batch => evidence'[Keys[Group'][i]].state # "unresolved"
    BY <1>1, <1>3, <1>5, <2>1, <2>2 DEF BatchesAreAnswered
  <2>4. pc' \in {"loadStore", "commit"} =>
          \A k \in ToSet(Keys[Group']) : evidence'[k].state # "unresolved"
    BY <1>1, <1>4, <1>5, <2>1, <2>2 DEF BatchesAreAnswered
  <2>5. QED
    BY <2>3, <2>4 DEF BatchesAreAnswered, Answered
<1>6. ASSUME pc' \notin InSession
      PROVE  BatchesAreAnswered'
  BY <1>6 DEF BatchesAreAnswered, InSession, Querying
<1>7. ASSUME method' # "query", pc' \notin {"loadStore", "commit"}
      PROVE  BatchesAreAnswered'
  BY <1>7 DEF BatchesAreAnswered, Querying
<1>8. CASE UNCHANGED <<pc, sessionVars, evidence>>
  <2>1. UNCHANGED <<pc, next, method, chunk, evidence>>
    BY <1>8 DEF sessionVars
  <2>2. QED
    BY <1>1, <2>1 DEF BatchesAreAnswered, Querying, Group, Answered
<1>9. CASE Ending \/ Collect \/ Finish
  BY <1>6, <1>9, EndingSteps DEF EndSession, Collect, Finish, InSession
<1>10. CASE Spawn \/ ReplyToCapabilities \/ ReplyToInitialize
  BY <1>7, <1>10 DEF Spawn, ReplyToCapabilities, ReplyToInitialize, Ask, sessionVars
<1>11. CASE Send \/ Receive \/ LoadStore \/ Reads
  <2>1. pc \in InSession /\ next' = next /\ method' = method /\ chunk' = chunk
    BY <1>11, <1>1 DEF Send, Receive, LoadStore, Reads, sessionVars, InSession, SessionIsOfAGroup
  <2>2. pc' \in {"loadStore", "commit"} => pc \in {"loadStore", "commit"}
    BY <1>11 DEF Send, Receive, LoadStore, Reads
  <2>3. ~Collect
    BY <2>1 DEF Collect, InSession
  <2>4. QED
    BY <1>5, <2>1, <2>2, <2>3
<1>12. CASE Writes \/ Prints \/ Hangs \/ Exits
  BY <1>8, <1>12 DEF Writes, Capabilities, Initialize, Query, Rejects, Prints, Hangs, Exits
<1>13. CASE Miss
  <2>1. pc' = "send" /\ chunk' = 0 /\ pc = "load" /\ next' = next
    BY <1>13 DEF Miss
  <2>2. Keys[Group] \in Seq(Owned) /\ Group' = Group
    BY <1>1, <2>1, GroupOfSession DEF SessionIsOfAGroup, InSession, Group
  <2>3. \A i \in 1..Len(Keys[Group']) : ~(i <= chunk' * Batch)
    BY <2>1, <2>2, SessionAssumption
  <2>4. QED
    BY <2>1, <2>3 DEF BatchesAreAnswered
<1>14. CASE ReplyToQuery
  <2> DEFINE replies == Head(lines).results
             n == Len(replies)
             last == Least((chunk + 1) * Batch, Len(Keys[Group]))
  <2>1. /\ pc = "reply" /\ method = "query" /\ next' = next /\ method' = method
        /\ evidence' = Take(replies)
        /\ \/ (chunk + 1) * Batch < Len(Keys[Group]) /\ chunk' = chunk + 1 /\ pc' = "send"
           \/ ~((chunk + 1) * Batch < Len(Keys[Group])) /\ pc' = "loadStore" /\ chunk' = chunk
    BY <1>14 DEF ReplyToQuery
  <2>2. next <= Len(Groups) /\ replies \in Seq(Fact) /\ Len(replies) = Len(Chunk)
        /\ Chunk \in Seq(Owned)
    BY <2>1, QueryReplies
  <2>3. /\ Keys[Group] \in Seq(Owned)
        /\ DOMAIN Chunk = 1..(last - chunk * Batch)
        /\ \A i \in DOMAIN Chunk : Chunk[i] = Keys[Group][chunk * Batch + i]
    BY <1>1, <2>1, <2>2, GroupOfSession, ChunkOfSession
  <2>4. SubSeq(replies, 1, n) = replies /\ n \in 0..Len(replies)
    BY <2>2
  <2>5. \A i \in 1..n : evidence'[Chunk[i]].state # "unresolved"
    BY <2>1, <2>4, TakenReplies
  <2>6. \A i \in DOMAIN Chunk : evidence'[Chunk[i]].state # "unresolved"
    BY <2>2, <2>5
  <2>7. ASSUME NEW i \in 1..Len(Keys[Group]), i <= (chunk + 1) * Batch
        PROVE  evidence'[Keys[Group][i]].state # "unresolved"
    <3>1. chunk * Batch \in Nat /\ (chunk + 1) * Batch \in Nat
      BY <1>1, SessionAssumption DEF TypeOK
    <3>2. CASE i <= chunk * Batch
      <4>1. Answered(Keys[Group][i]) /\ Keys[Group][i] \in Key
        BY <3>2, <2>1, <1>1, <1>3 DEF BatchesAreAnswered, Querying, InSession
      <4>2. QED
        BY <4>1, <1>2, <2>1 DEF Answered, Collect
    <3>3. CASE i > chunk * Batch
      <4>1. i <= last /\ last \in Nat
        BY <2>3, <2>7, <3>1 DEF Least
      <4> HIDE DEF last
      <4>2. i - chunk * Batch \in DOMAIN Chunk
        BY <2>3, <3>1, <3>3, <4>1
      <4>3. chunk * Batch + (i - chunk * Batch) = i
        BY <3>1
      <4>4. Chunk[i - chunk * Batch] = Keys[Group][i]
        BY <2>3, <4>2, <4>3
      <4>5. QED
        BY <2>6, <4>2, <4>4
    <3>4. QED
      BY <3>1, <3>2, <3>3
  <2>8. Group' = Group
    BY <2>1 DEF Group
  <2>9. CASE chunk' = chunk + 1 /\ pc' = "send"
    <3>1. \A i \in 1..Len(Keys[Group']) :
            i <= chunk' * Batch => evidence'[Keys[Group'][i]].state # "unresolved"
      BY <2>7, <2>8, <2>9
    <3>2. QED
      BY <2>9, <3>1 DEF BatchesAreAnswered, Answered
  <2>10. CASE ~((chunk + 1) * Batch < Len(Keys[Group])) /\ pc' = "loadStore" /\ chunk' = chunk
    <3>1. (chunk + 1) * Batch \in Nat /\ Len(Keys[Group]) \in Nat
      BY <1>1, <2>3, SessionAssumption DEF TypeOK
    <3>2. \A i \in 1..Len(Keys[Group]) : evidence'[Keys[Group][i]].state # "unresolved"
      BY <2>7, <2>10, <3>1
    <3>3. \A k \in ToSet(Keys[Group]) : \E i \in 1..Len(Keys[Group]) : k = Keys[Group][i]
      BY <2>3 DEF ToSet
    <3>4. QED
      BY <2>8, <2>10, <3>2, <3>3 DEF BatchesAreAnswered, Answered
  <2>11. QED
    BY <2>1, <2>9, <2>10
<1>15. QED
  BY <1>8, <1>9, <1>10, <1>11, <1>12, <1>13, <1>14, SessionSteps, SurroundingsStayOutside DEF vars

LEMMA GroupsStayHandled ==
  ASSUME IInv, [Next]_vars
  PROVE  GroupsAreHandled'
<1> DEFINE Handled(j) == \/ Groups[j] \in failures
                         \/ \A k \in ToSet(Keys[Groups[j]]) : Answered(k)
           HandledNext(j) == \/ Groups[j] \in failures'
                             \/ \A k \in ToSet(Keys[Groups[j]]) : Answered(k)'
<1>1. GroupsAreHandled /\ SessionIsOfAGroup /\ TypeOK
  BY DEF IInv, Typed
<1>2. ~Collect => \A k \in Key : Answered(k) => Answered(k)'
  BY EvidenceGrows
<1>3. ASSUME ~Collect, failures \subseteq failures', NEW j \in 1..Len(Groups), Handled(j)
      PROVE  HandledNext(j)
  BY <1>2, <1>3, OwnersOfMembers, OwnedAreKeys
<1>4. next \in 1..(Len(Groups) + 1) /\ Len(Groups) \in Nat
  BY <1>1, SessionAssumption DEF TypeOK
<1>5. ASSUME ~Collect, failures \subseteq failures', "script" \in failures' => "script" \in failures,
             runs' = runs, next' = next, pc' = "idle" => pc = "idle" \/ next > Len(Groups)
      PROVE  GroupsAreHandled'
  <2>1. SUFFICES ASSUME runs > 0, "script" \notin failures
                 PROVE  /\ Unowned # {} => "unconfigured" \in failures'
                        /\ \A j \in 1..(next - 1) : HandledNext(j)
                        /\ pc' = "idle" => next > Len(Groups)
    BY <1>5 DEF GroupsAreHandled, Answered
  <2>2. /\ Unowned # {} => "unconfigured" \in failures
        /\ \A j \in 1..(next - 1) : Handled(j)
        /\ pc = "idle" => next > Len(Groups)
    BY <1>1, <2>1 DEF GroupsAreHandled
  <2>3. \A j \in 1..(next - 1) : j \in 1..Len(Groups)
    BY <1>4
  <2> HIDE DEF Handled, HandledNext
  <2>4. QED
    BY <1>3, <1>5, <2>2, <2>3
<1>6. CASE UNCHANGED <<pc, runs, next, evidence, failures>>
  BY <1>1, <1>6 DEF GroupsAreHandled, Answered
<1>7. CASE Collect
  <2>1. /\ next' = 1
        /\ \/ pc' = "group" /\ failures' = Start
           \/ failures' = {"script"}
    BY <1>7 DEF Collect
  <2>2. QED
    BY <2>1 DEF GroupsAreHandled, Start
<1>8. CASE Ending
  <2>1. /\ pc # "idle" /\ next <= Len(Groups) /\ next' = next + 1 /\ pc' = "group" /\ runs' = runs
    BY <1>8, EndingSteps DEF EndSession
  <2>2. ~Collect
    BY <2>1 DEF Collect
  <2>3. failures' = failures \/ failures' = failures \cup {Group}
    BY <1>8, FailingSteps DEF Ending, Fail, LoadCached, UnsafeSpans, Commit
  <2>4. HandledNext(next)
    <3>1. CASE Failing \/ UnsafeSpans
      <4>1. failures' = failures \cup {Group}
        BY <3>1, FailingSteps DEF Fail, UnsafeSpans
      <4>2. QED
        BY <4>1 DEF Group
    <3>2. CASE LoadCached
      <4>1. ToSet(Keys[Group]) \subseteq Key
        BY <1>1, <2>1, GroupOfSession, OwnedAreKeys
      <4>2. \A k \in ToSet(Keys[Group]) : evidence'[k].state # "unresolved"
        BY <3>2, <4>1, CachedFacts
      <4>3. QED
        BY <4>2 DEF Group, Answered
    <3>3. CASE Commit
      <4>1. \A k \in ToSet(Keys[Group]) : Answered(k)
        BY <3>3 DEF Commit, IInv, BatchesAreAnswered
      <4>2. evidence' = evidence
        BY <3>3 DEF Commit
      <4>3. QED
        BY <4>1, <4>2 DEF Group, Answered
    <3>4. QED
      BY <1>8, <3>1, <3>2, <3>3 DEF Ending
  <2>6. SUFFICES ASSUME runs > 0, "script" \notin failures'
                 PROVE  /\ Unowned # {} => "unconfigured" \in failures'
                        /\ \A j \in 1..next : HandledNext(j)
    <3>1. next' - 1 = next
      BY <1>4, <2>1
    <3>2. QED
      BY <2>1, <2>6, <3>1 DEF GroupsAreHandled, Answered
  <2>7. /\ Unowned # {} => "unconfigured" \in failures
        /\ \A j \in 1..(next - 1) : Handled(j)
    BY <1>1, <2>3, <2>6 DEF GroupsAreHandled
  <2>8. \A j \in 1..next : j = next \/ (j \in 1..(next - 1) /\ j \in 1..Len(Groups))
    BY <1>4, <2>1
  <2> HIDE DEF Handled, HandledNext
  <2>9. QED
    BY <1>3, <2>2, <2>3, <2>4, <2>7, <2>8
<1>9. CASE Spawn \/ Finish \/ Send \/ Receive \/ ReplyToCapabilities \/ ReplyToInitialize \/ Miss
           \/ ReplyToQuery \/ LoadStore
  <2>1. failures' = failures /\ runs' = runs /\ next' = next
    BY <1>9 DEF Spawn, Finish, Send, Receive, ReplyToCapabilities, ReplyToInitialize, Miss,
                ReplyToQuery, LoadStore, collectionVars, sessionVars, Ask
  <2>2. pc # "idle" /\ (pc' = "idle" => next > Len(Groups))
    BY <1>9 DEF Spawn, Finish, Send, Receive, ReplyToCapabilities, ReplyToInitialize, Miss,
                ReplyToQuery, LoadStore, Ask
  <2>3. ~Collect
    BY <2>2 DEF Collect
  <2>4. QED
    BY <1>5, <2>1, <2>2, <2>3
<1>10. CASE Reads
  <2>1. failures' = failures /\ runs' = runs /\ next' = next /\ (pc' = "idle" => pc = "idle")
        /\ evidence' = evidence
    BY <1>10 DEF Reads, collectionVars, sessionVars
  <2>2. QED
    BY <1>1, <2>1 DEF GroupsAreHandled, Answered
<1>11. CASE Writes \/ Prints \/ Hangs \/ Exits
  BY <1>6, <1>11 DEF Writes, Capabilities, Initialize, Query, Rejects, Prints, Hangs, Exits,
                     collectionVars, sessionVars
<1>12. QED
  BY <1>6, <1>7, <1>8, <1>9, <1>10, <1>11, SessionSteps, SurroundingsStayOutside
     DEF vars, collectionVars, sessionVars

-----------------------------------------------------------------------------
(* A deep session never leaves the states of IInv, whatever its worker and *)
(* the other processes do.                                                 *)
THEOREM SessionInvariant == Spec => []IInv
<1>1. IInv /\ [Next]_vars => IInv'
  BY TypesStay, SessionStaysOfAGroup, RequestStaysAwaited, LinesStayAnswers, LoadedStaysCurrent,
     StoresStaySound, EvidenceGrows, BatchesStayAnswered, GroupsStayHandled DEF IInv
<1>2. QED
  BY <1>1, InitEstablishes, PTL DEF Spec

(* Every variable of a deep session keeps its type.                        *)
THEOREM SessionTypesCorrect == Spec => []TypeOK
<1>1. IInv => TypeOK
  BY DEF IInv, Typed
<1>2. QED
  BY <1>1, SessionInvariant, PTL

(* What collect_deep_member_evidence returns, and what the cache keeps of  *)
(* it, is about the member asked for and the sources of the digest, unless *)
(* these were edited while the worker started.                             *)
THEOREM SessionEvidenceIsSound == Spec => []EvidenceIsSound
<1>1. IInv => EvidenceIsSound
  <2>1. SUFFICES ASSUME IInv PROVE EvidenceIsSound
    OBVIOUS
  <2>2. EvidenceIsCurrent /\ StoresAreSound
    BY <2>1 DEF IInv
  <2>3. QED
    BY <2>2 DEF EvidenceIsSound, EvidenceIsCurrent, StoresAreSound, IsSound
<1>2. QED
  BY <1>1, SessionInvariant, PTL

(* The deep cache never holds a member no worker has answered about.       *)
THEOREM OnlyAnswersAreStored == Spec => []OnlyAnswersAreKept
<1>1. IInv => OnlyAnswersAreKept
  BY DEF IInv, StoresAreSound, OnlyAnswersAreKept
<1>2. QED
  BY <1>1, SessionInvariant, PTL

(* When a collection has ended, a TypeScript member without an answer has  *)
(* a failure that says so.                                                 *)
THEOREM SessionGapsAreReported == Spec => []GapsAreReported
<1>1. IInv => GapsAreReported
  <2>1. SUFFICES ASSUME IInv, pc = "idle", runs > 0, NEW k \in Key \ Foreign,
                        evidence[k].state = "unresolved", "script" \notin failures
                 PROVE  \/ k \in Unowned /\ "unconfigured" \in failures
                        \/ \E g \in failures \cap GroupSet : k \in ToSet(Keys[g])
    BY DEF GapsAreReported
  <2>2. /\ Unowned # {} => "unconfigured" \in failures
        /\ \A j \in 1..(next - 1) :
             Groups[j] \in failures \/ \A m \in ToSet(Keys[Groups[j]]) : Answered(m)
        /\ next > Len(Groups) /\ next \in 1..(Len(Groups) + 1)
    BY <2>1 DEF IInv, GroupsAreHandled, Typed, TypeOK
  <2>3. CASE k \in Unowned
    BY <2>2, <2>3
  <2>4. CASE k \in Owned
    <3>1. PICK g \in GroupSet : k \in ToSet(Keys[g])
      BY <2>4 DEF Owned
    <3>2. PICK j \in 1..Len(Groups) : Groups[j] = g
      BY SessionAssumption DEF GroupSet, ToSet
    <3>3. j \in 1..(next - 1)
      BY <2>2, SessionAssumption
    <3>4. Groups[j] \in failures
      BY <2>1, <2>2, <3>1, <3>2, <3>3 DEF Answered
    <3>5. QED
      BY <3>1, <3>2, <3>4
  <2>5. QED
    BY <2>1, <2>3, <2>4 DEF Key
<1>2. QED
  BY <1>1, SessionInvariant, PTL

(* However a session ended, its worker is gone before the next one starts. *)
THEOREM WorkersEndWithTheirSession == Spec => []NoWorkerOutlivesItsSession
<1>1. IInv => NoWorkerOutlivesItsSession
  BY DEF IInv, SessionIsOfAGroup, InSession, NoWorkerOutlivesItsSession, NoWorker
<1>2. QED
  BY <1>1, SessionInvariant, PTL

=============================================================================
