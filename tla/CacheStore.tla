----------------------------- MODULE CacheStore -----------------------------
(***************************************************************************)
(* The cache on disk, cache/store.rs, as several processes use it at once: *)
(* generations/ holds immutable files, active/ a marker per generation,    *)
(* and nothing locks either.  A process runs load, then, when a file of    *)
(* the project was not found in the snapshot, commit, which ends in prune. *)
(*                                                                         *)
(* A generation is its place in the order of names, which begin with the   *)
(* time they were taken at; the marker of a generation bears its name.     *)
(* Listing a directory is one step, and so is each opening, creation and   *)
(* removal of a file.  A temporary file is seen by nobody but its writer,  *)
(* so that atomic_create is the one step of its rename.                    *)
(***************************************************************************)
EXTENDS Integers, FiniteSets, FiniteSetsExt

CONSTANTS Process,
          Version,                 \* schema and tool versions in use
          MaxName,                 \* bound on the commits
          Setups,                  \* the processes' versions, and the lengths
                                   \* of the files they will write
          RetainedGenerations,     \* retained_generations
          MaxTotalBytes,           \* max_total_bytes
          MaxFilesToScan,          \* max_generation_files_to_scan
          MaxFaults                \* bound on what others do to the files

Name == 1..MaxName

(* CacheLimits::validate, and a generation fits in the cache.              *)
ASSUME LimitAssumption ==
  /\ MaxName \in Nat /\ MaxFaults \in Nat
  /\ RetainedGenerations \in Nat \ {0}
  /\ MaxFilesToScan \in Nat \ {0}
  /\ MaxTotalBytes \in Nat
  /\ Setups \subseteq [version : [Process -> Version], size : [Name -> 1..MaxTotalBytes]]

Unwritten == "unwritten"   \* the content of a file that never was
Damaged == "damaged"       \* one that read_generation refuses

ASSUME VersionAssumption == {Unwritten, Damaged} \cap Version = {}

VARIABLES files,      \* generations/
          contents,   \* what was last written under each name
          size,       \* and the length of it
          markers,    \* active/
          made,       \* do the two directories exist?
          clock,      \* the time, as the last name it would follow
          faults      \* what others have done so far

VARIABLES pc,         \* where each process is
          version,    \* PersistentCache::schema
          marked,     \* candidates from markers not opened yet
          listed,     \* what is left of the last listing
          answer,     \* the generation the load ended with, at most one
          own,        \* the generation being committed
          retained,   \* the counters of prune
          total

VARIABLES steady,     \* history: usable since the load of a process began
          committed,  \* history: generations whose commit has returned
          contested,  \* history: has the newest met another commit?
          spoiled     \* history: has it been damaged or removed by others?

diskVars == <<files, contents, markers, made>>
loadVars == <<version, marked, answer>>
commitVars == <<own, retained, total>>
historyVars == <<steady, committed, contested, spoiled>>
vars == <<size, diskVars, clock, faults, pc, loadVars, listed, commitVars, historyVars>>

Loading == {"markers", "read"}
Committing == {"create", "mark", "list", "prune", "unmark"}

Init ==
  /\ files = {} /\ markers = {} /\ made = FALSE
  /\ contents = [g \in Name |-> Unwritten]
  /\ clock = 0 /\ faults = 0
  /\ pc = [p \in Process |-> "idle"]
  /\ \E setup \in Setups : version = setup.version /\ size = setup.size
  /\ marked = [p \in Process |-> {}]
  /\ listed = [p \in Process |-> {}]
  /\ answer = [p \in Process |-> {}]
  /\ own = [p \in Process |-> 0]
  /\ retained = [p \in Process |-> 0]
  /\ total = [p \in Process |-> 0]
  /\ steady = [p \in Process |-> {}]
  /\ committed = {} /\ contested = FALSE /\ spoiled = FALSE

At(p, stage) == pc[p] = stage
Goto(p, stage) == pc' = [pc EXCEPT ![p] = stage]

(* Variant: the envelope's schema is not compared.                         *)
UsableByAnyone(g, v) == g \in files /\ contents[g] # Damaged

(* read_generation: there, whole, and of the reader's schema.              *)
Usable(g, v) == g \in files /\ contents[g] = v

NewestCreated == Max({0} \cup {g \in Name : contents[g] # Unwritten})

(* No process will find any of S again.                                    *)
Lose(S) == steady' = [p \in Process |-> steady[p] \ S]
-----------------------------------------------------------------------------
(* load                                                                    *)

BeginLoad(p) ==
  /\ At(p, "idle")
  /\ steady' = [steady EXCEPT ![p] = {g \in files : Usable(g, version[p])}]
  /\ listed' = [listed EXCEPT ![p] = files]
  /\ Goto(p, "markers")
  /\ UNCHANGED <<diskVars, clock, faults, loadVars, commitVars,
                 committed, contested, spoiled>>

(* The n newest of S, all of S when they are fewer.                        *)
Newest(S, n) == {g \in S : Cardinality({h \in S : h > g}) < n}

(* Variant: only what a marker points to is a candidate.                   *)
ListMarkersOnly(p) ==
  /\ At(p, "markers")
  /\ marked' = [marked EXCEPT ![p] = markers]
  /\ listed' = [listed EXCEPT ![p] = {}]
  /\ Goto(p, "read")
  /\ UNCHANGED <<diskVars, clock, faults, version, answer, commitVars, historyVars>>

(* Candidates are the targets of the markers and then the generations      *)
(* without one, each from the newest on, truncated to the limit.           *)
ListMarkers(p) ==
  /\ At(p, "markers")
  /\ marked' = [marked EXCEPT ![p] = Newest(markers, MaxFilesToScan)]
  /\ listed' = [listed EXCEPT ![p] =
                  Newest(@ \ markers, MaxFilesToScan - Cardinality(markers))]
  /\ Goto(p, "read")
  /\ UNCHANGED <<diskVars, clock, faults, version, answer, commitVars, historyVars>>

ReadCandidate(p) ==
  /\ At(p, "read")
  /\ marked[p] \cup listed[p] # {}
  /\ LET g == IF marked[p] # {} THEN Max(marked[p]) ELSE Max(listed[p])
     IN  IF Usable(g, version[p])
         THEN /\ answer' = [answer EXCEPT ![p] = {g}]
              /\ marked' = [marked EXCEPT ![p] = {}]
              /\ listed' = [listed EXCEPT ![p] = {}]
              /\ steady' = [steady EXCEPT ![p] = {}]
              /\ Goto(p, "loaded")
         ELSE /\ marked' = [marked EXCEPT ![p] = @ \ {g}]
              /\ listed' = [listed EXCEPT ![p] = @ \ {g}]
              /\ UNCHANGED <<answer, steady, pc>>
  /\ UNCHANGED <<diskVars, clock, faults, version, commitVars,
                 committed, contested, spoiled>>

(* Empty, when there was no candidate, or Reset.                           *)
LoadNothing(p) ==
  /\ At(p, "read")
  /\ marked[p] \cup listed[p] = {}
  /\ Goto(p, "loaded")
  /\ UNCHANGED <<diskVars, clock, faults, loadVars, listed, commitVars, historyVars>>

(* What a process has in memory goes with it.                              *)
EndRun(p) ==
  /\ marked' = [marked EXCEPT ![p] = {}]
  /\ listed' = [listed EXCEPT ![p] = {}]
  /\ answer' = [answer EXCEPT ![p] = {}]
  /\ own' = [own EXCEPT ![p] = 0]
  /\ retained' = [retained EXCEPT ![p] = 0]
  /\ total' = [total EXCEPT ![p] = 0]
  /\ steady' = [steady EXCEPT ![p] = {}]
  /\ Goto(p, "idle")
  /\ UNCHANGED version

(* Every file was a hit: generation_written is false.                      *)
FinishWithoutCommit(p) ==
  /\ At(p, "loaded")
  /\ EndRun(p)
  /\ UNCHANGED <<diskVars, clock, faults, committed, contested, spoiled>>

-----------------------------------------------------------------------------
(* commit and prune                                                        *)

(* next_generation_name: names grow with the clock, over all processes,    *)
(* and none is taken twice, as each also has the process and a counter.    *)
NameGeneration(p) ==
  /\ At(p, "loaded")
  /\ \E g \in {h \in Name : h > clock /\ contents[h] = Unwritten /\ \A q \in Process : own[q] # h} :
        clock' = g /\ own' = [own EXCEPT ![p] = g]
  /\ contested' = (contested \/ \E q \in Process : own[q] = NewestCreated)
  /\ answer' = [answer EXCEPT ![p] = {}]
  /\ steady' = [steady EXCEPT ![p] = {}]
  /\ Goto(p, "create")
  /\ UNCHANGED <<diskVars, faults, version, marked, listed, retained, total,
                 committed, spoiled>>

(* create_directories, and the generation's file.                          *)
CreateGeneration(p) ==
  /\ At(p, "create")
  /\ made' = TRUE
  /\ files' = files \cup {own[p]}
  /\ contents' = [contents EXCEPT ![own[p]] = version[p]]
  /\ IF own[p] > NewestCreated
     THEN /\ contested' = (\E q \in Process \ {p} : pc[q] \in Committing)
          /\ spoiled' = FALSE
     ELSE contested' = TRUE /\ UNCHANGED spoiled
  /\ Goto(p, "mark")
  /\ UNCHANGED <<markers, clock, faults, loadVars, listed, commitVars,
                 steady, committed>>

(* The directory may be gone again, which ends the commit (Stop).          *)
CreateMarker(p) ==
  /\ At(p, "mark") /\ made
  /\ markers' = markers \cup {own[p]}
  /\ Goto(p, "list")
  /\ UNCHANGED <<files, contents, made, clock, faults, loadVars, listed, commitVars,
                 historyVars>>

(* A byte is a generation and a place in its file.                         *)
Bytes(S) == Cardinality({byte \in S \X (1..MaxTotalBytes) : byte[2] <= size[byte[1]]})

ListGenerations(p) ==
  /\ At(p, "list")
  /\ listed' = [listed EXCEPT ![p] = files]
  /\ retained' = [retained EXCEPT ![p] = Cardinality(files)]
  /\ total' = [total EXCEPT ![p] = Bytes(files)]
  /\ Goto(p, "prune")
  /\ UNCHANGED <<diskVars, clock, faults, loadVars, own, historyVars>>

(* The listing is newest first and gone through backwards.                 *)
NextToPrune(p) == Min(listed[p])

(* Variant: one generation too many is kept.                               *)
ShouldRemoveLate(p) ==
  retained[p] > RetainedGenerations + 1 \/ total[p] > MaxTotalBytes

ShouldRemove(p) ==
  retained[p] > RetainedGenerations \/ total[p] > MaxTotalBytes

(* A file that another process has removed counts as one that could not be *)
(* pruned: it is still counted as retained.                                *)
Prune(p) ==
  /\ At(p, "prune") /\ listed[p] # {}
  /\ LET g == NextToPrune(p)
     IN  /\ listed' = [listed EXCEPT ![p] = @ \ {g}]
         /\ IF g # own[p] /\ ShouldRemove(p) /\ g \in files
            THEN /\ files' = files \ {g}
                 /\ retained' = [retained EXCEPT ![p] = @ - 1]
                 /\ total' = [total EXCEPT ![p] = @ - size[g]]
                 /\ Lose({g})
            ELSE UNCHANGED <<files, retained, total, steady>>
  /\ UNCHANGED <<contents, markers, made, clock, faults, pc, loadVars, own,
                 committed, contested, spoiled>>

(* Variant: take in place of skip.                                         *)
ListMarkersToKeep(p) ==
  /\ At(p, "prune") /\ listed[p] = {}
  /\ listed' = [listed EXCEPT ![p] = Newest(markers, RetainedGenerations)]
  /\ Goto(p, "unmark")
  /\ UNCHANGED <<diskVars, clock, faults, loadVars, commitVars, historyVars>>

ListMarkersToPrune(p) ==
  /\ At(p, "prune") /\ listed[p] = {}
  /\ listed' = [listed EXCEPT ![p] = markers \ Newest(markers, RetainedGenerations)]
  /\ Goto(p, "unmark")
  /\ UNCHANGED <<diskVars, clock, faults, loadVars, commitVars, historyVars>>

PruneMarker(p) ==
  /\ At(p, "unmark") /\ listed[p] # {}
  /\ markers' = markers \ {Max(listed[p])}
  /\ listed' = [listed EXCEPT ![p] = @ \ {Max(listed[p])}]
  /\ UNCHANGED <<files, contents, made, clock, faults, pc, loadVars, commitVars,
                 historyVars>>

FinishCommit(p) ==
  /\ At(p, "unmark") /\ listed[p] = {}
  /\ committed' = committed \cup {own[p]}
  /\ EndRun(p)
  /\ UNCHANGED <<diskVars, clock, faults, contested, spoiled>>
-----------------------------------------------------------------------------
(* failures                                                                *)

(* A crash, or an error that makes commit or load return early: what is on *)
(* disk stays there.                                                       *)
Stop(p) ==
  /\ pc[p] # "idle"
  /\ EndRun(p)
  /\ UNCHANGED <<diskVars, clock, faults, committed, contested, spoiled>>

(* A generation is overwritten or damaged on the disk.                     *)
Damage(g) ==
  /\ faults < MaxFaults /\ g \in files
  /\ contents' = [contents EXCEPT ![g] = Damaged]
  /\ faults' = faults + 1
  /\ spoiled' = (spoiled \/ g = NewestCreated)
  /\ Lose({g})
  /\ UNCHANGED <<files, markers, made, clock, pc, loadVars, listed, commitVars,
                 committed, contested>>

(* cache clean, in one step, while others use the cache.                   *)
Clean ==
  /\ faults < MaxFaults
  /\ made /\ files' = {} /\ markers' = {} /\ made' = FALSE
  /\ spoiled' = TRUE
  /\ Lose(files)
  /\ faults' = faults + 1
  /\ UNCHANGED <<contents, clock, pc, loadVars, listed, commitVars,
                 committed, contested>>

(* The system's clock is set back: names taken from now on come before     *)
(* older ones.                                                             *)
SetClockBack ==
  /\ faults < MaxFaults /\ clock > 0
  /\ clock' \in 0..(clock - 1)
  /\ faults' = faults + 1
  /\ UNCHANGED <<diskVars, pc, loadVars, listed, commitVars, historyVars>>

Load(p) == BeginLoad(p) \/ ListMarkers(p) \/ ReadCandidate(p) \/ LoadNothing(p)

CommitStep(p) ==
  \/ NameGeneration(p) \/ CreateGeneration(p) \/ CreateMarker(p)
  \/ ListGenerations(p) \/ Prune(p)
  \/ ListMarkersToPrune(p) \/ PruneMarker(p) \/ FinishCommit(p)

Next ==
  /\ UNCHANGED size
  /\ \/ \E p \in Process : Load(p) \/ FinishWithoutCommit(p) \/ CommitStep(p) \/ Stop(p)
     \/ \E g \in Name : Damage(g)
     \/ Clean
     \/ SetClockBack

Spec == Init /\ [][Next]_vars
-----------------------------------------------------------------------------
(* properties                                                              *)

(* Every variable keeps to its type, and a committing process has a name.  *)
TypeOK ==
  /\ files \subseteq Name /\ markers \subseteq Name /\ made \in BOOLEAN
  /\ size \in [Name -> 1..MaxTotalBytes]
  /\ contents \in [Name -> Version \cup {Unwritten, Damaged}]
  /\ clock \in 0..MaxName /\ faults \in 0..MaxFaults
  /\ pc \in [Process -> {"idle", "loaded"} \cup Loading \cup Committing]
  /\ version \in [Process -> Version]
  /\ marked \in [Process -> SUBSET Name] /\ listed \in [Process -> SUBSET Name]
  /\ answer \in [Process -> SUBSET Name]
  /\ own \in [Process -> 0..MaxName]
  /\ retained \in [Process -> Nat] /\ total \in [Process -> Int]
  /\ \A p \in Process : pc[p] \in Committing => own[p] \in Name
  /\ steady \in [Process -> SUBSET Name]
  /\ committed \subseteq Name
  /\ contested \in BOOLEAN /\ spoiled \in BOOLEAN

(* The store implements the promise of Cache: a load answers, whatever was *)
(* pruned, damaged or cleaned under it, with nothing or with a generation  *)
(* that is there at that moment as a commit of the same version wrote it.  *)
Promise == INSTANCE Cache WITH
  held <- {<<g, contents[g]>> : g \in {g \in files : contents[g] \in Version}},
  answer <- [p \in Process |-> {<<g, version[p]>> : g \in answer[p]}]

ImplementsCache == Promise!Spec

(* load recovers around what is missing or damaged: it ends without a      *)
(* generation only if none was usable all along, or if there are more      *)
(* candidates than it may open (which MaxFilesToScan excludes here).       *)
LoadFindsWhatStays ==
  \A p \in Process : At(p, "loaded") /\ answer[p] = {} => steady[p] = {}

(* The limits hold whenever no commit is under way, whatever commits have  *)
(* met: the commit that listed last saw all files but those of the commits *)
(* that were stopped after it.                                             *)
Leftover ==
  {g \in files \ committed : \A p \in Process : pc[p] \in Committing => own[p] # g}

RestingCacheIsBounded ==
  (\A p \in Process : pc[p] \notin Committing) =>
     /\ Cardinality(files \ Leftover) <= RetainedGenerations
     /\ Bytes(files \ Leftover) <= MaxTotalBytes

IsActive(g) ==
  /\ g \in files /\ contents[g] \in Version
  /\ g \in markers /\ g = Max(markers)

(* What a load would open first is the newest generation by name, if its   *)
(* commit has returned and no other one has been under way or followed     *)
(* with an older name since it was created, whatever was left before it.   *)
UncontestedCommitIsActive ==
  NewestCreated \in committed /\ ~contested /\ ~spoiled => IsActive(NewestCreated)

(* The same without the exception: commit activates the generation it      *)
(* writes.                                                                 *)
CommitIsActive ==
  NewestCreated \in committed /\ ~spoiled => IsActive(NewestCreated)
=============================================================================
