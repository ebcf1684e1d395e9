-------------------------- MODULE CacheStoreProofs ---------------------------
(***************************************************************************)
(* The store implements the promise of Cache, keeps within its limits, and *)
(* activates what it commits when nobody interferes: for any number of     *)
(* processes, generations, faults and crashes, and any limits.             *)
(***************************************************************************)
EXTENDS CacheStore, FiniteSetTheorems, TLAPS

Created == {g \in Name : contents[g] # Unwritten}

Writing == Committing \ {"create"}

(* A name is taken by one commit, and used for one file.                   *)
NamesAreUsedOnce ==
  /\ files \cup markers \cup committed \subseteq Created
  /\ \A p \in Process :
       /\ pc[p] \notin Committing => own[p] = 0
       /\ pc[p] = "create" => own[p] \notin Created
       /\ pc[p] \in Writing => own[p] \in Created \ committed
  /\ \A p, q \in Process : own[p] # 0 /\ own[p] = own[q] => p = q

IsBounded(S) == Cardinality(S) <= RetainedGenerations /\ Bytes(S) <= MaxTotalBytes

(* S is what there was when p listed the generations.  The counters of p   *)
(* bound what is left of it; either they are within the limits, or all     *)
(* that p has looked at is gone.                                           *)
IsListing(p, S) ==
  /\ S \subseteq Created /\ own[p] \in S
  /\ pc[p] = "prune" =>
       /\ listed[p] \subseteq S
       /\ Cardinality(files \cap S) <= retained[p] /\ Bytes(files \cap S) <= total[p]
       /\ ShouldRemove(p) => files \cap S \subseteq listed[p] \cup {own[p]}
  /\ pc[p] = "unmark" => IsBounded(files \cap S)

IsNested(S, T) == files \cap S \subseteq T \/ files \cap T \subseteq S

Pruners == {p \in Process : pc[p] \in {"prune", "unmark"}}

AreListings(seen, settled) ==
  /\ settled \subseteq Created /\ files \cap committed \subseteq settled
  /\ IsBounded(files \cap settled)
  /\ \A p \in Pruners :
       /\ IsListing(p, seen[p]) /\ IsNested(seen[p], settled)
       /\ \A q \in Pruners : IsNested(seen[p], seen[q])

(* Of what is still there a later listing has all an earlier one had; the  *)
(* last one of a commit that has returned had all that was committed.      *)
ListingsAreNested ==
  \E seen \in [Process -> SUBSET Name], settled \in SUBSET Name : AreListings(seen, settled)

(* As long as it is uncontested, nobody but the newest generation's own    *)
(* commit removes anything.                                                *)
NewestStays ==
  ~contested =>
    /\ \A p \in Process : pc[p] \in Writing => own[p] = NewestCreated
    /\ \A p, q \in Process :
         pc[p] \in Committing /\ pc[q] \in Writing => p = q
    /\ ~spoiled /\ NewestCreated # 0 =>
         /\ NewestCreated \in files /\ contents[NewestCreated] \in Version
         /\ \/ NewestCreated \in committed
            \/ \E p \in Process : pc[p] \in Writing \ {"mark"}
            => NewestCreated \in markers
         /\ \A p \in Process : pc[p] = "unmark" => NewestCreated \notin listed[p]

IInv == TypeOK /\ NamesAreUsedOnce /\ ListingsAreNested /\ NewestStays

(* No load has more candidates than it may open.                           *)
FewCandidates ==
  \A p \in Process : At(p, "markers") => Cardinality(listed[p] \cup markers) <= MaxFilesToScan

(* What was usable all along is there, and still to be opened.             *)
KnowsWhatStays(p) ==
  /\ \A g \in steady[p] : Usable(g, version[p])
  /\ steady[p] # {} => pc[p] \in Loading
  /\ At(p, "markers") => steady[p] \subseteq listed[p]
  /\ At(p, "read") => steady[p] \subseteq marked[p] \cup listed[p]

LoadsKnowWhatStays == \A p \in Process : KnowsWhatStays(p)
-----------------------------------------------------------------------------
(* Finite sets of names                                                    *)

LEMMA NamesAreFinite ==
  ASSUME NEW S, S \subseteq Name
  PROVE  /\ Name \subseteq Nat /\ IsFiniteSet(S) /\ Cardinality(S) \in Nat
         /\ \A T \in SUBSET S : IsFiniteSet(T) /\ Cardinality(T) \in Nat
                                /\ Cardinality(T) <= Cardinality(S)
<1>1. IsFiniteSet(Name) /\ Name \subseteq Nat
  BY LimitAssumption, FS_Interval DEF Name
<1>2. IsFiniteSet(S)
  BY <1>1, FS_Subset
<1>3. ASSUME NEW T \in SUBSET S
      PROVE  IsFiniteSet(T) /\ Cardinality(T) \in Nat /\ Cardinality(T) <= Cardinality(S)
  BY <1>2, FS_Subset, FS_CardinalityType
<1> QED
  BY <1>1, <1>2, <1>3

LEMMA MaxOf ==
  ASSUME NEW n \in Nat, NEW S, S \subseteq 0..n, S # {}
  PROVE  Max(S) \in S /\ \A x \in S : x <= Max(S)
<1> DEFINE below == {n - x : x \in S}
<1>1. below \subseteq Nat /\ below # {}
  OBVIOUS
<1>2. PICK d \in below : \A e \in below : <<e, d>> \notin OpToRel(<, Nat)
  BY <1>1, NatLessThanWellFounded, WFMin
<1>3. PICK x \in S : d = n - x
  BY <1>2
<1>4. \A y \in S : y <= x
  <2>1. ASSUME NEW y \in S PROVE ~(n - y < n - x)
    BY <1>1, <1>2, <1>3 DEF OpToRel
  <2> QED
    BY <2>1
<1>5. \E max \in S : \A y \in S : max >= y
  BY <1>4
<1> QED
  BY <1>5 DEF Max

LEMMA MinOf ==
  ASSUME NEW S, S \subseteq Name, S # {}
  PROVE  Min(S) \in S /\ \A x \in S : Min(S) <= x
<1>1. S \subseteq Nat
  BY DEF Name
<1>2. PICK x \in S : \A y \in S : <<y, x>> \notin OpToRel(<, Nat)
  BY <1>1, NatLessThanWellFounded, WFMin
<1>3. \A y \in S : ~(y < x)
  BY <1>1, <1>2 DEF OpToRel
<1>4. \A y \in S : x =< y
  BY <1>1, <1>3
<1>5. \E min \in S : \A y \in S : min =< y
  BY <1>4
<1> QED
  BY <1>5 DEF Min

LEMMA NewestOf ==
  ASSUME TypeOK
  PROVE  /\ NewestCreated \in Nat
         /\ NewestCreated # 0 => NewestCreated \in Created
         /\ \A g \in Created : g <= NewestCreated
<1>1. {0} \cup Created \subseteq 0..MaxName /\ MaxName \in Nat
  BY LimitAssumption DEF Created, Name
<1>2. NewestCreated = Max({0} \cup Created)
  BY DEF NewestCreated, Created
<1> QED
  BY <1>1, <1>2, MaxOf

LEMMA NewestUnchanged ==
  ASSUME Created' = Created
  PROVE  NewestCreated' = NewestCreated
BY DEF NewestCreated, Created

-----------------------------------------------------------------------------
(* The length of generations                                               *)

BytesIn(S) == {byte \in S \X (1..MaxTotalBytes) : byte[2] <= size[byte[1]]}

LEMMA BytesAreFinite ==
  ASSUME NEW S, S \subseteq Name
  PROVE  IsFiniteSet(BytesIn(S)) /\ Bytes(S) = Cardinality(BytesIn(S)) /\ Bytes(S) \in Nat
<1>1. IsFiniteSet(S \X (1..MaxTotalBytes))
  <2>1. IsFiniteSet(S)
    BY NamesAreFinite
  <2>2. IsFiniteSet(1..MaxTotalBytes)
    BY LimitAssumption, FS_Interval
  <2> QED
    BY <2>1, <2>2, FS_Product
<1>2. IsFiniteSet(BytesIn(S))
  BY <1>1, FS_Subset DEF BytesIn
<1> QED
  BY <1>2, FS_CardinalityType DEF Bytes, BytesIn

LEMMA FewerBytes ==
  ASSUME NEW T, T \subseteq Name, NEW S, S \subseteq T
  PROVE  Bytes(S) <= Bytes(T)
<1>1. BytesIn(S) \subseteq BytesIn(T)
  BY DEF BytesIn
<1>2. S \subseteq Name
  OBVIOUS
<1> QED
  BY <1>1, <1>2, BytesAreFinite, FS_Subset

LEMMA BytesOfOne ==
  ASSUME TypeOK, NEW g \in Name
  PROVE  Bytes({g}) = size[g]
<1>1. size[g] \in 1..MaxTotalBytes /\ MaxTotalBytes \in Nat
  BY LimitAssumption DEF TypeOK
<1> DEFINE f == [i \in 1..size[g] |-> <<g, i>>]
<1>2. BytesIn({g}) = {<<g, i>> : i \in 1..size[g]}
  BY <1>1 DEF BytesIn
<1>3. f \in Bijection(1..size[g], BytesIn({g}))
  <2>1. f \in [1..size[g] -> BytesIn({g})]
    BY <1>2
  <2>2. \A i, j \in 1..size[g] : f[i] = f[j] => i = j
    OBVIOUS
  <2>3. \A b \in BytesIn({g}) : \E i \in 1..size[g] : f[i] = b
    BY <1>2
  <2> HIDE DEF f
  <2> QED
    BY <2>1, <2>2, <2>3 DEF Bijection, Injection, Surjection, IsInjective
<1>4. IsFiniteSet(1..size[g]) /\ Cardinality(1..size[g]) = size[g]
  BY <1>1, FS_Interval
<1> HIDE DEF f
<1>5. Cardinality(BytesIn({g})) = size[g]
  BY <1>3, <1>4, FS_Bijection DEF ExistsBijection
<1> QED
  BY <1>5, BytesAreFinite

LEMMA BytesWithout ==
  ASSUME TypeOK, NEW S, S \subseteq Name, NEW g \in S
  PROVE  Bytes(S \ {g}) = Bytes(S) - size[g]
<1> DEFINE rest == S \ {g}
<1>1. BytesIn(S) = BytesIn(rest) \cup BytesIn({g}) /\ BytesIn(rest) \cap BytesIn({g}) = {}
  BY DEF BytesIn
<1>2. /\ IsFiniteSet(BytesIn(rest)) /\ Bytes(rest) = Cardinality(BytesIn(rest))
      /\ Bytes(rest) \in Nat
  BY BytesAreFinite
<1>3. IsFiniteSet(BytesIn({g})) /\ Bytes({g}) = Cardinality(BytesIn({g})) /\ Bytes({g}) \in Nat
  BY BytesAreFinite
<1>4. Bytes(S) = Cardinality(BytesIn(S))
  BY BytesAreFinite
<1> HIDE DEF rest
<1>5. Cardinality(BytesIn(S)) = Cardinality(BytesIn(rest)) + Cardinality(BytesIn({g}))
  <2>1. \A A, B : IsFiniteSet(A) /\ IsFiniteSet(B) /\ A \cap B = {} =>
          Cardinality(A \cup B) = Cardinality(A) + Cardinality(B)
    <3> TAKE A, B
    <3> HAVE IsFiniteSet(A) /\ IsFiniteSet(B) /\ A \cap B = {}
    <3>1. Cardinality(A \cup B) = Cardinality(A) + Cardinality(B) - Cardinality(A \cap B)
      BY FS_Union
    <3>2. Cardinality(A \cap B) = 0 /\ Cardinality(A) \in Nat /\ Cardinality(B) \in Nat
      BY FS_EmptySet, FS_CardinalityType
    <3> QED
      BY <3>1, <3>2
  <2> QED
    BY <2>1, <1>1, <1>2, <1>3
<1>6. Bytes({g}) = size[g]
  BY BytesOfOne
<1> QED
  BY <1>2, <1>3, <1>4, <1>5, <1>6 DEF rest

(* What is left of a bounded set is bounded, and so is a set of one.       *)
LEMMA BoundedSubset ==
  ASSUME NEW T, T \subseteq Name, NEW S, S \subseteq T, IsBounded(T)
  PROVE  IsBounded(S)
<1>1. Cardinality(S) <= Cardinality(T) /\ Cardinality(S) \in Nat /\ Cardinality(T) \in Nat
  BY NamesAreFinite
<1>2. Bytes(S) <= Bytes(T) /\ Bytes(S) \in Nat /\ Bytes(T) \in Nat
  BY FewerBytes, BytesAreFinite
<1> QED
  BY <1>1, <1>2, LimitAssumption DEF IsBounded

LEMMA BoundedSingle ==
  ASSUME TypeOK, NEW g \in Name
  PROVE  IsBounded({g})
<1>1. Cardinality({g}) = 1
  BY FS_Singleton
<1>2. Bytes({g}) = size[g] /\ size[g] \in 1..MaxTotalBytes
  BY BytesOfOne DEF TypeOK
<1> QED
  BY <1>1, <1>2, LimitAssumption DEF IsBounded
-----------------------------------------------------------------------------
(* The steps                                                               *)

(* Those that leave the disk and all commits alone.                        *)
Loads(p) ==
  BeginLoad(p) \/ ListMarkers(p) \/ ReadCandidate(p) \/ LoadNothing(p)

Ends(p) == FinishWithoutCommit(p) \/ FinishCommit(p) \/ Stop(p)

LEMMA Steps ==
  ASSUME [Next]_vars
  PROVE  /\ size' = size
         /\ \/ UNCHANGED vars
            \/ \E p \in Process :
                 \/ Loads(p) \/ Ends(p) \/ NameGeneration(p) \/ CreateGeneration(p)
                 \/ CreateMarker(p) \/ ListGenerations(p) \/ Prune(p)
                 \/ ListMarkersToPrune(p) \/ PruneMarker(p)
            \/ \E g \in Name : Damage(g)
            \/ Clean \/ SetClockBack
BY DEF Next, vars, Load, CommitStep, Loads, Ends

LEMMA LoadSteps ==
  ASSUME TypeOK, NEW p \in Process, Loads(p)
  PROVE  /\ UNCHANGED <<diskVars, clock, faults, version, commitVars,
                        committed, contested, spoiled>>
         /\ pc[p] \in {"idle", "markers", "read"}
         /\ pc' = [pc EXCEPT ![p] = pc'[p]] /\ pc'[p] \in {"markers", "read", "loaded"}
         /\ listed' = [listed EXCEPT ![p] = listed'[p]] /\ listed'[p] \subseteq Name
         /\ marked' = [marked EXCEPT ![p] = marked'[p]] /\ marked'[p] \subseteq Name
         /\ answer' = [answer EXCEPT ![p] = answer'[p]] /\ answer'[p] \subseteq Name
         /\ steady' = [steady EXCEPT ![p] = steady'[p]] /\ steady'[p] \subseteq Name
<1>1. CASE BeginLoad(p)
  BY <1>1 DEF BeginLoad, At, Goto, TypeOK, loadVars, diskVars, commitVars, Usable
<1>2. CASE ListMarkers(p)
  BY <1>2 DEF ListMarkers, At, Goto, TypeOK, Newest, loadVars, diskVars, commitVars, historyVars
<1>3. CASE ReadCandidate(p)
  <2> DEFINE g == IF marked[p] # {} THEN Max(marked[p]) ELSE Max(listed[p])
  <2>1. CASE Usable(g, version[p])
    <3>1. g \in Name
      BY <2>1 DEF Usable, TypeOK
    <3> HIDE DEF g
    <3>2. /\ answer' = [answer EXCEPT ![p] = {g}] /\ marked' = [marked EXCEPT ![p] = {}]
          /\ listed' = [listed EXCEPT ![p] = {}] /\ steady' = [steady EXCEPT ![p] = {}]
          /\ pc' = [pc EXCEPT ![p] = "loaded"] /\ pc[p] = "read"
      BY <1>3, <2>1 DEF ReadCandidate, At, Goto, g
    <3> QED
      BY <1>3, <3>1, <3>2 DEF ReadCandidate, TypeOK, diskVars, commitVars
  <2>2. CASE ~Usable(g, version[p])
    <3> HIDE DEF g
    <3>1. /\ marked' = [marked EXCEPT ![p] = @ \ {g}]
          /\ listed' = [listed EXCEPT ![p] = @ \ {g}]
          /\ UNCHANGED <<answer, steady, pc>> /\ pc[p] = "read"
      BY <1>3, <2>2 DEF ReadCandidate, At, g
    <3> QED
      BY <1>3, <3>1 DEF ReadCandidate, TypeOK, diskVars, commitVars
  <2> QED
    BY <2>1, <2>2
<1>4. CASE LoadNothing(p)
  BY <1>4 DEF LoadNothing, At, Goto, TypeOK, loadVars, diskVars, commitVars, historyVars
<1> QED
  BY <1>1, <1>2, <1>3, <1>4 DEF Loads

(* A run that ends leaves the disk, and forgets what it had.               *)
LEMMA EndSteps ==
  ASSUME NEW p \in Process, Ends(p)
  PROVE  /\ EndRun(p) /\ UNCHANGED <<diskVars, clock, faults, contested, spoiled>>
         /\ pc[p] # "idle"
         /\ \/ committed' = committed
            \/ pc[p] = "unmark" /\ committed' = committed \cup {own[p]}
BY DEF Ends, FinishWithoutCommit, FinishCommit, Stop, At

LEMMA TypesStay ==
  ASSUME IInv, [Next]_vars
  PROVE  TypeOK'
<1> USE DEF IInv
<1>0. size' = size
  BY Steps
<1>1. ASSUME NEW p \in Process, Loads(p)
      PROVE  TypeOK'
  <2>1. UNCHANGED <<files, markers, made, contents, clock, faults, version, own, retained, total,
                    committed, contested, spoiled>>
    BY <1>1, LoadSteps DEF diskVars, commitVars
  <2>2. pc' \in [Process -> {"idle", "loaded"} \cup Loading \cup Committing]
        /\ \A q \in Process : pc'[q] \in Committing => pc[q] = pc'[q]
    BY <1>1, LoadSteps DEF TypeOK, Loading, Committing
  <2>3. /\ listed' \in [Process -> SUBSET Name] /\ marked' \in [Process -> SUBSET Name]
        /\ answer' \in [Process -> SUBSET Name] /\ steady' \in [Process -> SUBSET Name]
    BY <1>1, LoadSteps DEF TypeOK
  <2> QED
    BY <1>0, <2>1, <2>2, <2>3 DEF TypeOK
<1>2. ASSUME NEW p \in Process, Ends(p)
      PROVE  TypeOK'
  <2>1. EndRun(p) /\ UNCHANGED <<files, markers, made, contents, clock, faults, contested, spoiled>>
    BY <1>2, EndSteps DEF diskVars
  <2>2. committed' \subseteq Name
    BY <1>2, EndSteps DEF TypeOK, Committing
  <2>3. /\ pc' \in [Process -> {"idle", "loaded"} \cup Loading \cup Committing]
        /\ own' \in [Process -> 0..MaxName]
        /\ \A q \in Process : pc'[q] \in Committing => own'[q] \in Name
    BY <2>1, LimitAssumption DEF EndRun, Goto, TypeOK, Committing
  <2>4. /\ listed' \in [Process -> SUBSET Name] /\ marked' \in [Process -> SUBSET Name]
        /\ answer' \in [Process -> SUBSET Name] /\ steady' \in [Process -> SUBSET Name]
        /\ retained' \in [Process -> Nat] /\ total' \in [Process -> Int] /\ version' = version
    BY <2>1 DEF EndRun, TypeOK
  <2> QED
    BY <1>0, <2>1, <2>2, <2>3, <2>4 DEF TypeOK
<1>3. ASSUME NEW p \in Process, NameGeneration(p)
      PROVE  TypeOK'
  <2>1. PICK g \in Name : clock' = g /\ own' = [own EXCEPT ![p] = g]
    BY <1>3 DEF NameGeneration
  <2>2. contested' \in BOOLEAN
    BY <1>3 DEF NameGeneration
  <2>3. /\ clock' \in 0..MaxName /\ own' \in [Process -> 0..MaxName]
        /\ pc' \in [Process -> {"idle", "loaded"} \cup Loading \cup Committing]
        /\ \A q \in Process : pc'[q] \in Committing => own'[q] \in Name
    BY <1>3, <2>1, LimitAssumption DEF NameGeneration, Goto, TypeOK, Committing, Name
  <2> QED
    BY <1>0, <1>3, <2>2, <2>3 DEF NameGeneration, TypeOK, diskVars
<1>4. ASSUME NEW p \in Process, CreateGeneration(p)
      PROVE  TypeOK'
  <2>1. own[p] \in Name
    BY <1>4 DEF CreateGeneration, At, TypeOK, Committing
  <2>2. contested' \in BOOLEAN /\ spoiled' \in BOOLEAN
    BY <1>4 DEF CreateGeneration, TypeOK
  <2>3. /\ files' \subseteq Name /\ made' \in BOOLEAN
        /\ contents' \in [Name -> Version \cup {Unwritten, Damaged}]
    BY <1>4, <2>1 DEF CreateGeneration, TypeOK
  <2>4. /\ pc' \in [Process -> {"idle", "loaded"} \cup Loading \cup Committing]
        /\ \A q \in Process : pc'[q] \in Committing => own'[q] \in Name
    BY <1>4, <2>1 DEF CreateGeneration, At, Goto, TypeOK, Committing, commitVars
  <2> QED
    BY <1>0, <1>4, <2>2, <2>3, <2>4 DEF CreateGeneration, TypeOK, loadVars, commitVars
<1>5. ASSUME NEW p \in Process, CreateMarker(p) \/ ListMarkersToPrune(p) \/ PruneMarker(p)
      PROVE  TypeOK'
  <2>1. /\ pc' \in [Process -> {"idle", "loaded"} \cup Loading \cup Committing]
        /\ \A q \in Process : pc'[q] \in Committing => own[q] \in Name
    BY <1>5 DEF CreateMarker, ListMarkersToPrune, PruneMarker, At, Goto, TypeOK, Committing
  <2>2. markers' \subseteq Name /\ listed' \in [Process -> SUBSET Name]
    <3>1. CASE CreateMarker(p)
      BY <3>1 DEF CreateMarker, At, TypeOK, Committing
    <3>2. CASE ListMarkersToPrune(p)
      BY <3>2 DEF ListMarkersToPrune, TypeOK, diskVars
    <3>3. CASE PruneMarker(p)
      BY <3>3 DEF PruneMarker, TypeOK
    <3> QED
      BY <1>5, <3>1, <3>2, <3>3
  <2>3. UNCHANGED <<files, made, contents, clock, faults, version, marked, answer, own, retained,
                    total, steady, committed, contested, spoiled>>
    BY <1>5 DEF CreateMarker, ListMarkersToPrune, PruneMarker, diskVars, loadVars, commitVars,
                historyVars
  <2> QED
    BY <1>0, <2>1, <2>2, <2>3 DEF TypeOK
<1>6. ASSUME NEW p \in Process, ListGenerations(p)
      PROVE  TypeOK'
  <2>1. Cardinality(files) \in Nat /\ Bytes(files) \in Int
    BY NamesAreFinite, BytesAreFinite DEF TypeOK
  <2>2. /\ pc' \in [Process -> {"idle", "loaded"} \cup Loading \cup Committing]
        /\ \A q \in Process : pc'[q] \in Committing => own[q] \in Name
    BY <1>6 DEF ListGenerations, At, Goto, TypeOK, Committing
  <2>3. /\ listed' \in [Process -> SUBSET Name]
        /\ retained' \in [Process -> Nat] /\ total' \in [Process -> Int]
    BY <1>6, <2>1 DEF ListGenerations, TypeOK
  <2> QED
    BY <1>0, <1>6, <2>2, <2>3 DEF ListGenerations, TypeOK, diskVars, loadVars, historyVars
<1>7. ASSUME NEW p \in Process, Prune(p)
      PROVE  TypeOK'
  <2> DEFINE g == NextToPrune(p)
  <2>1. UNCHANGED <<contents, markers, made, clock, faults, pc, version, marked, answer, own,
                    committed, contested, spoiled>>
    BY <1>7 DEF Prune, loadVars
  <2>2. listed' \in [Process -> SUBSET Name]
    BY <1>7 DEF Prune, TypeOK
  <2>3. CASE UNCHANGED <<files, retained, total, steady>>
    BY <1>0, <2>1, <2>2, <2>3 DEF TypeOK
  <2>4. CASE /\ g \in files /\ files' = files \ {g}
             /\ retained' = [retained EXCEPT ![p] = @ - 1]
             /\ total' = [total EXCEPT ![p] = @ - size[g]]
             /\ Lose({g})
    <3>1. g \in Name /\ size[g] \in Int
      BY <2>4 DEF TypeOK
    <3>2. retained[p] \in Nat \ {0}
      <4>1. PICK seen \in [Process -> SUBSET Name], settled \in SUBSET Name :
              AreListings(seen, settled)
        BY DEF ListingsAreNested
      <4>2. p \in Pruners /\ pc[p] = "prune" /\ listed[p] # {} /\ listed[p] \subseteq Name
        BY <1>7 DEF Prune, At, Pruners, TypeOK
      <4>3. listed[p] \subseteq seen[p] /\ Cardinality(files \cap seen[p]) <= retained[p]
        BY <4>1, <4>2 DEF AreListings, IsListing
      <4>4. g \in listed[p]
        BY <4>2, MinOf DEF NextToPrune
      <4>5. Cardinality(files \cap seen[p]) \in Nat \ {0}
        <5>1. files \cap seen[p] \subseteq Name /\ files \cap seen[p] # {}
          BY <2>4, <4>3, <4>4 DEF TypeOK
        <5> QED
          BY <5>1, NamesAreFinite, FS_EmptySet
      <4> QED
        BY <4>3, <4>5 DEF TypeOK
    <3> HIDE DEF g
    <3>3. retained' \in [Process -> Nat] /\ total' \in [Process -> Int]
      BY <2>4, <3>1, <3>2 DEF TypeOK
    <3>4. files' \subseteq Name /\ steady' \in [Process -> SUBSET Name]
      BY <2>4 DEF TypeOK, Lose
    <3> QED
      BY <1>0, <2>1, <2>2, <3>3, <3>4 DEF TypeOK
  <2> QED
    BY <1>7, <2>3, <2>4 DEF Prune
<1>8. ASSUME NEW g \in Name, Damage(g)
      PROVE  TypeOK'
  <2>1. /\ contents' \in [Name -> Version \cup {Unwritten, Damaged}]
        /\ steady' \in [Process -> SUBSET Name] /\ spoiled' \in BOOLEAN
    BY <1>8 DEF Damage, Lose, TypeOK
  <2>2. faults' \in 0..MaxFaults
    BY <1>8, LimitAssumption DEF Damage, TypeOK
  <2> QED
    BY <1>0, <1>8, <2>1, <2>2 DEF Damage, TypeOK, loadVars, commitVars
<1>9. CASE Clean
  <2>1. faults' \in 0..MaxFaults /\ steady' \in [Process -> SUBSET Name]
    BY <1>9, LimitAssumption DEF Clean, Lose, TypeOK
  <2> QED
    BY <1>0, <1>9, <2>1 DEF Clean, TypeOK, loadVars, commitVars
<1>10. CASE SetClockBack
  <2>1. faults' \in 0..MaxFaults /\ clock' \in 0..MaxName
    BY <1>10, LimitAssumption DEF SetClockBack, TypeOK
  <2> QED
    BY <1>0, <1>10, <2>1 DEF SetClockBack, TypeOK, diskVars, loadVars, commitVars, historyVars
<1>11. CASE UNCHANGED vars
  BY <1>11 DEF vars, TypeOK, diskVars, loadVars, commitVars, historyVars
<1> QED
  BY <1>1, <1>2, <1>3, <1>4, <1>5, <1>6, <1>7, <1>8, <1>9, <1>10, <1>11, Steps
-----------------------------------------------------------------------------
(* Names                                                                   *)

LEMMA NamesStay ==
  ASSUME IInv, [Next]_vars
  PROVE  NamesAreUsedOnce'
<1> USE DEF IInv
<1>0. Unwritten # Damaged /\ Unwritten \notin Version /\ 0 \notin Name
  BY VersionAssumption DEF Unwritten, Damaged, Name
<1>1. ASSUME UNCHANGED <<files, markers, contents, committed, own>>,
             \A p \in Process :
               \/ pc'[p] = pc[p]
               \/ pc[p] \notin Committing /\ pc'[p] \notin Committing
               \/ pc[p] \in Writing /\ pc'[p] \in Writing
      PROVE  NamesAreUsedOnce'
  <2>1. Created' = Created
    BY <1>1 DEF Created
  <2>2. \A p \in Process : /\ pc'[p] \notin Committing => pc[p] \notin Committing
                           /\ pc'[p] = "create" => pc[p] = "create"
                           /\ pc'[p] \in Writing => pc[p] \in Writing
    BY <1>1 DEF Committing, Writing
  <2> QED
    BY <1>1, <2>1, <2>2 DEF NamesAreUsedOnce
<1>2. ASSUME NEW p \in Process, Loads(p)
      PROVE  NamesAreUsedOnce'
  <2>1. UNCHANGED <<files, markers, contents, committed, own>>
    BY <1>2, LoadSteps DEF diskVars, commitVars
  <2>2. \A q \in Process : pc'[q] = pc[q] \/ (pc[q] \notin Committing /\ pc'[q] \notin Committing)
    BY <1>2, LoadSteps DEF TypeOK, Committing
  <2> QED
    BY <1>1, <2>1, <2>2
<1>3. ASSUME NEW p \in Process, Ends(p)
      PROVE  NamesAreUsedOnce'
  <2>1. EndRun(p) /\ UNCHANGED <<files, markers, contents>>
    BY <1>3, EndSteps DEF diskVars
  <2>2. Created' = Created /\ own' = [own EXCEPT ![p] = 0] /\ pc' = [pc EXCEPT ![p] = "idle"]
    BY <2>1 DEF EndRun, Goto, Created
  <2>3. committed' = committed \/ (pc[p] \in Writing /\ committed' = committed \cup {own[p]})
    BY <1>3, EndSteps DEF Writing, Committing
  <2>4. committed' \subseteq Created
    BY <2>3 DEF NamesAreUsedOnce
  <2>5. \A q \in Process : q # p => own'[q] = own[q] /\ pc'[q] = pc[q]
    BY <2>2 DEF TypeOK
  <2>6. own'[p] = 0 /\ pc'[p] = "idle"
    BY <2>2 DEF TypeOK
  <2>7. ASSUME NEW q \in Process, pc'[q] \in Writing
        PROVE  own'[q] \in Created \ committed'
    <3>1. q # p /\ own[q] \in Created \ committed /\ own'[q] = own[q]
      BY <2>5, <2>6, <2>7 DEF NamesAreUsedOnce, Writing, Committing
    <3>2. own[q] # 0
      BY <3>1, <1>0 DEF Created
    <3>3. own[q] # own[p]
      BY <3>1, <3>2 DEF NamesAreUsedOnce
    <3> QED
      BY <2>3, <3>1, <3>3
  <2>8. \A q \in Process : /\ pc'[q] \notin Committing => own'[q] = 0
                           /\ pc'[q] = "create" => own'[q] \notin Created
    BY <2>5, <2>6 DEF NamesAreUsedOnce, Committing
  <2>9. \A q, r \in Process : own'[q] # 0 /\ own'[q] = own'[r] => q = r
    BY <2>5, <2>6 DEF NamesAreUsedOnce
  <2> QED
    BY <2>1, <2>2, <2>4, <2>7, <2>8, <2>9 DEF NamesAreUsedOnce
<1>4. ASSUME NEW p \in Process, NameGeneration(p)
      PROVE  NamesAreUsedOnce'
  <2>1. PICK g \in Name : /\ contents[g] = Unwritten /\ \A q \in Process : own[q] # g
                          /\ own' = [own EXCEPT ![p] = g]
    BY <1>4 DEF NameGeneration
  <2>2. /\ UNCHANGED <<files, markers, contents, committed>>
        /\ pc' = [pc EXCEPT ![p] = "create"]
    BY <1>4 DEF NameGeneration, Goto, diskVars
  <2>3. Created' = Created /\ g \notin Created
    BY <2>1, <2>2 DEF Created
  <2>4. \A q \in Process : q # p => own'[q] = own[q] /\ pc'[q] = pc[q]
    BY <2>1, <2>2 DEF TypeOK
  <2>5. own'[p] = g /\ pc'[p] = "create"
    BY <2>1, <2>2 DEF TypeOK
  <2>6. \A q \in Process : /\ pc'[q] \notin Committing => own'[q] = 0
                           /\ pc'[q] = "create" => own'[q] \notin Created
                           /\ pc'[q] \in Writing => own'[q] \in Created \ committed
    BY <2>3, <2>4, <2>5 DEF NamesAreUsedOnce, Committing, Writing
  <2>7. \A q, r \in Process : own'[q] # 0 /\ own'[q] = own'[r] => q = r
    BY <2>1, <2>4, <2>5 DEF NamesAreUsedOnce
  <2> QED
    BY <2>2, <2>3, <2>6, <2>7 DEF NamesAreUsedOnce
<1>5. ASSUME NEW p \in Process, CreateGeneration(p)
      PROVE  NamesAreUsedOnce'
  <2>1. /\ pc[p] = "create" /\ own[p] \in Name /\ own[p] \notin Created
        /\ own[p] # 0 /\ version[p] \in Version
    BY <1>5, <1>0 DEF CreateGeneration, At, TypeOK, Committing, NamesAreUsedOnce
  <2>2. /\ files' = files \cup {own[p]} /\ UNCHANGED <<markers, committed, own>>
        /\ contents' = [contents EXCEPT ![own[p]] = version[p]]
        /\ pc' = [pc EXCEPT ![p] = "mark"]
    BY <1>5 DEF CreateGeneration, Goto, commitVars
  <2>3. Created' = Created \cup {own[p]}
    BY <2>1, <2>2, <1>0 DEF Created, TypeOK
  <2>4. \A q \in Process : q # p => pc'[q] = pc[q] /\ own[q] # own[p]
    BY <2>1, <2>2 DEF TypeOK, NamesAreUsedOnce
  <2>5. pc'[p] = "mark" /\ own[p] \notin committed
    BY <2>1, <2>2 DEF TypeOK, NamesAreUsedOnce
  <2>6. \A q \in Process : /\ pc'[q] \notin Committing => own[q] = 0
                           /\ pc'[q] = "create" => own[q] \notin Created'
                           /\ pc'[q] \in Writing => own[q] \in Created' \ committed
    BY <2>3, <2>4, <2>5 DEF NamesAreUsedOnce, Committing, Writing
  <2> QED
    BY <2>2, <2>3, <2>6 DEF NamesAreUsedOnce
<1>6. ASSUME NEW p \in Process, CreateMarker(p)
      PROVE  NamesAreUsedOnce'
  <2>1. /\ pc[p] = "mark" /\ pc' = [pc EXCEPT ![p] = "list"]
        /\ markers' = markers \cup {own[p]} /\ UNCHANGED <<files, contents, committed, own>>
    BY <1>6 DEF CreateMarker, At, Goto, commitVars, historyVars
  <2>2. Created' = Created /\ own[p] \in Created
    BY <2>1 DEF Created, NamesAreUsedOnce, Writing, Committing
  <2>3. \A q \in Process : /\ pc'[q] \notin Committing => pc[q] \notin Committing
                           /\ pc'[q] = "create" => pc[q] = "create"
                           /\ pc'[q] \in Writing => pc[q] \in Writing
    BY <2>1 DEF TypeOK, Committing, Writing
  <2> QED
    BY <2>1, <2>2, <2>3 DEF NamesAreUsedOnce
<1>7. ASSUME NEW p \in Process, ListGenerations(p) \/ ListMarkersToPrune(p)
      PROVE  NamesAreUsedOnce'
  <2>1. /\ UNCHANGED <<files, markers, contents, committed, own>>
        /\ pc[p] \in {"list", "prune"} /\ pc' = [pc EXCEPT ![p] = pc'[p]]
        /\ pc'[p] \in {"prune", "unmark"}
    BY <1>7 DEF ListGenerations, ListMarkersToPrune, At, Goto, TypeOK, diskVars, commitVars,
                historyVars
  <2>2. \A q \in Process : pc'[q] = pc[q] \/ (pc[q] \in Writing /\ pc'[q] \in Writing)
    BY <2>1 DEF TypeOK, Writing, Committing
  <2> QED
    BY <1>1, <2>1, <2>2
<1>8. ASSUME files' \subseteq files, markers' \subseteq markers, Created' = Created,
             UNCHANGED <<committed, own, pc>>
      PROVE  NamesAreUsedOnce'
  BY <1>8 DEF NamesAreUsedOnce
<1>9. ASSUME NEW p \in Process, Prune(p) \/ PruneMarker(p)
      PROVE  NamesAreUsedOnce'
  BY <1>8, <1>9 DEF Prune, PruneMarker, Created, commitVars, historyVars
<1>10. ASSUME NEW g \in Name, Damage(g)
       PROVE  NamesAreUsedOnce'
  <2>1. g \in Created /\ contents' = [contents EXCEPT ![g] = Damaged]
    BY <1>10 DEF Damage, NamesAreUsedOnce
  <2>2. Created' = Created
    BY <2>1, <1>0 DEF Created, TypeOK
  <2> QED
    BY <1>8, <1>10, <2>2 DEF Damage, commitVars
<1>11. CASE Clean
  BY <1>8, <1>11 DEF Clean, Created, commitVars
<1>12. CASE SetClockBack \/ UNCHANGED vars
  BY <1>8, <1>12 DEF SetClockBack, Created, vars, diskVars, commitVars, historyVars
<1> QED
  BY <1>2, <1>3, <1>4, <1>5, <1>6, <1>7, <1>9, <1>10, <1>11, <1>12, Steps
-----------------------------------------------------------------------------
(* Listings                                                                *)

(* No created file comes back, so that less and less is left of a listing. *)
Lessens == size' = size /\ Created \subseteq Created' /\ files' \cap Created \subseteq files

LEMMA LessIsLeft ==
  ASSUME TypeOK, Lessens, NEW S, S \subseteq Created
  PROVE  /\ files' \cap S \subseteq files \cap S /\ files \cap S \subseteq Name
         /\ Cardinality(files' \cap S) \in Nat /\ Cardinality(files \cap S) \in Nat
         /\ Cardinality(files' \cap S) <= Cardinality(files \cap S)
         /\ Bytes(files \cap S)' = Bytes(files' \cap S)
         /\ Bytes(files' \cap S) \in Nat /\ Bytes(files \cap S) \in Nat
         /\ Bytes(files' \cap S) <= Bytes(files \cap S)
         /\ IsBounded(files \cap S) => IsBounded(files \cap S)'
<1>1. files' \cap S \subseteq files \cap S /\ files \cap S \subseteq Name
  BY DEF Lessens, Created
<1>2. /\ Cardinality(files' \cap S) <= Cardinality(files \cap S)
      /\ Cardinality(files' \cap S) \in Nat /\ Cardinality(files \cap S) \in Nat
  BY <1>1, NamesAreFinite
<1>3. /\ Bytes(files' \cap S) <= Bytes(files \cap S)
      /\ Bytes(files' \cap S) \in Nat /\ Bytes(files \cap S) \in Nat
  BY <1>1, FewerBytes, BytesAreFinite
<1>4. Bytes(files \cap S)' = Bytes(files' \cap S)
  BY DEF Bytes, Lessens
<1> QED
  BY <1>1, <1>2, <1>3, <1>4, LimitAssumption DEF IsBounded

LEMMA NestingStays ==
  ASSUME TypeOK, Lessens, NEW S, S \subseteq Created, NEW T, T \subseteq Created, IsNested(S, T)
  PROVE  IsNested(S, T)'
BY DEF IsNested, Lessens

LEMMA ListingStays ==
  ASSUME TypeOK, Lessens, NEW p \in Process, NEW S, IsListing(p, S),
         pc'[p] = pc[p], own'[p] = own[p],
         pc[p] = "prune" => /\ listed'[p] = listed[p]
                            /\ retained'[p] = retained[p] /\ total'[p] = total[p]
  PROVE  IsListing(p, S)'
<1>1. S \subseteq Created /\ own[p] \in S /\ S \subseteq Created'
  BY DEF IsListing, Lessens
<1>2. ASSUME pc[p] = "prune"
      PROVE  /\ listed'[p] \subseteq S
             /\ Cardinality(files' \cap S) <= retained'[p]
             /\ Bytes(files \cap S)' <= total'[p]
             /\ ShouldRemove(p)' => files' \cap S \subseteq listed'[p] \cup {own'[p]}
  <2>1. /\ listed[p] \subseteq S
        /\ Cardinality(files \cap S) <= retained[p] /\ Bytes(files \cap S) <= total[p]
        /\ ShouldRemove(p) => files \cap S \subseteq listed[p] \cup {own[p]}
    BY <1>2 DEF IsListing
  <2>2. retained[p] \in Nat /\ total[p] \in Int
    BY DEF TypeOK
  <2>3. Cardinality(files' \cap S) <= retained[p] /\ Bytes(files \cap S)' <= total[p]
    <3>1. /\ Cardinality(files' \cap S) <= Cardinality(files \cap S)
          /\ Cardinality(files' \cap S) \in Nat /\ Cardinality(files \cap S) \in Nat
          /\ Bytes(files \cap S)' = Bytes(files' \cap S)
          /\ Bytes(files' \cap S) \in Nat /\ Bytes(files \cap S) \in Nat
          /\ Bytes(files' \cap S) <= Bytes(files \cap S)
      BY <1>1, LessIsLeft
    <3> QED
      BY <2>1, <2>2, <3>1
  <2>4. ShouldRemove(p)' => ShouldRemove(p)
    BY <1>2 DEF ShouldRemove
  <2>5. files' \cap S \subseteq files \cap S
    BY <1>1 DEF Lessens
  <2> QED
    BY <1>2, <2>1, <2>3, <2>4, <2>5
<1>3. pc[p] = "unmark" => IsBounded(files \cap S)'
  BY <1>1, LessIsLeft DEF IsListing
<1> QED
  BY <1>1, <1>2, <1>3 DEF IsListing

LEMMA ListingsOutlast ==
  ASSUME TypeOK, NamesAreUsedOnce, Lessens, committed' = committed,
         NEW seen, NEW settled, AreListings(seen, settled),
         \A p \in Process : p \in Pruners' => p \in Pruners /\ IsListing(p, seen[p])'
  PROVE  AreListings(seen, settled)'
<1>1. /\ settled \subseteq Created /\ files \cap committed \subseteq settled
      /\ IsBounded(files \cap settled) /\ committed \subseteq Created
  BY DEF AreListings, NamesAreUsedOnce
<1>2. /\ settled \subseteq Created' /\ files' \cap committed' \subseteq settled
      /\ IsBounded(files \cap settled)'
  BY <1>1, LessIsLeft DEF Lessens
<1>3. Pruners' \subseteq Pruners
  BY DEF Pruners
<1>4. ASSUME NEW p \in Pruners'
      PROVE  IsListing(p, seen[p])' /\ IsNested(seen[p], settled)'
             /\ \A q \in Pruners' : IsNested(seen[p], seen[q])'
  <2>1. p \in Process /\ IsListing(p, seen[p]) /\ IsNested(seen[p], settled)
    BY <1>3, <1>4 DEF AreListings, Pruners
  <2>2. IsListing(p, seen[p])'
    BY <1>4, <2>1
  <2>3. seen[p] \subseteq Created
    BY <2>1 DEF IsListing
  <2>4. IsNested(seen[p], settled)'
    BY <1>1, <2>1, <2>3, NestingStays
  <2>5. ASSUME NEW q \in Pruners'
        PROVE  IsNested(seen[p], seen[q])'
    <3>1. IsNested(seen[p], seen[q]) /\ seen[q] \subseteq Created
      BY <1>3, <1>4, <2>5 DEF AreListings, IsListing
    <3> QED
      BY <2>3, <3>1, NestingStays
  <2> QED
    BY <2>2, <2>4, <2>5
<1> QED
  BY <1>2, <1>4 DEF AreListings

(* What a process does that is not about its listing.                      *)
KeepsListing(p) ==
  pc'[p] \in {"prune", "unmark"} =>
    /\ pc'[p] = pc[p] /\ own'[p] = own[p]
    /\ pc[p] = "prune" => /\ listed'[p] = listed[p]
                          /\ retained'[p] = retained[p] /\ total'[p] = total[p]

LEMMA KeptListingsStay ==
  ASSUME IInv, Lessens, committed' = committed, \A p \in Process : KeepsListing(p)
  PROVE  ListingsAreNested'
<1>1. PICK seen \in [Process -> SUBSET Name], settled \in SUBSET Name : AreListings(seen, settled)
  BY DEF IInv, ListingsAreNested
<1>2. ASSUME NEW p \in Process, p \in Pruners'
      PROVE  p \in Pruners /\ IsListing(p, seen[p])'
  <2>1. pc'[p] \in {"prune", "unmark"} /\ KeepsListing(p)
    BY <1>2 DEF Pruners
  <2>2. p \in Pruners
    BY <2>1 DEF Pruners, KeepsListing
  <2>3. IsListing(p, seen[p])
    BY <1>1, <2>2 DEF AreListings
  <2> QED
    BY <2>1, <2>2, <2>3, ListingStays DEF KeepsListing, IInv
<1>3. AreListings(seen, settled)'
  BY <1>1, <1>2, ListingsOutlast DEF IInv
<1> QED
  BY <1>3 DEF ListingsAreNested

LEMMA NewListing ==
  ASSUME IInv, NEW p \in Process, ListGenerations(p), size' = size
  PROVE  ListingsAreNested'
<1>1. PICK seen \in [Process -> SUBSET Name], settled \in SUBSET Name : AreListings(seen, settled)
  BY DEF IInv, ListingsAreNested
<1>2. /\ pc[p] = "list" /\ pc' = [pc EXCEPT ![p] = "prune"]
      /\ listed' = [listed EXCEPT ![p] = files]
      /\ retained' = [retained EXCEPT ![p] = Cardinality(files)]
      /\ total' = [total EXCEPT ![p] = Bytes(files)]
      /\ UNCHANGED <<files, contents, own, committed>>
  BY DEF ListGenerations, At, Goto, diskVars, commitVars, historyVars
<1>3. Created' = Created /\ own[p] \in Created /\ files \subseteq Created /\ Lessens
  BY <1>2 DEF Created, Lessens, IInv, NamesAreUsedOnce, Writing, Committing
<1>4. PICK now \in SUBSET Name :
        now = files \cup {own[p]} /\ now \subseteq Created /\ files \cap now = files
  BY <1>3 DEF Created
<1>5. PICK later \in [Process -> SUBSET Name] :
        later[p] = now /\ \A q \in Process : q # p => later[q] = seen[q]
  <2>1. [seen EXCEPT ![p] = now] \in [Process -> SUBSET Name]
    OBVIOUS
  <2> QED
    BY <2>1
<1>6. IsListing(p, now)'
  <2>1. pc'[p] = "prune" /\ listed'[p] = files /\ retained'[p] = Cardinality(files)
        /\ total'[p] = Bytes(files)
    BY <1>2 DEF IInv, TypeOK
  <2>2. Bytes(files)' = Bytes(files) /\ Cardinality(files) \in Nat /\ Bytes(files) \in Nat
    BY <1>2, NamesAreFinite, BytesAreFinite DEF Bytes, IInv, TypeOK
  <2>3. /\ now \subseteq Created' /\ own'[p] \in now /\ (files \cap now)' = files
        /\ Bytes(files \cap now)' = Bytes(files)
    BY <1>2, <1>3, <1>4 DEF Bytes
  <2>4. /\ Cardinality(files' \cap now) <= retained'[p] /\ Bytes(files \cap now)' <= total'[p]
        /\ listed'[p] \subseteq now /\ files' \cap now \subseteq listed'[p] \cup {own'[p]}
    BY <1>4, <2>1, <2>2, <2>3
  <2> QED
    BY <2>1, <2>3, <2>4 DEF IsListing
<1>7. ASSUME NEW q \in Process, q \in Pruners', q # p
      PROVE  q \in Pruners /\ IsListing(q, seen[q])'
  <2>1. /\ pc'[q] = pc[q] /\ listed'[q] = listed[q]
        /\ retained'[q] = retained[q] /\ total'[q] = total[q] /\ own'[q] = own[q]
    BY <1>2, <1>7 DEF IInv, TypeOK
  <2>2. q \in Pruners
    BY <1>7, <2>1 DEF Pruners
  <2>3. IsListing(q, seen[q])
    BY <1>1, <2>2 DEF AreListings
  <2> QED
    BY <1>3, <2>1, <2>2, <2>3, ListingStays DEF IInv
<1>8. /\ (settled \subseteq Created)' /\ (files \cap committed \subseteq settled)'
      /\ IsBounded(files \cap settled)'
  <2>1. settled \subseteq Created /\ files \cap committed \subseteq settled
        /\ IsBounded(files \cap settled)
    BY <1>1 DEF AreListings
  <2> QED
    BY <1>2, <1>3, <2>1, LessIsLeft DEF IInv
<1>9. \A S : IsNested(now, S)' /\ IsNested(S, now)'
  BY <1>2, <1>4 DEF IsNested
<1>10. ASSUME NEW q \in Process, q \in Pruners'
       PROVE  /\ IsListing(q, later[q])' /\ IsNested(later[q], settled)'
              /\ \A r \in Pruners' : IsNested(later[q], later[r])'
  <2>1. CASE q = p
    BY <1>5, <1>6, <1>9, <2>1
  <2>2. CASE q # p
    <3>1. later[q] = seen[q] /\ q \in Pruners /\ IsListing(q, seen[q])'
      BY <1>5, <1>7, <1>10, <2>2
    <3>2. IsNested(seen[q], settled)'
      BY <1>1, <1>2, <3>1 DEF AreListings, IsNested
    <3>3. ASSUME NEW r \in Pruners'
          PROVE  IsNested(later[q], later[r])'
      <4>1. CASE r = p
        BY <1>5, <1>9, <4>1
      <4>2. CASE r # p
        <5>1. r \in Process /\ r \in Pruners /\ later[r] = seen[r]
          BY <1>5, <1>7, <3>3, <4>2 DEF Pruners
        <5> QED
          BY <1>1, <1>2, <3>1, <5>1 DEF AreListings, IsNested
      <4> QED
        BY <4>1, <4>2
    <3> QED
      BY <3>1, <3>2, <3>3
  <2> QED
    BY <2>1, <2>2
<1>11. AreListings(later, settled)'
  BY <1>8, <1>10 DEF AreListings, Pruners
<1> QED
  BY <1>5, <1>11 DEF ListingsAreNested

LEMMA PrunedListing ==
  ASSUME IInv, NEW p \in Process, Prune(p), size' = size
  PROVE  ListingsAreNested'
<1>1. PICK seen \in [Process -> SUBSET Name], settled \in SUBSET Name : AreListings(seen, settled)
  BY DEF IInv, ListingsAreNested
<1> DEFINE g == NextToPrune(p)
           S == seen[p]
<1>2. /\ pc[p] = "prune" /\ listed[p] # {} /\ listed[p] \subseteq Name
      /\ UNCHANGED <<pc, own, contents, committed>>
      /\ listed' = [listed EXCEPT ![p] = @ \ {g}]
  BY DEF Prune, At, IInv, TypeOK
<1>3. g \in listed[p]
  BY <1>2, MinOf DEF NextToPrune
<1>4. \/ /\ g = own[p] \/ ~ShouldRemove(p) \/ g \notin files
         /\ UNCHANGED <<files, retained, total>>
      \/ /\ g # own[p] /\ ShouldRemove(p) /\ g \in files /\ files' = files \ {g}
         /\ retained' = [retained EXCEPT ![p] = @ - 1]
         /\ total' = [total EXCEPT ![p] = @ - size[g]]
  BY DEF Prune
<1> HIDE DEF g
<1>5. Created' = Created /\ Lessens /\ p \in Pruners /\ Pruners' = Pruners
  BY <1>2, <1>4 DEF Created, Lessens, Pruners
<1>6. IsListing(p, S)
  BY <1>1, <1>5 DEF AreListings
<1>7. /\ S \subseteq Created /\ own[p] \in S /\ listed[p] \subseteq S
      /\ Cardinality(files \cap S) <= retained[p] /\ Bytes(files \cap S) <= total[p]
      /\ ShouldRemove(p) => files \cap S \subseteq listed[p] \cup {own[p]}
  BY <1>2, <1>6 DEF IsListing
<1>8. files \cap S \subseteq Name /\ retained[p] \in Nat /\ total[p] \in Int
      /\ listed'[p] = listed[p] \ {g}
  BY <1>2 DEF IInv, TypeOK
<1> HIDE DEF S
<1>9. IsListing(p, S)'
  <2>1. CASE /\ g = own[p] \/ ~ShouldRemove(p) \/ g \notin files
             /\ UNCHANGED <<files, retained, total>>
    <3>1. ShouldRemove(p)' = ShouldRemove(p) /\ Bytes(files \cap S)' = Bytes(files \cap S)
      BY <2>1 DEF ShouldRemove, Bytes
    <3>2. ShouldRemove(p) => files \cap S \subseteq listed'[p] \cup {own[p]}
      BY <1>7, <1>8, <2>1
    <3> QED
      BY <1>2, <1>5, <1>7, <1>8, <2>1, <3>1, <3>2 DEF IsListing
  <2>2. CASE /\ ShouldRemove(p) /\ g \in files /\ files' = files \ {g}
             /\ retained' = [retained EXCEPT ![p] = @ - 1]
             /\ total' = [total EXCEPT ![p] = @ - size[g]]
    <3> DEFINE left == files \cap S
    <3>1. g \in left /\ files' \cap S = left \ {g} /\ size[g] \in Int
      BY <1>3, <1>7, <2>2 DEF IInv, TypeOK
    <3>2. Cardinality(left \ {g}) = Cardinality(left) - 1 /\ Cardinality(left) \in Nat
          /\ Cardinality(left \ {g}) \in Nat
      <4>1. IsFiniteSet(left)
        BY <1>8, NamesAreFinite
      <4> QED
        BY <3>1, <4>1, FS_RemoveElement, FS_CardinalityType
    <3>3. Bytes(left \ {g}) = Bytes(left) - size[g] /\ Bytes(left) \in Nat
      BY <1>8, <3>1, BytesWithout, BytesAreFinite DEF IInv
    <3>4. Bytes(files \cap S)' = Bytes(left \ {g})
      BY <3>1 DEF Bytes
    <3> HIDE DEF left
    <3>5. retained'[p] = retained[p] - 1 /\ total'[p] = total[p] - size[g]
      BY <2>2 DEF IInv, TypeOK
    <3>6. Cardinality(files' \cap S) <= retained'[p] /\ Bytes(files \cap S)' <= total'[p]
      <4>1. Cardinality(left) <= retained[p] /\ Bytes(left) <= total[p]
        BY <1>7 DEF left
      <4>2. Cardinality(files' \cap S) <= retained'[p]
        <5>1. Cardinality(files' \cap S) = Cardinality(left \ {g})
          BY <3>1, Zenon
        <5> QED
          BY <1>8, <3>2, <3>5, <4>1, <5>1
      <4>3. Bytes(files \cap S)' <= total'[p]
        BY <1>8, <3>1, <3>3, <3>4, <3>5, <4>1
      <4> QED
        BY <4>2, <4>3
    <3>7. files' \cap S \subseteq listed'[p] \cup {own[p]}
      BY <1>7, <1>8, <2>2
    <3> QED
      BY <1>2, <1>5, <1>7, <1>8, <3>6, <3>7 DEF IsListing
  <2> QED
    BY <1>4, <2>1, <2>2
<1>10. ASSUME NEW q \in Process, q \in Pruners'
       PROVE  q \in Pruners /\ IsListing(q, seen[q])'
  <2>1. CASE q = p
    BY <1>5, <1>9, <2>1 DEF S
  <2>2. CASE q # p
    <3>1. /\ pc'[q] = pc[q] /\ listed'[q] = listed[q] /\ own'[q] = own[q]
          /\ retained'[q] = retained[q] /\ total'[q] = total[q]
      BY <1>2, <1>4, <2>2 DEF IInv, TypeOK
    <3>2. q \in Pruners /\ IsListing(q, seen[q])
      BY <1>1, <1>5, <1>10 DEF AreListings
    <3> QED
      BY <1>5, <3>1, <3>2, ListingStays DEF IInv
  <2> QED
    BY <2>1, <2>2
<1>11. AreListings(seen, settled)'
  BY <1>1, <1>2, <1>5, <1>10, ListingsOutlast DEF IInv
<1> QED
  BY <1>11 DEF ListingsAreNested
LEMMA FinishedListing ==
  ASSUME IInv, NEW p \in Process, ListMarkersToPrune(p), size' = size
  PROVE  ListingsAreNested'
<1>1. PICK seen \in [Process -> SUBSET Name], settled \in SUBSET Name : AreListings(seen, settled)
  BY DEF IInv, ListingsAreNested
<1> DEFINE S == seen[p]
<1>2. /\ pc[p] = "prune" /\ listed[p] = {} /\ pc' = [pc EXCEPT ![p] = "unmark"]
      /\ UNCHANGED <<files, own, contents, committed, retained, total>>
      /\ \A q \in Process : q # p => listed'[q] = listed[q]
  BY DEF ListMarkersToPrune, At, Goto, IInv, TypeOK, diskVars, commitVars, historyVars
<1>3. Created' = Created /\ Lessens /\ p \in Pruners
  BY <1>2 DEF Created, Lessens, Pruners
<1>4. IsListing(p, S)
  BY <1>1, <1>3 DEF AreListings
<1>5. /\ S \subseteq Created /\ own[p] \in S
      /\ Cardinality(files \cap S) <= retained[p] /\ Bytes(files \cap S) <= total[p]
      /\ ShouldRemove(p) => files \cap S \subseteq {own[p]}
  BY <1>2, <1>4 DEF IsListing
<1> HIDE DEF S
<1>6. IsBounded(files \cap S)
  <2>1. CASE ShouldRemove(p)
    <3>1. own[p] \in Name
      BY <1>5 DEF Created
    <3>2. IsBounded({own[p]}) /\ files \cap S \subseteq {own[p]} /\ {own[p]} \subseteq Name
      BY <1>5, <2>1, <3>1, BoundedSingle DEF IInv
    <3> QED
      BY <3>2, BoundedSubset
  <2>2. CASE ~ShouldRemove(p)
    <3>1. files \cap S \subseteq Name
      BY DEF IInv, TypeOK
    <3>2. Cardinality(files \cap S) \in Nat /\ Bytes(files \cap S) \in Nat
      BY <3>1, NamesAreFinite, BytesAreFinite
    <3>3. retained[p] \in Nat /\ total[p] \in Int
      BY DEF IInv, TypeOK
    <3> QED
      BY <1>5, <2>2, <3>2, <3>3, LimitAssumption DEF ShouldRemove, IsBounded
  <2> QED
    BY <2>1, <2>2
<1>7. IsListing(p, S)'
  <2>1. pc'[p] = "unmark" /\ IsBounded(files \cap S)'
    BY <1>2, <1>6 DEF IsBounded, Bytes, IInv, TypeOK
  <2> QED
    BY <1>2, <1>3, <1>5, <2>1 DEF IsListing
<1>8. ASSUME NEW q \in Process, q \in Pruners'
      PROVE  q \in Pruners /\ IsListing(q, seen[q])'
  <2>1. CASE q = p
    BY <1>3, <1>7, <2>1 DEF S
  <2>2. CASE q # p
    <3>1. pc'[q] = pc[q] /\ listed'[q] = listed[q]
      BY <1>2, <2>2 DEF IInv, TypeOK
    <3>2. q \in Pruners
      BY <1>8, <3>1 DEF Pruners
    <3>3. IsListing(q, seen[q])
      BY <1>1, <3>2 DEF AreListings
    <3> QED
      BY <1>2, <1>3, <3>1, <3>2, <3>3, ListingStays DEF IInv
  <2> QED
    BY <2>1, <2>2
<1>9. AreListings(seen, settled)'
  BY <1>1, <1>2, <1>3, <1>8, ListingsOutlast DEF IInv
<1> QED
  BY <1>9 DEF ListingsAreNested

(* The listing of a commit that returns bounds all that was committed, if  *)
(* no later one of a commit that has returned does.                        *)
LEMMA CommittedListing ==
  ASSUME IInv, NEW p \in Process, Ends(p), size' = size,
         pc[p] = "unmark", committed' = committed \cup {own[p]}
  PROVE  ListingsAreNested'
<1>1. PICK seen \in [Process -> SUBSET Name], settled \in SUBSET Name : AreListings(seen, settled)
  BY DEF IInv, ListingsAreNested
<1> DEFINE S == seen[p]
<1>2. /\ UNCHANGED <<files, contents>> /\ pc' = [pc EXCEPT ![p] = "idle"]
      /\ \A q \in Process : q # p =>
           /\ own'[q] = own[q] /\ listed'[q] = listed[q]
           /\ retained'[q] = retained[q] /\ total'[q] = total[q]
  BY EndSteps DEF EndRun, Goto, IInv, TypeOK, diskVars
<1>3. Created' = Created /\ Lessens /\ p \in Pruners /\ S \in SUBSET Name
  BY <1>2 DEF Created, Lessens, Pruners
<1>4. /\ S \subseteq Created /\ own[p] \in S /\ IsBounded(files \cap S) /\ IsNested(S, settled)
      /\ settled \subseteq Created /\ files \cap committed \subseteq settled
      /\ IsBounded(files \cap settled)
  BY <1>1, <1>3 DEF AreListings, IsListing
<1>5. ASSUME NEW q \in Process, q \in Pruners'
      PROVE  /\ IsListing(q, seen[q])' /\ IsNested(seen[q], settled)' /\ IsNested(seen[q], S)'
             /\ \A r \in Pruners' : IsNested(seen[q], seen[r])'
  <2>1. q # p /\ pc'[q] = pc[q]
    BY <1>2, <1>5 DEF Pruners, IInv, TypeOK
  <2>2. q \in Pruners /\ Pruners' \subseteq Pruners
    BY <1>2, <1>5, <2>1 DEF Pruners, IInv, TypeOK
  <2>3. IsListing(q, seen[q])'
    BY <1>1, <1>2, <1>3, <2>1, <2>2, ListingStays DEF AreListings, IInv
  <2>4. \A r \in Pruners : IsNested(seen[q], seen[r])' /\ IsNested(seen[q], settled)'
    BY <1>1, <1>2, <2>2 DEF AreListings, IsNested
  <2> QED
    BY <1>3, <2>2, <2>3, <2>4
<1>6. IsBounded(files \cap S)' /\ IsBounded(files \cap settled)'
  BY <1>2, <1>4 DEF IsBounded, Bytes
<1> HIDE DEF S
<1>7. CASE files \cap settled \subseteq S
  <2>1. AreListings(seen, S)'
    BY <1>2, <1>3, <1>4, <1>5, <1>6, <1>7 DEF AreListings, Pruners
  <2> QED
    BY <1>3, <2>1 DEF ListingsAreNested
<1>8. CASE files \cap S \subseteq settled
  <2>1. AreListings(seen, settled)'
    BY <1>2, <1>3, <1>4, <1>5, <1>6, <1>8 DEF AreListings, Pruners
  <2> QED
    BY <2>1 DEF ListingsAreNested
<1> QED
  BY <1>4, <1>7, <1>8 DEF IsNested

LEMMA ListingsStay ==
  ASSUME IInv, [Next]_vars
  PROVE  ListingsAreNested'
<1>0. size' = size
  BY Steps
<1>1. ASSUME UNCHANGED <<files, contents, committed>>, \A p \in Process : KeepsListing(p)
      PROVE  ListingsAreNested'
  BY <1>0, <1>1, KeptListingsStay DEF Lessens, Created
<1>2. ASSUME NEW p \in Process, Loads(p)
      PROVE  ListingsAreNested'
  <2>1. UNCHANGED <<files, contents, own, retained, total, committed>>
        /\ \A q \in Process : q # p => pc'[q] = pc[q] /\ listed'[q] = listed[q]
    BY <1>2, LoadSteps DEF IInv, TypeOK, diskVars, commitVars
  <2>2. pc'[p] \notin {"prune", "unmark"}
    BY <1>2, LoadSteps DEF IInv
  <2> QED
    BY <1>1, <2>1, <2>2 DEF KeepsListing
<1>3. ASSUME NEW p \in Process, Ends(p)
      PROVE  ListingsAreNested'
  <2>1. CASE committed' = committed
    <3>1. /\ UNCHANGED <<files, contents>> /\ pc'[p] = "idle"
          /\ \A q \in Process : q # p =>
               /\ pc'[q] = pc[q] /\ own'[q] = own[q] /\ listed'[q] = listed[q]
               /\ retained'[q] = retained[q] /\ total'[q] = total[q]
      BY <1>3, EndSteps DEF EndRun, Goto, IInv, TypeOK, diskVars
    <3> QED
      BY <1>1, <2>1, <3>1 DEF KeepsListing
  <2>2. CASE pc[p] = "unmark" /\ committed' = committed \cup {own[p]}
    BY <1>0, <1>3, <2>2, CommittedListing
  <2> QED
    BY <1>3, <2>1, <2>2, EndSteps
<1>4. ASSUME NEW p \in Process, NameGeneration(p) \/ CreateMarker(p) \/ PruneMarker(p)
      PROVE  ListingsAreNested'
  <2>1. /\ UNCHANGED <<files, contents, retained, total, committed>>
        /\ pc'[p] \in {"prune", "unmark"} => pc'[p] = pc[p] /\ pc[p] # "prune" /\ own'[p] = own[p]
        /\ \A q \in Process : q # p =>
             pc'[q] = pc[q] /\ own'[q] = own[q] /\ listed'[q] = listed[q]
    BY <1>4 DEF NameGeneration, CreateMarker, PruneMarker, At, Goto, IInv, TypeOK, diskVars,
                commitVars, historyVars
  <2> QED
    BY <1>1, <2>1 DEF KeepsListing
<1>5. ASSUME NEW p \in Process, CreateGeneration(p)
      PROVE  ListingsAreNested'
  <2>1. /\ own[p] \notin Created /\ version[p] # Unwritten /\ own[p] \in Name
        /\ files' = files \cup {own[p]} /\ contents' = [contents EXCEPT ![own[p]] = version[p]]
        /\ UNCHANGED <<own, retained, total, listed, committed>>
        /\ pc' = [pc EXCEPT ![p] = "mark"]
    BY <1>5, VersionAssumption DEF CreateGeneration, At, Goto, IInv, TypeOK, NamesAreUsedOnce,
       Committing, commitVars
  <2>2. Lessens
    BY <1>0, <2>1 DEF Lessens, Created, IInv, TypeOK
  <2>3. \A q \in Process : KeepsListing(q)
    BY <2>1 DEF KeepsListing, IInv, TypeOK
  <2> QED
    BY <2>1, <2>2, <2>3, KeptListingsStay
<1>6. ASSUME Lessens, UNCHANGED <<pc, own, listed, retained, total, committed>>
      PROVE  ListingsAreNested'
  BY <1>6, KeptListingsStay DEF KeepsListing
<1>7. ASSUME NEW g \in Name, Damage(g)
      PROVE  ListingsAreNested'
  <2>1. Lessens
    BY <1>0, <1>7 DEF Damage, Damaged, Unwritten, Lessens, Created, IInv, TypeOK
  <2> QED
    BY <1>6, <1>7, <2>1 DEF Damage, commitVars
<1>8. CASE Clean
  BY <1>0, <1>6, <1>8 DEF Clean, Lessens, Created, commitVars
<1>9. CASE SetClockBack \/ UNCHANGED vars
  BY <1>0, <1>6, <1>9 DEF SetClockBack, Lessens, Created, vars, diskVars, commitVars, historyVars
<1> QED
  BY <1>0, <1>2, <1>3, <1>4, <1>5, <1>7, <1>8, <1>9, Steps, NewListing, PrunedListing,
     FinishedListing
-----------------------------------------------------------------------------
(* The newest generation                                                   *)

(* A step that neither creates, removes nor lists anything of it.          *)
LEMMA NewestIsLeftAlone ==
  ASSUME IInv, Created' = Created, ~contested' => ~contested,
         \A p \in Process : /\ pc'[p] \in Committing => pc[p] \in Committing
                            /\ pc'[p] \in Writing => pc[p] \in Writing /\ own'[p] = own[p]
                            /\ pc'[p] \in Writing \ {"mark"} => pc[p] \in Writing \ {"mark"}
                            /\ pc'[p] = "unmark" =>
                                 pc[p] = "unmark" /\ listed'[p] \subseteq listed[p],
         NewestCreated \in committed' =>
           \/ NewestCreated \in committed
           \/ \E p \in Process : pc[p] \in Writing \ {"mark"},
         ~contested' /\ ~spoiled' /\ NewestCreated # 0 =>
           /\ ~spoiled
           /\ NewestCreated \in files => NewestCreated \in files'
           /\ contents[NewestCreated] \in Version => contents'[NewestCreated] \in Version
           /\ NewestCreated \in markers => NewestCreated \in markers'
  PROVE  NewestStays'
<1>1. NewestCreated' = NewestCreated
  BY NewestUnchanged
<1>2. CASE contested'
  BY <1>2 DEF NewestStays
<1>3. CASE ~contested'
  <2>1. /\ \A p \in Process : pc[p] \in Writing => own[p] = NewestCreated
        /\ \A p, q \in Process : pc[p] \in Committing /\ pc[q] \in Writing => p = q
    BY <1>3 DEF IInv, NewestStays
  <2>2. /\ \A p \in Process : pc'[p] \in Writing => own'[p] = NewestCreated
        /\ \A p, q \in Process : pc'[p] \in Committing /\ pc'[q] \in Writing => p = q
    BY <2>1
  <2>3. ASSUME ~spoiled', NewestCreated # 0
        PROVE  /\ NewestCreated \in files' /\ contents'[NewestCreated] \in Version
               /\ \/ NewestCreated \in committed'
                  \/ \E p \in Process : pc'[p] \in Writing \ {"mark"}
                  => NewestCreated \in markers'
               /\ \A p \in Process : pc'[p] = "unmark" => NewestCreated \notin listed'[p]
    <3>1. /\ NewestCreated \in files /\ contents[NewestCreated] \in Version
          /\ \/ NewestCreated \in committed
             \/ \E p \in Process : pc[p] \in Writing \ {"mark"}
             => NewestCreated \in markers
          /\ \A p \in Process : pc[p] = "unmark" => NewestCreated \notin listed[p]
      BY <1>3, <2>3 DEF IInv, NewestStays
    <3>2. \A p \in Process : pc'[p] = "unmark" => NewestCreated \notin listed'[p]
      BY <3>1
    <3>3. NewestCreated \in files' /\ contents'[NewestCreated] \in Version
      BY <1>3, <2>3, <3>1
    <3>4. NewestCreated \in markers => NewestCreated \in markers'
      BY <1>3, <2>3
    <3>5. \/ NewestCreated \in committed'
          \/ \E p \in Process : pc'[p] \in Writing \ {"mark"}
          => NewestCreated \in markers'
      BY <3>1, <3>4
    <3> QED
      BY <3>2, <3>3, <3>5
  <2> QED
    BY <1>1, <2>2, <2>3 DEF NewestStays
<1> QED
  BY <1>2, <1>3

LEMMA NewestIsCreated ==
  ASSUME IInv, NEW p \in Process, CreateGeneration(p)
  PROVE  NewestStays'
<1>1. /\ own[p] \in Name /\ own[p] \notin Created /\ own[p] \notin committed
      /\ pc' = [pc EXCEPT ![p] = "mark"] /\ files' = files \cup {own[p]}
      /\ contents' = [contents EXCEPT ![own[p]] = version[p]]
      /\ version[p] \in Version /\ UNCHANGED <<own, committed>>
  BY DEF CreateGeneration, At, Goto, IInv, TypeOK, NamesAreUsedOnce, Committing, commitVars
<1>2. CASE ~(own[p] > NewestCreated)
  BY <1>2 DEF CreateGeneration, NewestStays
<1>3. CASE own[p] > NewestCreated /\ \E q \in Process \ {p} : pc[q] \in Committing
  BY <1>3 DEF CreateGeneration, NewestStays
<1>4. CASE own[p] > NewestCreated /\ \A q \in Process \ {p} : pc[q] \notin Committing
  <2>1. Created' = Created \cup {own[p]}
    BY <1>1, VersionAssumption DEF Created, IInv, TypeOK
  <2>2. NewestCreated' = Max({0} \cup Created \cup {own[p]})
    <3>1. NewestCreated' = Max({0} \cup Created')
      BY DEF NewestCreated, Created
    <3>2. {0} \cup Created' = {0} \cup Created \cup {own[p]}
      BY <2>1
    <3> QED
      BY <3>1, <3>2
  <2>3. NewestCreated' = own[p]
    <3> DEFINE all == {0} \cup Created \cup {own[p]}
    <3>1. all \subseteq 0..MaxName /\ all # {} /\ MaxName \in Nat
      BY <1>1, LimitAssumption DEF Created, Name
    <3>2. own[p] \in all /\ \A g \in all \ {own[p]} : g < own[p]
      BY <1>1, <1>4, NewestOf DEF IInv, Created, Name
    <3> HIDE DEF all
    <3>3. Max(all) \in all /\ \A g \in all : g <= Max(all)
      BY <3>1, MaxOf
    <3>4. Max(all) = own[p]
      <4>1. Max(all) \in Nat /\ own[p] \in Nat /\ own[p] <= Max(all)
        <5>1. all \subseteq Nat
          BY <3>1
        <5> QED
          BY <3>2, <3>3, <5>1, Zenon
      <4>2. Max(all) # own[p] => Max(all) < own[p]
        BY <3>2, <3>3
      <4> QED
        BY <4>1, <4>2
    <3> QED
      BY <2>2, <3>4 DEF all
  <2>4. \A q \in Process : q # p => pc'[q] \notin Committing
    BY <1>1, <1>4 DEF IInv, TypeOK
  <2>5. pc'[p] = "mark" /\ own'[p] = own[p] /\ contents'[own[p]] \in Version /\ own[p] \in files'
        /\ own[p] \notin committed'
    BY <1>1 DEF IInv, TypeOK
  <2>6. \A q \in Process : pc'[q] \in Writing => q = p
    BY <2>4 DEF Writing
  <2>7. \A q \in Process : pc'[q] \notin Writing \ {"mark"} /\ pc'[q] # "unmark"
    BY <2>5, <2>6 DEF Writing, Committing
  <2> QED
    BY <2>3, <2>4, <2>5, <2>6, <2>7 DEF NewestStays
<1> QED
  BY <1>2, <1>3, <1>4

LEMMA NewestStaysOn ==
  ASSUME IInv, [Next]_vars
  PROVE  NewestStays'
<1>0. 0 \notin Name /\ NewestCreated \in Nat /\ (\A g \in Created : g <= NewestCreated)
      /\ Created \subseteq Name /\ NewestCreated \in Created \cup {0}
  BY NewestOf DEF Name, Created, IInv
<1>1. ASSUME NEW p \in Process, Loads(p)
      PROVE  NewestStays'
  <2>1. UNCHANGED <<files, contents, markers, own, committed, contested, spoiled>>
        /\ \A q \in Process : q # p => pc'[q] = pc[q] /\ listed'[q] = listed[q]
    BY <1>1, LoadSteps DEF IInv, TypeOK, diskVars, commitVars
  <2>2. pc'[p] \notin Committing
    BY <1>1, LoadSteps DEF IInv, Committing
  <2> QED
    BY <2>1, <2>2, NewestIsLeftAlone DEF Created, Writing, Committing
<1>2. ASSUME NEW p \in Process, Ends(p)
      PROVE  NewestStays'
  <2>1. /\ UNCHANGED <<files, contents, markers, contested, spoiled>> /\ pc'[p] = "idle"
        /\ \A q \in Process : q # p =>
             pc'[q] = pc[q] /\ own'[q] = own[q] /\ listed'[q] = listed[q]
        /\ \/ committed' = committed
           \/ pc[p] = "unmark" /\ committed' = committed \cup {own[p]}
    BY <1>2, EndSteps DEF EndRun, Goto, IInv, TypeOK, diskVars
  <2>2. NewestCreated \in committed' =>
          \/ NewestCreated \in committed
          \/ \E q \in Process : pc[q] \in Writing \ {"mark"}
    BY <2>1 DEF Writing, Committing
  <2> QED
    BY <2>1, <2>2, NewestIsLeftAlone DEF Created, Writing, Committing
<1>3. ASSUME NEW p \in Process, NameGeneration(p)
      PROVE  NewestStays'
  <2>1. /\ UNCHANGED <<files, contents, markers, listed, committed, spoiled>>
        /\ pc[p] = "loaded" /\ pc'[p] = "create"
        /\ \A q \in Process : q # p => pc'[q] = pc[q] /\ own'[q] = own[q]
        /\ contested' = (contested \/ \E q \in Process : own[q] = NewestCreated)
    BY <1>3 DEF NameGeneration, At, Goto, IInv, TypeOK, diskVars
  <2>2. NewestCreated' = NewestCreated
    BY <2>1, NewestUnchanged DEF Created
  <2>3. CASE contested'
    BY <2>3 DEF NewestStays
  <2>4. CASE ~contested'
    <3>1. \A q \in Process : pc[q] \notin Writing
      BY <2>1, <2>4 DEF IInv, NewestStays
    <3>2. \A q \in Process : pc'[q] \notin Writing /\ pc'[q] # "unmark"
      BY <2>1, <3>1 DEF Writing, Committing
    <3> QED
      BY <2>1, <2>2, <2>4, <3>1, <3>2 DEF NewestStays, IInv
  <2> QED
    BY <2>3, <2>4
<1>4. ASSUME NEW p \in Process, CreateMarker(p)
      PROVE  NewestStays'
  <2>1. /\ UNCHANGED <<files, contents, own, listed, committed, contested, spoiled>>
        /\ pc[p] = "mark" /\ pc'[p] = "list" /\ markers' = markers \cup {own[p]}
        /\ \A q \in Process : q # p => pc'[q] = pc[q]
    BY <1>4 DEF CreateMarker, At, Goto, IInv, TypeOK, commitVars, historyVars
  <2>2. NewestCreated' = NewestCreated
    BY <2>1, NewestUnchanged DEF Created
  <2>3. CASE contested'
    BY <2>3 DEF NewestStays
  <2>4. CASE ~contested'
    <3>1. /\ \A q \in Process : pc[q] \in Writing => own[q] = NewestCreated
          /\ \A q, r \in Process : pc[q] \in Committing /\ pc[r] \in Writing => q = r
      BY <2>1, <2>4 DEF IInv, NewestStays
    <3>2. \A q \in Process : /\ pc'[q] \in Committing => pc[q] \in Committing
                             /\ pc'[q] \in Writing => pc[q] \in Writing
                             /\ pc'[q] = "unmark" => pc[q] = "unmark"
      BY <2>1 DEF Writing, Committing
    <3>3. NewestCreated \in markers'
      BY <2>1, <3>1 DEF Writing, Committing
    <3> QED
      BY <2>1, <2>2, <2>4, <3>1, <3>2, <3>3 DEF NewestStays, IInv
  <2> QED
    BY <2>3, <2>4
<1>5. ASSUME NEW p \in Process, ListGenerations(p)
      PROVE  NewestStays'
  <2>1. /\ UNCHANGED <<files, contents, markers, own, committed, contested, spoiled>>
        /\ pc[p] = "list" /\ pc'[p] = "prune"
        /\ \A q \in Process : q # p => pc'[q] = pc[q] /\ listed'[q] = listed[q]
    BY <1>5 DEF ListGenerations, At, Goto, IInv, TypeOK, diskVars, commitVars, historyVars
  <2> QED
    BY <2>1, NewestIsLeftAlone DEF Created, Writing, Committing
<1>6. ASSUME NEW p \in Process, Prune(p)
      PROVE  NewestStays'
  <2>1. /\ UNCHANGED <<pc, contents, markers, own, committed, contested, spoiled>>
        /\ pc[p] = "prune" /\ \A q \in Process : listed'[q] \subseteq listed[q]
    BY <1>6 DEF Prune, At, IInv, TypeOK
  <2>2. ~contested' /\ NewestCreated \in files => NewestCreated \in files'
    <3>1. \A g \in files \ files' : g # own[p]
      BY <1>6 DEF Prune
    <3>2. ~contested => own[p] = NewestCreated
      BY <2>1 DEF IInv, NewestStays, Writing, Committing
    <3> QED
      BY <2>1, <3>1, <3>2
  <2> QED
    BY <2>1, <2>2, NewestIsLeftAlone DEF Created
<1>7. ASSUME NEW p \in Process, ListMarkersToPrune(p)
      PROVE  NewestStays'
  <2>1. /\ UNCHANGED <<files, contents, markers, own, committed, contested, spoiled>>
        /\ pc[p] = "prune" /\ pc'[p] = "unmark"
        /\ \A q \in Process : q # p => pc'[q] = pc[q] /\ listed'[q] = listed[q]
        /\ listed'[p] = markers \ Newest(markers, RetainedGenerations)
    BY <1>7 DEF ListMarkersToPrune, At, Goto, IInv, TypeOK, diskVars, commitVars, historyVars
  <2>2. NewestCreated' = NewestCreated
    BY <2>1, NewestUnchanged DEF Created
  <2>3. NewestCreated \notin listed'[p]
    <3>1. markers \subseteq Created
      BY DEF IInv, NamesAreUsedOnce
    <3>2. {h \in markers : h > NewestCreated} = {}
      <4>1. ASSUME NEW h \in markers PROVE ~(h > NewestCreated)
        <5>1. h \in Name /\ h <= NewestCreated
          BY <1>0, <3>1
        <5> QED
          BY <1>0, <5>1 DEF Name
      <4> QED
        BY <4>1
    <3>3. Cardinality({h \in markers : h > NewestCreated}) < RetainedGenerations
      BY <3>2, FS_EmptySet, LimitAssumption
    <3> QED
      BY <2>1, <3>3 DEF Newest
  <2>4. CASE contested'
    BY <2>4 DEF NewestStays
  <2>5. CASE ~contested'
    <3>1. \A q \in Process :
            /\ pc'[q] \in Committing <=> pc[q] \in Committing
            /\ pc'[q] \in Writing <=> pc[q] \in Writing
            /\ pc'[q] \in Writing \ {"mark"} <=> pc[q] \in Writing \ {"mark"}
            /\ pc'[q] = "unmark" => q = p \/ (pc[q] = "unmark" /\ listed'[q] = listed[q])
      BY <2>1 DEF Writing, Committing
    <3> QED
      BY <2>1, <2>2, <2>3, <2>5, <3>1 DEF NewestStays, IInv
  <2> QED
    BY <2>4, <2>5
<1>8. ASSUME NEW p \in Process, PruneMarker(p)
      PROVE  NewestStays'
  <2> DEFINE g == Max(listed[p])
  <2>1. /\ UNCHANGED <<files, pc, contents, own, committed, contested, spoiled>>
        /\ pc[p] = "unmark" /\ \A q \in Process : listed'[q] \subseteq listed[q]
        /\ markers' = markers \ {g} /\ listed[p] # {}
    BY <1>8 DEF PruneMarker, At, IInv, TypeOK, commitVars, historyVars
  <2>2. g \in listed[p]
    <3>1. listed[p] \subseteq 0..MaxName /\ MaxName \in Nat
      BY LimitAssumption DEF IInv, TypeOK, Name
    <3> QED
      BY <2>1, <3>1, MaxOf
  <2>3. ~contested' /\ ~spoiled' /\ NewestCreated # 0 /\ NewestCreated \in markers =>
          NewestCreated \in markers'
    BY <2>1, <2>2 DEF IInv, NewestStays
  <2> QED
    BY <2>1, <2>3, NewestIsLeftAlone DEF Created
<1>9. ASSUME NEW g \in Name, Damage(g)
      PROVE  NewestStays'
  <2>1. Created' = Created
    <3>1. g \in Created /\ contents' = [contents EXCEPT ![g] = Damaged]
      BY <1>9 DEF Damage, IInv, NamesAreUsedOnce
    <3> QED
      BY <3>1 DEF Created, Damaged, Unwritten, IInv, TypeOK
  <2>2. /\ UNCHANGED <<files, markers, pc, own, listed, committed, contested>>
        /\ spoiled' = (spoiled \/ g = NewestCreated)
        /\ g # NewestCreated => contents'[NewestCreated] = contents[NewestCreated]
    BY <1>9 DEF Damage, commitVars, IInv, TypeOK
  <2> QED
    BY <2>1, <2>2, NewestIsLeftAlone
<1>10. CASE Clean
  BY <1>10, NewestIsLeftAlone DEF Clean, Created, commitVars
<1>11. CASE SetClockBack \/ UNCHANGED vars
  <2>1. UNCHANGED <<files, markers, contents, pc, own, listed, committed, contested, spoiled>>
    BY <1>11 DEF SetClockBack, vars, diskVars, commitVars, historyVars
  <2> QED
    BY <2>1, NewestIsLeftAlone DEF Created
<1> QED
  BY <1>1, <1>2, <1>3, <1>4, <1>5, <1>6, <1>7, <1>8, <1>9, <1>10, <1>11, Steps, NewestIsCreated
-----------------------------------------------------------------------------
(* Loads                                                                   *)

LEMMA NewestAreAll ==
  ASSUME NEW S, S \subseteq Name, NEW n \in Int, Cardinality(S) <= n
  PROVE  Newest(S, n) = S
<1>1. ASSUME NEW g \in S
      PROVE  Cardinality({h \in S : h > g}) < n
  <2> DEFINE newer == {h \in S : h > g}
  <2>1. newer \subseteq S \ {g} /\ S \ {g} \subseteq Name
    BY DEF Name
  <2>2. IsFiniteSet(S) /\ Cardinality(S \ {g}) \in Nat /\ Cardinality(newer) \in Nat
        /\ Cardinality(newer) <= Cardinality(S \ {g})
    BY <2>1, NamesAreFinite
  <2>3. Cardinality(S \ {g}) = Cardinality(S) - 1 /\ Cardinality(S) \in Nat
    BY <2>2, FS_RemoveElement, FS_CardinalityType
  <2> QED
    BY <2>2, <2>3
<1> QED
  BY <1>1 DEF Newest

LEMMA AllAreCandidates ==
  ASSUME NEW S, S \subseteq Name, NEW T, T \subseteq Name,
         Cardinality(S \cup T) <= MaxFilesToScan
  PROVE  /\ Newest(T, MaxFilesToScan) = T
         /\ Newest(S \ T, MaxFilesToScan - Cardinality(T)) = S \ T
<1> DEFINE rest == S \ T
<1>1. rest \subseteq Name /\ rest \cap T = {} /\ S \cup T = rest \cup T
  OBVIOUS
<1>2. /\ IsFiniteSet(rest) /\ IsFiniteSet(T) /\ Cardinality(rest) \in Nat /\ Cardinality(T) \in Nat
  BY NamesAreFinite
<1> HIDE DEF rest
<1>3. Cardinality(rest \cup T) = Cardinality(rest) + Cardinality(T)
  <2>1. Cardinality(rest \cup T) = Cardinality(rest) + Cardinality(T) - Cardinality(rest \cap T)
    BY <1>2, FS_Union
  <2>2. Cardinality(rest \cap T) = 0
    BY <1>1, FS_EmptySet
  <2> QED
    BY <1>2, <2>1, <2>2
<1>4. Cardinality(rest) + Cardinality(T) <= MaxFilesToScan /\ MaxFilesToScan \in Nat
  BY <1>1, <1>3, LimitAssumption
<1>5. /\ Cardinality(rest) <= MaxFilesToScan - Cardinality(T)
      /\ Cardinality(T) <= MaxFilesToScan
      /\ MaxFilesToScan - Cardinality(T) \in Int /\ MaxFilesToScan \in Int
  BY <1>2, <1>4
<1>6. Newest(T, MaxFilesToScan) = T
  BY <1>5, NewestAreAll
<1>7. Newest(rest, MaxFilesToScan - Cardinality(T)) = rest
  <2> DEFINE n == MaxFilesToScan - Cardinality(T)
  <2>1. n \in Int /\ Cardinality(rest) <= n
    BY <1>5
  <2> HIDE DEF n
  <2>2. Newest(rest, n) = rest
    BY <1>1, <2>1, NewestAreAll
  <2> QED
    BY <2>2 DEF n
<1> QED
  BY <1>6, <1>7 DEF rest

LEMMA KnowledgeStays ==
  ASSUME NEW p \in Process, KnowsWhatStays(p), version'[p] = version[p],
         steady'[p] \subseteq steady[p],
         steady'[p] # {} => UNCHANGED <<pc[p], marked[p], listed[p]>>,
         \A g \in steady'[p] : g \in files' /\ contents'[g] = contents[g]
  PROVE  KnowsWhatStays(p)'
<1>1. \A g \in steady'[p] : Usable(g, version[p])'
  BY DEF KnowsWhatStays, Usable
<1>2. /\ steady'[p] # {} => pc'[p] \in Loading
      /\ pc'[p] = "markers" => steady'[p] \subseteq listed'[p]
      /\ pc'[p] = "read" => steady'[p] \subseteq marked'[p] \cup listed'[p]
  BY DEF KnowsWhatStays, At
<1> QED
  BY <1>1, <1>2 DEF KnowsWhatStays, At

LEMMA KnowledgeGrows ==
  ASSUME IInv, FewCandidates, NEW p \in Process, KnowsWhatStays(p), Loads(p)
  PROVE  KnowsWhatStays(p)'
<1>1. UNCHANGED <<files, contents, version>>
  BY LoadSteps DEF IInv, diskVars
<1>2. CASE BeginLoad(p)
  <2>1. /\ pc'[p] = "markers" /\ listed'[p] = files
        /\ steady'[p] = {g \in files : Usable(g, version[p])}
    BY <1>2 DEF BeginLoad, Goto, IInv, TypeOK
  <2> QED
    BY <1>1, <2>1 DEF KnowsWhatStays, At, Usable, Loading
<1>3. CASE ListMarkers(p)
  <2>1. /\ pc[p] = "markers" /\ pc'[p] = "read" /\ steady' = steady
        /\ marked'[p] = Newest(markers, MaxFilesToScan)
        /\ listed'[p] = Newest(listed[p] \ markers, MaxFilesToScan - Cardinality(markers))
    BY <1>3 DEF ListMarkers, At, Goto, historyVars, IInv, TypeOK
  <2>2. /\ listed[p] \subseteq Name /\ markers \subseteq Name
        /\ Cardinality(listed[p] \cup markers) <= MaxFilesToScan
    BY <2>1 DEF FewCandidates, At, IInv, TypeOK
  <2>3. marked'[p] \cup listed'[p] = listed[p] \cup markers
    <3>1. /\ Newest(markers, MaxFilesToScan) = markers
          /\ Newest(listed[p] \ markers, MaxFilesToScan - Cardinality(markers))
             = listed[p] \ markers
      BY <2>2, AllAreCandidates
    <3> QED
      BY <2>1, <3>1
  <2>4. steady[p] \subseteq listed[p] /\ \A g \in steady[p] : Usable(g, version[p])
    BY <2>1 DEF KnowsWhatStays, At
  <2>5. pc'[p] # "markers" /\ pc'[p] \in Loading
    BY <2>1 DEF Loading
  <2> QED
    BY <1>1, <2>1, <2>3, <2>4, <2>5 DEF KnowsWhatStays, At, Usable
<1>4. CASE ReadCandidate(p)
  <2> DEFINE g == IF marked[p] # {} THEN Max(marked[p]) ELSE Max(listed[p])
  <2>1. CASE Usable(g, version[p])
    <3>1. steady'[p] = {} /\ pc'[p] = "loaded"
      BY <1>4, <2>1 DEF ReadCandidate, Goto, IInv, TypeOK
    <3> QED
      BY <3>1 DEF KnowsWhatStays, At
  <2>2. CASE ~Usable(g, version[p])
    <3>1. /\ UNCHANGED <<steady, pc>> /\ pc[p] = "read"
          /\ marked'[p] = marked[p] \ {g} /\ listed'[p] = listed[p] \ {g}
      BY <1>4, <2>2 DEF ReadCandidate, At, IInv, TypeOK
    <3> HIDE DEF g
    <3>2. g \notin steady[p] /\ steady[p] \subseteq marked[p] \cup listed[p]
      BY <2>2, <3>1 DEF KnowsWhatStays, At
    <3>3. steady'[p] \subseteq marked'[p] \cup listed'[p]
      BY <3>1, <3>2
    <3>4. \A h \in steady'[p] : Usable(h, version[p])'
      BY <1>1, <3>1 DEF KnowsWhatStays, Usable
    <3> QED
      BY <3>1, <3>3, <3>4 DEF KnowsWhatStays, At, Loading
  <2> QED
    BY <2>1, <2>2
<1>5. CASE LoadNothing(p)
  <2>1. steady'[p] = {} /\ pc'[p] = "loaded"
    BY <1>5 DEF LoadNothing, At, Goto, historyVars, KnowsWhatStays, IInv, TypeOK
  <2> QED
    BY <2>1 DEF KnowsWhatStays, At
<1> QED
  BY <1>2, <1>3, <1>4, <1>5 DEF Loads

LEMMA LoadsKnow ==
  ASSUME IInv, FewCandidates, LoadsKnowWhatStays, [Next]_vars
  PROVE  LoadsKnowWhatStays'
<1>0. SUFFICES ASSUME NEW q \in Process, ~KnowsWhatStays(q)' PROVE FALSE
  BY DEF LoadsKnowWhatStays
<1>1. KnowsWhatStays(q) /\ (steady[q] # {} => pc[q] \in Loading)
      /\ \A g \in steady[q] : g \in files
  BY DEF LoadsKnowWhatStays, KnowsWhatStays, Usable
<1>2. ASSUME NEW p \in Process, Loads(p)
      PROVE  FALSE
  <2>1. CASE q = p
    BY <1>0, <1>1, <1>2, <2>1, KnowledgeGrows
  <2>2. CASE q # p
    <3>1. UNCHANGED <<files, contents, version>>
          /\ pc'[q] = pc[q] /\ marked'[q] = marked[q]
          /\ listed'[q] = listed[q] /\ steady'[q] = steady[q]
      BY <1>2, <2>2, LoadSteps DEF IInv, TypeOK, diskVars
    <3> QED
      BY <1>0, <1>1, <3>1, KnowledgeStays
  <2> QED
    BY <2>1, <2>2
<1>3. ASSUME NEW p \in Process, Ends(p) \/ NameGeneration(p)
      PROVE  FALSE
  <2>1. /\ UNCHANGED <<files, contents, version>> /\ steady'[p] = {}
        /\ q # p => /\ pc'[q] = pc[q] /\ marked'[q] = marked[q]
                    /\ listed'[q] = listed[q] /\ steady'[q] = steady[q]
    BY <1>3, EndSteps DEF EndRun, Goto, NameGeneration, diskVars, IInv, TypeOK
  <2> QED
    BY <1>0, <1>1, <2>1, KnowledgeStays
<1>4. ASSUME NEW p \in Process, CreateGeneration(p)
      PROVE  FALSE
  <2>1. own[p] \notin files /\ pc[p] = "create"
    BY <1>4 DEF CreateGeneration, At, IInv, NamesAreUsedOnce
  <2>2. /\ files \subseteq files' /\ \A g \in files : contents'[g] = contents[g]
        /\ UNCHANGED <<version, steady>>
        /\ q # p => pc'[q] = pc[q] /\ marked'[q] = marked[q] /\ listed'[q] = listed[q]
    BY <1>4, <2>1 DEF CreateGeneration, Goto, loadVars, IInv, TypeOK
  <2>3. q = p => steady[q] = {}
    BY <1>1, <2>1 DEF Loading
  <2> QED
    BY <1>0, <1>1, <2>2, <2>3, KnowledgeStays
<1>5. ASSUME NEW p \in Process,
             CreateMarker(p) \/ ListGenerations(p) \/ ListMarkersToPrune(p) \/ PruneMarker(p)
      PROVE  FALSE
  <2>1. /\ pc[p] \in Committing /\ UNCHANGED <<files, contents, version, steady>>
        /\ q # p => pc'[q] = pc[q] /\ marked'[q] = marked[q] /\ listed'[q] = listed[q]
    BY <1>5 DEF CreateMarker, ListGenerations, ListMarkersToPrune, PruneMarker, At, Goto,
                Committing, diskVars, loadVars, historyVars, IInv, TypeOK
  <2>2. q = p => steady[q] = {}
    BY <1>1, <2>1 DEF Loading, Committing
  <2> QED
    BY <1>0, <1>1, <2>1, <2>2, KnowledgeStays
<1>6. ASSUME NEW p \in Process, Prune(p)
      PROVE  FALSE
  <2>1. /\ pc[p] = "prune" /\ UNCHANGED <<pc, contents, version, marked>>
        /\ q # p => listed'[q] = listed[q]
        /\ \/ UNCHANGED <<files, steady>>
           \/ \E g \in files : files' = files \ {g} /\ Lose({g})
    BY <1>6 DEF Prune, At, loadVars, IInv, TypeOK
  <2>2. q = p => steady[q] = {}
    BY <1>1, <2>1 DEF Loading
  <2>3. steady'[q] \subseteq steady[q] /\ \A g \in steady'[q] : g \in files'
    BY <1>1, <2>1 DEF Lose
  <2> QED
    BY <1>0, <1>1, <2>1, <2>2, <2>3, KnowledgeStays
<1>7. ASSUME NEW g \in Name, Damage(g)
      PROVE  FALSE
  <2>1. /\ UNCHANGED <<files, pc, version, marked, listed>> /\ steady'[q] = steady[q] \ {g}
        /\ \A h \in Name : h # g => contents'[h] = contents[h]
    BY <1>7 DEF Damage, Lose, loadVars, IInv, TypeOK
  <2>2. steady[q] \subseteq Name
    BY DEF IInv, TypeOK
  <2> QED
    BY <1>0, <1>1, <2>1, <2>2, KnowledgeStays
<1>8. CASE Clean
  <2>1. /\ UNCHANGED <<contents, pc, version, marked, listed>> /\ steady'[q] = steady[q] \ files
    BY <1>8 DEF Clean, Lose, loadVars
  <2> QED
    BY <1>0, <1>1, <2>1, KnowledgeStays
<1>9. CASE SetClockBack \/ UNCHANGED vars
  <2>1. UNCHANGED <<files, contents, pc, version, marked, listed, steady>>
    BY <1>9 DEF SetClockBack, vars, diskVars, loadVars, historyVars
  <2> QED
    BY <1>0, <1>1, <2>1, KnowledgeStays
<1> QED
  BY <1>2, <1>3, <1>4, <1>5, <1>6, <1>7, <1>8, <1>9, Steps
-----------------------------------------------------------------------------
(* The invariant                                                           *)

LEMMA InitEstablishes == Init => IInv /\ LoadsKnowWhatStays
<1> SUFFICES ASSUME Init PROVE IInv /\ LoadsKnowWhatStays
  OBVIOUS
<1>1. TypeOK
  <2>1. version \in [Process -> Version] /\ size \in [Name -> 1..MaxTotalBytes]
    BY LimitAssumption DEF Init
  <2>2. /\ contents \in [Name -> Version \cup {Unwritten, Damaged}]
        /\ pc \in [Process -> {"idle", "loaded"} \cup Loading \cup Committing]
        /\ own \in [Process -> 0..MaxName] /\ clock \in 0..MaxName /\ faults \in 0..MaxFaults
    BY LimitAssumption DEF Init
  <2>3. /\ files \subseteq Name /\ markers \subseteq Name /\ committed \subseteq Name
        /\ made \in BOOLEAN /\ contested \in BOOLEAN /\ spoiled \in BOOLEAN
    BY DEF Init
  <2>4. /\ marked \in [Process -> SUBSET Name] /\ listed \in [Process -> SUBSET Name]
        /\ answer \in [Process -> SUBSET Name] /\ steady \in [Process -> SUBSET Name]
        /\ retained \in [Process -> Nat] /\ total \in [Process -> Int]
        /\ \A p \in Process : pc[p] \notin Committing
    BY DEF Init, Committing
  <2> QED
    BY <2>1, <2>2, <2>3, <2>4 DEF TypeOK
<1>2. /\ Created = {} /\ \A p \in Process : pc[p] = "idle" /\ own[p] = 0
  BY DEF Init, Created
<1>3. NamesAreUsedOnce
  BY <1>2 DEF Init, NamesAreUsedOnce, Committing, Writing
<1>4. ListingsAreNested
  <2>1. IsBounded({})
    <3>1. BytesIn({}) = {} /\ Bytes({}) = Cardinality(BytesIn({}))
      BY BytesAreFinite DEF BytesIn
    <3>2. Cardinality({}) = 0 /\ Bytes({}) = 0
      BY <3>1, FS_EmptySet
    <3> QED
      BY <3>2, LimitAssumption DEF IsBounded
  <2>2. files \cap {} = {} /\ files \cap committed = {} /\ Pruners = {}
    BY <1>2 DEF Init, Pruners
  <2>3. AreListings([p \in Process |-> {}], {})
    BY <2>1, <2>2 DEF AreListings
  <2>4. [p \in Process |-> {}] \in [Process -> SUBSET Name]
    OBVIOUS
  <2> QED
    BY <2>3, <2>4 DEF ListingsAreNested
<1>5. NewestStays
  <2>1. NewestCreated = 0
    BY <1>1, <1>2, NewestOf
  <2> QED
    BY <1>2, <2>1 DEF NewestStays, Committing, Writing
<1>6. LoadsKnowWhatStays
  <2>1. \A p \in Process : steady[p] = {}
    BY DEF Init
  <2> QED
    BY <1>2, <2>1 DEF LoadsKnowWhatStays, KnowsWhatStays, At
<1> QED
  BY <1>1, <1>3, <1>4, <1>5, <1>6 DEF IInv

(* The invariant of the store, whatever processes run, crash and damage.   *)
THEOREM CacheInvariant == Spec => []IInv
<1>1. IInv /\ [Next]_vars => IInv'
  BY TypesStay, NamesStay, ListingsStay, NewestStaysOn DEF IInv
<1>2. Init => IInv
  BY InitEstablishes
<1> QED
  BY <1>1, <1>2, PTL DEF Spec

(* Every variable of the store keeps its type: what prune counts as        *)
(* retained never falls below zero.                                        *)
THEOREM CacheTypesCorrect == Spec => []TypeOK
<1>1. IInv => TypeOK
  BY DEF IInv
<1> QED
  BY <1>1, CacheInvariant, PTL

(* When no commit is under way, the generations whose commits have         *)
(* returned are within both limits of prune.                               *)
THEOREM RestingCacheStaysBounded == Spec => []RestingCacheIsBounded
<1>1. IInv => RestingCacheIsBounded
  <2>1. SUFFICES ASSUME IInv, \A p \in Process : pc[p] \notin Committing
                 PROVE  IsBounded(files \ Leftover)
    BY DEF RestingCacheIsBounded, IsBounded
  <2>2. PICK seen \in [Process -> SUBSET Name], settled \in SUBSET Name :
          AreListings(seen, settled)
    BY <2>1 DEF IInv, ListingsAreNested
  <2>3. files \ Leftover \subseteq files \cap settled
    BY <2>1, <2>2 DEF Leftover, AreListings
  <2>4. IsBounded(files \cap settled) /\ files \cap settled \subseteq Name
    BY <2>2 DEF AreListings
  <2> QED
    BY <2>3, <2>4, BoundedSubset
<1> QED
  BY <1>1, CacheInvariant, PTL

(* The newest generation, once its commit has returned, is what a load     *)
(* opens first, unless commits have met or others have touched it.         *)
THEOREM UncontestedCommitsStayActive == Spec => []UncontestedCommitIsActive
<1>1. IInv => UncontestedCommitIsActive
  <2>1. SUFFICES ASSUME IInv, NewestCreated \in committed, ~contested, ~spoiled
                 PROVE  IsActive(NewestCreated)
    BY DEF UncontestedCommitIsActive
  <2>2. /\ NewestCreated # 0 /\ NewestCreated \in Nat
        /\ \A g \in Created : g <= NewestCreated
    BY <2>1, NewestOf DEF IInv, TypeOK, Name
  <2>3. /\ NewestCreated \in files /\ contents[NewestCreated] \in Version
        /\ NewestCreated \in markers
    BY <2>1, <2>2 DEF IInv, NewestStays
  <2>4. NewestCreated = Max(markers)
    <3>1. markers \subseteq 0..MaxName /\ markers # {} /\ MaxName \in Nat
          /\ markers \subseteq Created
      BY <2>1, <2>3, LimitAssumption DEF IInv, TypeOK, NamesAreUsedOnce, Name
    <3>2. Max(markers) \in markers /\ \A g \in markers : g <= Max(markers)
      BY <3>1, MaxOf
    <3>3. Max(markers) \in 0..MaxName /\ Max(markers) <= NewestCreated
          /\ NewestCreated <= Max(markers)
      BY <2>2, <2>3, <3>1, <3>2
    <3> QED
      BY <2>2, <3>3
  <2> QED
    BY <2>3, <2>4 DEF IsActive
<1> QED
  BY <1>1, CacheInvariant, PTL

(* A load ends without a generation only if none was there, whole and of   *)
(* its version, all along: provided no load finds more candidates than     *)
(* max_generation_files_to_scan lets it open.                              *)
THEOREM LoadsFindWhatStays == Spec /\ []FewCandidates => []LoadFindsWhatStays
<1>1. IInv /\ FewCandidates /\ LoadsKnowWhatStays /\ [Next]_vars => LoadsKnowWhatStays'
  BY LoadsKnow
<1>2. Init => LoadsKnowWhatStays
  BY InitEstablishes
<1>3. LoadsKnowWhatStays => LoadFindsWhatStays
  BY DEF LoadsKnowWhatStays, KnowsWhatStays, LoadFindsWhatStays, At, Loading
<1> QED
  BY <1>1, <1>2, <1>3, CacheInvariant, PTL DEF Spec
-----------------------------------------------------------------------------
(* The promise                                                             *)

Held == {<<g, contents[g]>> : g \in {g \in files : contents[g] \in Version}}

Answers == [p \in Process |-> {<<g, version[p]>> : g \in answer[p]}]

(* The steps of the promise, over what the store holds and has answered.   *)
LEMMA PromisedSteps ==
  /\ UNCHANGED <<version, Held, Answers>> => UNCHANGED Promise!vars
  /\ version' = version /\ Answers' = Answers /\ Held' \subseteq Held => Promise!Forget
  /\ \A p \in Process :
       /\ /\ version' = version /\ Held' = Held
          /\ Answers' = [Answers EXCEPT ![p] = {}]
          => Promise!Drop(p)
       /\ \A found \in Held :
            /\ version' = version /\ Held' = Held
            /\ found[2] = version[p] /\ Answers' = [Answers EXCEPT ![p] = {found}]
            => Promise!Answer(p)
       /\ \A g \in Name :
            /\ version' = version /\ Answers' = Answers
            /\ (\A h \in Held : h[1] # g) /\ Held' = Held \cup {<<g, version[p]>>}
            => Promise!Commit(p)
<1>1. UNCHANGED <<version, Held, Answers>> => UNCHANGED Promise!vars
  BY DEF Promise!vars, Held, Answers
<1>2. version' = version /\ Answers' = Answers /\ Held' \subseteq Held => Promise!Forget
  BY DEF Promise!Forget, Held, Answers
<1>3. ASSUME NEW p \in Process, version' = version, Held' = Held,
             Answers' = [Answers EXCEPT ![p] = {}]
      PROVE  Promise!Drop(p)
  BY <1>3 DEF Promise!Drop, Held, Answers
<1>4. ASSUME NEW p \in Process, NEW found \in Held, version' = version, Held' = Held,
             found[2] = version[p], Answers' = [Answers EXCEPT ![p] = {found}]
      PROVE  Promise!Answer(p)
  <2>1. {found} \subseteq Held /\ \A g, h \in {found} : g = h
    BY <1>4
  <2> QED
    BY <1>4, <2>1 DEF Promise!Answer, Held, Answers
<1>5. ASSUME NEW p \in Process, NEW g \in Name, version' = version, Answers' = Answers,
             \A h \in Held : h[1] # g, Held' = Held \cup {<<g, version[p]>>}
      PROVE  Promise!Commit(p)
  BY <1>5 DEF Promise!Commit, Held, Answers
<1> QED
  BY <1>1, <1>2, <1>3, <1>4, <1>5
(* The generation a load ends with is held at that moment.                 *)
LEMMA AnswersAreHeld ==
  ASSUME TypeOK, NEW p \in Process, ReadCandidate(p)
  PROVE  Promise!Answer(p) \/ UNCHANGED Promise!vars
<1> DEFINE g == IF marked[p] # {} THEN Max(marked[p]) ELSE Max(listed[p])
<1>1. Held' = Held /\ version' = version
  BY DEF ReadCandidate, Held, diskVars
<1>2. CASE Usable(g, version[p])
  <2>1. answer' = [answer EXCEPT ![p] = {g}]
    BY <1>2 DEF ReadCandidate
  <2> HIDE DEF g
  <2>2. <<g, version[p]>> \in Held
    BY <1>2 DEF Usable, Held, TypeOK
  <2>3. Answers' = [Answers EXCEPT ![p] = {<<g, version[p]>>}]
    BY <1>1, <2>1 DEF Answers, TypeOK
  <2>4. <<g, version[p]>>[2] = version[p]
    OBVIOUS
  <2> QED
    BY <1>1, <2>2, <2>3, <2>4, PromisedSteps
<1>3. CASE ~Usable(g, version[p])
  <2>1. answer' = answer
    BY <1>3 DEF ReadCandidate
  <2> QED
    BY <1>1, <2>1, PromisedSteps DEF Answers
<1> QED
  BY <1>2, <1>3

LEMMA PromiseIsKept ==
  ASSUME IInv, [Next]_vars
  PROVE  [Promise!Next]_Promise!vars
<1>1. ASSUME UNCHANGED <<files, contents, version, answer>>
      PROVE  UNCHANGED Promise!vars
  BY <1>1, PromisedSteps DEF Held, Answers
<1>2. ASSUME NEW p \in Process, Loads(p)
      PROVE  Promise!Answer(p) \/ UNCHANGED Promise!vars
  <2>1. CASE ReadCandidate(p)
    BY <2>1, AnswersAreHeld DEF IInv
  <2>2. CASE BeginLoad(p) \/ ListMarkers(p) \/ LoadNothing(p)
    BY <1>1, <2>2 DEF BeginLoad, ListMarkers, LoadNothing, diskVars, loadVars
  <2> QED
    BY <1>2, <2>1, <2>2 DEF Loads
<1>3. ASSUME NEW p \in Process, Ends(p) \/ NameGeneration(p)
      PROVE  Promise!Drop(p)
  <2>1. UNCHANGED <<files, contents, version>> /\ answer' = [answer EXCEPT ![p] = {}]
    BY <1>3, EndSteps DEF EndRun, NameGeneration, diskVars
  <2>2. Held' = Held /\ Answers' = [Answers EXCEPT ![p] = {}]
    BY <2>1 DEF Held, Answers, IInv, TypeOK
  <2> QED
    BY <2>1, <2>2, PromisedSteps
<1>4. ASSUME NEW p \in Process, CreateGeneration(p)
      PROVE  Promise!Commit(p)
  <2>1. /\ own[p] \in Name /\ own[p] \notin files /\ version[p] \in Version
        /\ files' = files \cup {own[p]} /\ UNCHANGED <<version, answer>>
        /\ contents' = [contents EXCEPT ![own[p]] = version[p]]
    BY <1>4 DEF CreateGeneration, At, IInv, TypeOK, NamesAreUsedOnce, Committing, loadVars
  <2>2. Answers' = Answers
    BY <2>1 DEF Answers
  <2>3. \A h \in Held : h[1] # own[p]
    BY <2>1 DEF Held
  <2>4. Held' = Held \cup {<<own[p], version[p]>>}
    <3>1. /\ \A g \in files : contents'[g] = contents[g]
          /\ contents'[own[p]] = version[p]
      BY <2>1 DEF IInv, TypeOK
    <3>2. {g \in files' : contents'[g] \in Version}
            = {g \in files : contents[g] \in Version} \cup {own[p]}
      BY <2>1, <3>1
    <3> QED
      BY <3>1, <3>2 DEF Held
  <2> QED
    BY <2>1, <2>2, <2>3, <2>4, PromisedSteps
<1>5. ASSUME NEW p \in Process,
             \/ CreateMarker(p) \/ ListGenerations(p)
             \/ ListMarkersToPrune(p) \/ PruneMarker(p)
      PROVE  UNCHANGED Promise!vars
  BY <1>1, <1>5 DEF CreateMarker, ListGenerations, ListMarkersToPrune, PruneMarker, diskVars,
                    loadVars
<1>6. ASSUME files' \subseteq files, UNCHANGED <<version, answer>>,
             \A g \in files' : contents'[g] \in Version => contents'[g] = contents[g]
      PROVE  Promise!Forget
  <2>1. Held' \subseteq Held
    BY <1>6 DEF Held
  <2>2. Answers' = Answers
    BY <1>6 DEF Answers
  <2> QED
    BY <1>6, <2>1, <2>2, PromisedSteps
<1>7. ASSUME NEW p \in Process, Prune(p)
      PROVE  Promise!Forget
  BY <1>6, <1>7 DEF Prune, loadVars
<1>8. ASSUME NEW g \in Name, Damage(g)
      PROVE  Promise!Forget
  <2>1. Damaged \notin Version
    BY VersionAssumption
  <2> QED
    BY <1>6, <1>8, <2>1 DEF Damage, loadVars, IInv, TypeOK
<1>9. CASE Clean
  <2>1. files' = {} /\ UNCHANGED <<version, answer>>
    BY <1>9 DEF Clean, loadVars
  <2> QED
    BY <1>6, <2>1 DEF Promise!Next
<1>10. CASE SetClockBack \/ UNCHANGED vars
  BY <1>1, <1>10 DEF SetClockBack, vars, diskVars, loadVars
<1> QED
  BY <1>2, <1>3, <1>4, <1>5, <1>7, <1>8, <1>9, <1>10, Steps DEF Promise!Next

(* The store keeps the promise of Cache: a load answers with nothing or    *)
(* with a generation that is there, as a commit of the same schema and     *)
(* tool version wrote it, whatever is pruned, damaged or cleaned meanwhile.*)
THEOREM StoreKeepsItsPromise == Spec => ImplementsCache
<1>1. Init => Promise!Init
  <2>1. SUFFICES ASSUME Init PROVE Promise!Init
    OBVIOUS
  <2>2. version \in [Process -> Version]
    BY <2>1, LimitAssumption DEF Init
  <2>3. Held = {} /\ Answers = [p \in Process |-> {}]
    BY <2>1 DEF Init, Held, Answers
  <2> QED
    BY <2>2, <2>3 DEF Promise!Init, Held, Answers
<1>2. IInv /\ [Next]_vars => [Promise!Next]_Promise!vars
  BY PromiseIsKept
<1> QED
  BY <1>1, <1>2, CacheInvariant, PTL DEF Spec, ImplementsCache, Promise!Spec
=============================================================================
