---------------------------- MODULE TrainerProofs ----------------------------
(***************************************************************************)
(* Theorems about Trainer, for every population, elite count, set of cases *)
(* and of ratings, and whatever runners report.                            *)
(***************************************************************************)
EXTENDS Trainer, FiniteSetTheorems, TLAPS

-----------------------------------------------------------------------------
(* States of the application *)

\* Ids are distinct and the uid source is past them.
IdsBelow(p, u) ==
  /\ \A i \in Rows : p[i].id <= u
  /\ \A i, j \in Rows : i # j => p[i].id # p[j].id

\* What the operations on app_state keep, whichever is applied.
Sound(a) ==
  /\ a \in AppState
  /\ IdsBelow(a.population, a.uids)
  /\ \A i \in Rows : a.results[i] \in {Unrated, a.population[i].fit}
  /\ \A i \in Rows : a.timeouts[i] = Never <=> Complete(a.results[i])

\* Two states of the application work on the same generation.
SameGeneration(a, b) ==
  /\ a.generation = b.generation
  /\ a.population = b.population
  /\ a.uids = b.uids

\* An id of p that occurs in the set of genomes H names the same genome.
Names(H, p) == \A g \in H, i \in Rows : g.id = p[i].id => g = p[i]

LEMMA UnratedIsIncomplete ==
  /\ Unrated \in [Cases -> Ratings \cup {NaN}]
  /\ ~Complete(Unrated)
BY TrainerAssumption DEF Unrated, Complete

LEMMA TimeoutIsNotNever == Timeout \in 0 .. Timeout /\ Timeout # Never /\ 0 # Never
BY TrainerAssumption

\* A new generation has an empty results table and no row in hand.
LEMMA GenerationChangedSound ==
  ASSUME NEW a \in AppState,
         IdsBelow(a.population, a.uids)
  PROVE  Sound(GenerationChanged(a)) /\ SameGeneration(GenerationChanged(a), a)
<1> DEFINE b == GenerationChanged(a)
<1>1. /\ b \in [generation : {a.generation}, population : {a.population},
                uids : {a.uids}, index : {0},
                timeouts : {b.timeouts}, results : {b.results}]
      /\ b.timeouts = [i \in Rows |-> Timeout]
      /\ b.results = [i \in Rows |-> Unrated]
  BY DEF GenerationChanged, AppState
<1>2. 0 \in Rows
  BY TrainerAssumption DEF Rows
<1>3. b \in AppState
  <2>1. a.generation \in Nat /\ a.population \in [Rows -> Genome] /\ a.uids \in Nat
    BY DEF AppState
  <2>2. QED
    BY <1>1, <1>2, <2>1, UnratedIsIncomplete, TimeoutIsNotNever DEF AppState
<1>4. \A i \in Rows : b.results[i] = Unrated /\ b.timeouts[i] = Timeout
  BY <1>1
<1>5. SameGeneration(b, a)
  BY <1>1 DEF SameGeneration
<1>6. Sound(b)
  BY <1>3, <1>4, <1>5, UnratedIsIncomplete, TimeoutIsNotNever DEF Sound, SameGeneration
<1>7. QED
  BY <1>5, <1>6

\* Reports of delivered genomes fill rows with their own ratings, and a row
\* is ready when it is complete.
LEMMA RecordedSound ==
  ASSUME NEW a, Sound(a), NEW batch \in SUBSET Genome, Names(batch, a.population)
  PROVE  /\ Sound(MarkedReady(Recorded(a, batch)))
         /\ SameGeneration(MarkedReady(Recorded(a, batch)), a)
<1> DEFINE r == Recorded(a, batch)
           b == MarkedReady(r)
<1>1. a \in AppState
  BY DEF Sound
<1>2. /\ r \in [generation : {a.generation}, population : {a.population},
                uids : {a.uids}, index : {a.index},
                timeouts : {r.timeouts}, results : {r.results}]
      /\ r.results = [i \in Rows |->
           IF Reported(a, i, batch) = {} THEN a.results[i]
           ELSE (CHOOSE g \in Reported(a, i, batch) : TRUE).fit]
      /\ r.timeouts = [i \in Rows |->
           IF Reported(a, i, batch) = {} THEN a.timeouts[i] ELSE 0]
  BY <1>1 DEF Recorded, AppState
<1>3. /\ b \in [generation : {a.generation}, population : {a.population},
                uids : {a.uids}, index : {a.index},
                timeouts : {b.timeouts}, results : {r.results}]
      /\ b.timeouts = [i \in Rows |->
           IF Complete(r.results[i]) THEN Never ELSE r.timeouts[i]]
  BY <1>2 DEF MarkedReady
<1>4. ASSUME NEW i \in Rows
      PROVE  IF Reported(a, i, batch) = {}
               THEN r.results[i] = a.results[i] /\ r.timeouts[i] = a.timeouts[i]
               ELSE r.results[i] = a.population[i].fit /\ r.timeouts[i] = 0
  <2>1. CASE Reported(a, i, batch) # {}
    <3> DEFINE g == CHOOSE g \in Reported(a, i, batch) : TRUE
    <3>1. g \in Reported(a, i, batch)
      BY <2>1
    <3>2. g = a.population[i]
      BY <3>1 DEF Reported, Names
    <3>3. QED
      BY <1>2, <2>1, <3>2
  <2>2. CASE Reported(a, i, batch) = {}
    BY <1>2, <2>2
  <2>3. QED
    BY <2>1, <2>2
<1>5. ASSUME NEW i \in Rows
      PROVE  /\ r.results[i] \in {Unrated, a.population[i].fit}
             /\ Complete(a.results[i]) => Complete(r.results[i])
  BY <1>4, UnratedIsIncomplete DEF Sound
<1>6. ASSUME NEW i \in Rows
      PROVE  /\ a.results[i] \in [Cases -> Ratings \cup {NaN}]
             /\ a.population[i].fit \in [Cases -> Ratings \cup {NaN}]
             /\ a.timeouts[i] \in 0 .. Timeout \cup {Never}
  BY <1>1 DEF AppState, Genome
<1>7. ASSUME NEW i \in Rows
      PROVE  /\ b.timeouts[i] = Never <=> Complete(r.results[i])
             /\ b.timeouts[i] \in 0 .. Timeout \cup {Never}
  <2>1. r.timeouts[i] = Never => Complete(r.results[i])
    BY <1>4, <1>5, TimeoutIsNotNever DEF Sound
  <2>2. r.timeouts[i] \in 0 .. Timeout \cup {Never}
    BY <1>4, <1>6, TrainerAssumption
  <2>3. QED
    BY <1>3, <2>1, <2>2
<1>8. b.timeouts \in [Rows -> 0 .. Timeout \cup {Never}]
  BY <1>3, <1>7
<1>9. r.results \in [Rows -> [Cases -> Ratings \cup {NaN}]]
  BY <1>2, <1>4, <1>6
<1>10. b \in AppState
  BY <1>1, <1>3, <1>8, <1>9 DEF AppState
<1>11. SameGeneration(b, a)
  BY <1>3 DEF SameGeneration
<1>12. Sound(b)
  BY <1>3, <1>5, <1>7, <1>10, <1>11 DEF Sound, SameGeneration
<1>13. QED
  BY <1>11, <1>12

\* Filling a response marks the rows handed out and moves the cursor.
LEMMA HandedOutSound ==
  ASSUME NEW a, Sound(a), NEW capacity
  PROVE  /\ Sound(HandedOut(a, capacity))
         /\ SameGeneration(HandedOut(a, capacity), a)
         /\ Response(a, capacity) \in Replies
         /\ Response(a, capacity).generation = a.generation
         /\ \A g \in Response(a, capacity).data :
              \E i \in Rows : g = a.population[i]
<1> DEFINE b == HandedOut(a, capacity)
<1>1. a \in AppState
  BY DEF Sound
<1>2. \A n \in Nat : RowAt(a, n) \in Rows
  <2>1. a.index \in Rows /\ population_size \in Nat \ {0}
    BY <1>1, TrainerAssumption DEF AppState
  <2>2. \A x \in Nat : x % population_size \in 0 .. population_size - 1
    BY <2>1
  <2>3. \A n \in Nat : a.index + n \in Nat
    BY <2>1 DEF Rows
  <2>4. QED
    BY <2>2, <2>3 DEF RowAt, Rows
<1>3. Cardinality(Visits(a, capacity)) \in Nat
  <2>1. IsFiniteSet(Rows)
    BY TrainerAssumption, FS_Interval DEF Rows
  <2>2. Visits(a, capacity) \subseteq Rows
    BY DEF Visits
  <2>3. QED
    BY <2>1, <2>2, FS_Subset, FS_CardinalityType
<1>4. Picked(a, capacity) \subseteq Rows
  <2>1. Visits(a, capacity) \subseteq Nat
    BY DEF Visits, Rows
  <2>2. QED
    BY <1>2, <2>1 DEF Picked
<1>5. /\ b \in [generation : {a.generation}, population : {a.population},
                uids : {a.uids}, index : {b.index},
                timeouts : {b.timeouts}, results : {a.results}]
      /\ b.index = RowAt(a, Cardinality(Visits(a, capacity)))
      /\ b.timeouts = [i \in Rows |->
           IF i \in Picked(a, capacity) THEN 0 ELSE a.timeouts[i]]
  BY <1>1 DEF HandedOut, AppState
<1>6. b.index \in Rows
  BY <1>2, <1>3, <1>5
<1>7. ASSUME NEW i \in Rows
      PROVE  /\ b.timeouts[i] = Never <=> a.timeouts[i] = Never
             /\ b.timeouts[i] \in 0 .. Timeout \cup {Never}
  <2>1. i \in Picked(a, capacity) => a.timeouts[i] = Timeout
    BY DEF Picked, Expired
  <2>2. a.timeouts[i] \in 0 .. Timeout \cup {Never} /\ 0 \in 0 .. Timeout
    BY <1>1, TrainerAssumption DEF AppState
  <2>3. QED
    BY <1>5, <2>1, <2>2, TimeoutIsNotNever
<1>8. b.timeouts \in [Rows -> 0 .. Timeout \cup {Never}]
  BY <1>5, <1>7
<1>9. b \in AppState
  BY <1>1, <1>5, <1>6, <1>8 DEF AppState
<1>10. SameGeneration(b, a)
  BY <1>5 DEF SameGeneration
<1>11. Sound(b)
  BY <1>5, <1>7, <1>9, <1>10 DEF Sound, SameGeneration
<1>12. /\ Response(a, capacity) \in Replies
       /\ Response(a, capacity).generation = a.generation
       /\ \A g \in Response(a, capacity).data : \E i \in Rows : g = a.population[i]
  <2>1. \A i \in Picked(a, capacity) : a.population[i] \in Genome
    BY <1>1, <1>4 DEF AppState
  <2>2. a.generation \in Nat
    BY <1>1 DEF AppState
  <2>3. QED
    BY <1>4, <2>1, <2>2 DEF Response, Replies
<1>13. QED
  BY <1>10, <1>11, <1>12

\* Breeding keeps the elite and gives every child an id never drawn before.
LEMMA NextGenerationIds ==
  ASSUME NEW a, Sound(a), NEW b \in NextGenerations(a)
  PROVE  /\ b \in AppState
         /\ IdsBelow(b.population, b.uids)
         /\ a.uids <= b.uids
         /\ b.generation = a.generation + 1
         /\ \A i \in Rows : \/ \E j \in Rows : b.population[i] = a.population[j]
                            \/ b.population[i].id > a.uids
<1>1. a \in AppState /\ IdsBelow(a.population, a.uids)
  BY DEF Sound
<1>2. PICK inds \in Sorted(a), kids \in Children(a) :
        b = Bred(a, inds, kids)
  BY DEF NextGenerations
<1>3. /\ b \in [generation : {a.generation + 1}, population : {b.population},
                uids : {b.uids}, index : {a.index},
                timeouts : {a.timeouts}, results : {a.results}]
      /\ b.population = [i \in Rows |->
           IF i \in EliteRows THEN a.population[inds[i]] ELSE kids[i]]
      /\ b.uids = a.uids + population_size - elite_count
  BY <1>1, <1>2 DEF AppState, Bred
<1>4. /\ inds \in [Rows -> Rows]
      /\ \A i, j \in Rows : i # j => inds[i] # inds[j]
  BY DEF Sorted
<1>5. /\ kids \in [ChildRows ->
            [id : a.uids + 1 .. a.uids + population_size - elite_count,
             fit : [Cases -> Ratings \cup {NaN}]]]
      /\ \A i, j \in ChildRows : i # j => kids[i].id # kids[j].id
  BY DEF Children
<1>6. /\ population_size \in Nat /\ elite_count \in Nat
      /\ elite_count <= population_size /\ a.uids \in Nat
  BY <1>1, TrainerAssumption DEF AppState
<1>7. a.uids <= b.uids /\ b.uids \in Nat
  BY <1>3, <1>6
<1>8. \A i \in Rows : i \in EliteRows \/ i \in ChildRows
  BY <1>6 DEF Rows, EliteRows, ChildRows
<1>9. ASSUME NEW i \in EliteRows, i \in Rows
      PROVE  /\ b.population[i] = a.population[inds[i]] /\ inds[i] \in Rows
             /\ b.population[i] \in Genome
             /\ b.population[i].id \in Nat /\ b.population[i].id <= a.uids
  <2>1. b.population[i] = a.population[inds[i]] /\ inds[i] \in Rows
    BY <1>3, <1>4, <1>9
  <2>2. QED
    BY <1>1, <2>1 DEF AppState, IdsBelow, Genome
<1>10. ASSUME NEW i \in ChildRows, i \in Rows, i \notin EliteRows
       PROVE  /\ b.population[i] = kids[i]
              /\ b.population[i] \in Genome
              /\ b.population[i].id \in Nat
              /\ b.population[i].id > a.uids /\ b.population[i].id <= b.uids
  <2>1. b.population[i] = kids[i]
    BY <1>3, <1>10
  <2>2. kids[i] \in [id : a.uids + 1 .. a.uids + population_size - elite_count,
                     fit : [Cases -> Ratings \cup {NaN}]]
    BY <1>5
  <2>3. kids[i].id \in Nat /\ kids[i].id > a.uids /\ kids[i].id <= b.uids
    BY <1>3, <1>6, <2>2
  <2>4. kids[i] \in Genome
    BY <2>2, <2>3 DEF Genome
  <2>5. QED
    BY <2>1, <2>3, <2>4
<1>11. \A i \in Rows : b.population[i] \in Genome
  BY <1>8, <1>9, <1>10
<1>12. b.population \in [Rows -> Genome]
  BY <1>3, <1>11
<1>13. b \in AppState
  BY <1>1, <1>3, <1>7, <1>12 DEF AppState
<1>14. ASSUME NEW i \in Rows, NEW j \in Rows, i # j
       PROVE  b.population[i].id # b.population[j].id
  <2>1. CASE i \in EliteRows /\ j \in EliteRows
    BY <1>1, <1>4, <1>9, <1>14, <2>1 DEF IdsBelow
  <2>2. CASE i \in EliteRows /\ j \notin EliteRows
    BY <1>6, <1>8, <1>9, <1>10, <2>2
  <2>3. CASE i \notin EliteRows /\ j \in EliteRows
    BY <1>6, <1>8, <1>9, <1>10, <2>3
  <2>4. CASE i \notin EliteRows /\ j \notin EliteRows
    BY <1>5, <1>8, <1>10, <1>14, <2>4
  <2>5. QED
    BY <2>1, <2>2, <2>3, <2>4
<1>15. \A i \in Rows : b.population[i].id <= b.uids
  BY <1>6, <1>7, <1>8, <1>9, <1>10
<1>16. \A i \in Rows : \/ \E j \in Rows : b.population[i] = a.population[j]
                      \/ b.population[i].id > a.uids
  BY <1>8, <1>9, <1>10
<1>17. QED
  BY <1>3, <1>7, <1>13, <1>14, <1>15, <1>16 DEF IdsBelow

\* A new session: ids are drawn in the order of the rows.
LEMMA FreshSound ==
  ASSUME NEW a \in FreshStates
  PROVE  Sound(a) /\ a.generation = 0
<1>1. PICK p \in {q \in [Rows -> [id : 1 .. FreshUids,
                                 fit : [Cases -> Ratings \cup {NaN}]]] :
                   \A i, j \in Rows : i < j => q[i].id < q[j].id} :
        a = GenerationChanged(
              [generation |-> 0, population |-> p, uids |-> FreshUids, index |-> 0,
               timeouts |-> [i \in Rows |-> Timeout],
               results |-> [i \in Rows |-> Unrated]])
  BY DEF FreshStates
<1> DEFINE b == [generation |-> 0, population |-> p, uids |-> FreshUids, index |-> 0,
                 timeouts |-> [i \in Rows |-> Timeout],
                 results |-> [i \in Rows |-> Unrated]]
<1>2. FreshUids \in Nat
  BY TrainerAssumption, FS_CardinalityType DEF FreshUids
<1>3. /\ p \in [Rows -> [id : 1 .. FreshUids, fit : [Cases -> Ratings \cup {NaN}]]]
      /\ \A i, j \in Rows : i < j => p[i].id < p[j].id
  OBVIOUS
<1>4. \A i \in Rows : p[i] \in Genome /\ p[i].id \in Nat /\ p[i].id <= FreshUids
  BY <1>2, <1>3 DEF Genome
<1>5. IdsBelow(p, FreshUids)
  <2>1. ASSUME NEW i \in Rows, NEW j \in Rows, i # j
        PROVE  p[i].id # p[j].id
    <3>1. i < j \/ j < i
      BY <2>1 DEF Rows
    <3>2. QED
      BY <1>3, <1>4, <3>1
  <2>2. QED
    BY <1>4, <2>1 DEF IdsBelow
<1>6. p \in [Rows -> Genome]
  BY <1>3, <1>4
<1>7. 0 \in Rows
  BY TrainerAssumption DEF Rows
<1>8. b \in AppState
  BY <1>2, <1>6, <1>7, UnratedIsIncomplete, TimeoutIsNotNever DEF AppState
<1>9. IdsBelow(b.population, b.uids) /\ b.generation = 0
  BY <1>5
<1>10. QED
  BY <1>1, <1>8, <1>9, GenerationChangedSound DEF SameGeneration

\* A restart from a complete file works on the generation the file holds.
LEMMA RecoveredSound ==
  ASSUME NEW f \in Snapshot, IdsBelow(f.population, f.uids)
  PROVE  /\ Sound(Recovered(f))
         /\ SameGeneration(Recovered(f), f)
         /\ Saved(Recovered(f)) = f
<1> DEFINE b == [generation |-> f.generation, population |-> f.population,
                 uids |-> f.uids, index |-> 0,
                 timeouts |-> [i \in Rows |-> Timeout],
                 results |-> [i \in Rows |-> Unrated]]
<1>1. 0 \in Rows
  BY TrainerAssumption DEF Rows
<1>2. f.generation \in Nat /\ f.population \in [Rows -> Genome] /\ f.uids \in Nat
  BY DEF Snapshot
<1>3. b \in AppState
  BY <1>1, <1>2, UnratedIsIncomplete, TimeoutIsNotNever DEF AppState
<1>4. IdsBelow(b.population, b.uids) /\ Recovered(f) = GenerationChanged(b)
  BY DEF Recovered
<1>5. Sound(Recovered(f)) /\ SameGeneration(Recovered(f), b)
  BY <1>3, <1>4, GenerationChangedSound
<1>6. SameGeneration(Recovered(f), f)
  BY <1>5 DEF SameGeneration
<1>7. Saved(Recovered(f)) = f
  BY <1>6 DEF Saved, SameGeneration, Snapshot
<1>8. QED
  BY <1>5, <1>6, <1>7

-----------------------------------------------------------------------------
(* The inductive invariant *)

\* What runners have been given is named by ids that are spent, and an id of
\* it that population p has too names the same genome.
Covers(p, u) == Names(handed, p) /\ \A g \in handed : g.id <= u

HandedSound ==
  /\ Covers(s.population, s.uids)
  /\ \A g, h \in handed : g.id = h.id => g = h

\* A complete file could replace the state in memory at any time.
FileSound ==
  file \notin {NoFile, Torn} =>
    /\ IdsBelow(file.population, file.uids)
    /\ Covers(file.population, file.uids)
    /\ seen <= file.generation
    /\ file.generation <= s.generation

\* Without a file no runner has been given anything.
NothingHandedYet == file = NoFile => handed = {} /\ seen = 0

\* A response under way is about the population in memory.
ReplySound ==
  reply # NoReply =>
    /\ reply.generation = s.generation
    /\ \A g \in reply.data : \E i \in Rows : g = s.population[i]

Inv ==
  /\ TypeOK /\ Sound(s)
  /\ HandedSound /\ FileSound /\ NothingHandedYet /\ ReplySound
  /\ DiskIsCurrent
  /\ seen <= s.generation

LEMMA InitInv == Init => Inv
<1> SUFFICES ASSUME Init PROVE Inv
  OBVIOUS
<1>1. Sound(s) /\ s.generation = 0
  BY FreshSound DEF Init
<1>2. s \in AppState
  BY <1>1 DEF Sound
<1>3. handed \in SUBSET Genome /\ seen \in Nat
  BY DEF Init
<1>4. TypeOK
  BY <1>2, <1>3 DEF Init, TypeOK
<1>5. HandedSound /\ FileSound /\ NothingHandedYet /\ ReplySound /\ DiskIsCurrent
  BY DEF Init, HandedSound, Covers, Names, FileSound, NothingHandedYet, ReplySound,
         DiskIsCurrent
<1>6. seen <= s.generation
  BY <1>1 DEF Init
<1>7. QED
  BY <1>1, <1>4, <1>5, <1>6 DEF Inv

\* What the invariant says of the records in it.
LEMMA InvTypes ==
  ASSUME Inv
  PROVE  /\ s \in AppState /\ s.generation \in Nat /\ s.uids \in Nat
         /\ s.population \in [Rows -> Genome] /\ Saved(s) \in Snapshot
         /\ Saved(s) \notin {NoFile, Torn}
         /\ handed \in SUBSET Genome /\ seen \in Nat
         /\ file \notin {NoFile, Torn} => file \in Snapshot
         /\ reply # NoReply => reply \in Replies
<1>1. s \in AppState
  BY DEF Inv, TypeOK
<1>2. s.generation \in Nat /\ s.uids \in Nat /\ s.population \in [Rows -> Genome]
  BY <1>1 DEF AppState
<1>3. Saved(s) \in Snapshot
  BY <1>2 DEF Saved, Snapshot
<1>4. Saved(s) \notin {NoFile, Torn}
  BY <1>3, TrainerAssumption
<1>5. /\ handed \in SUBSET Genome /\ seen \in Nat
      /\ file \in Snapshot \cup {NoFile, Torn} /\ reply \in Replies \cup {NoReply}
  BY DEF Inv, TypeOK
<1>6. QED
  BY <1>1, <1>2, <1>3, <1>4, <1>5

\* A step that stays in the generation and leaves the file and the history
\* alone keeps all that is said of them.
LEMMA SameGenerationStep ==
  ASSUME Inv, Sound(s'), SameGeneration(s', s), UNCHANGED <<file, handed, seen>>,
         status' \in {"up", "fault", "refused"},
         saver' = saver, status' = "up" => status = "up",
         reply' \in Replies \cup {NoReply}, ReplySound'
  PROVE  Inv'
<1>1. s' \in AppState
  BY DEF Sound
<1>2. TypeOK'
  BY <1>1 DEF Inv, TypeOK
<1>3. HandedSound' /\ seen' <= s'.generation
  BY DEF Inv, HandedSound, Covers, Names, SameGeneration
<1>4. FileSound' /\ NothingHandedYet'
  BY DEF Inv, FileSound, Covers, Names, IdsBelow, NothingHandedYet, SameGeneration
<1>5. Saved(s') = Saved(s)
  BY DEF Saved, SameGeneration
<1>6. DiskIsCurrent'
  BY <1>5 DEF Inv, DiskIsCurrent
<1>7. QED
  BY <1>2, <1>3, <1>4, <1>6 DEF Inv

-----------------------------------------------------------------------------
(* The steps *)

\* A request that leaves the generation as it is.
LEMMA AnswerStep ==
  ASSUME Inv, NEW a, Sound(a), SameGeneration(a, s), NEW capacity,
         Answer(a, capacity), UNCHANGED <<status, saver, file, handed, seen>>
  PROVE  Inv'
<1>1. Sound(s') /\ SameGeneration(s', s)
  BY HandedOutSound DEF Answer, SameGeneration
<1>2. reply' \in Replies /\ ReplySound'
  BY <1>1, HandedOutSound DEF Answer, ReplySound, SameGeneration
<1>3. status \in {"up", "fault", "refused"}
  BY DEF Inv, TypeOK
<1>4. QED
  BY <1>1, <1>2, <1>3, SameGenerationStep

\* A request that completes the generation.
LEMMA BreedingStep ==
  ASSUME Inv, NEW a, Sound(a), SameGeneration(a, s), NEW b \in NextGenerations(a),
         NEW capacity, Answer(GenerationChanged(b), capacity),
         saver' = "opening", UNCHANGED <<status, file, handed, seen>>
  PROVE  Inv'
<1> DEFINE d == GenerationChanged(b)
<1>1. /\ b \in AppState /\ IdsBelow(b.population, b.uids)
      /\ a.uids <= b.uids /\ b.generation = a.generation + 1
      /\ \A i \in Rows : \/ \E j \in Rows : b.population[i] = a.population[j]
                         \/ b.population[i].id > a.uids
  BY NextGenerationIds
<1>2. Sound(d) /\ SameGeneration(d, b)
  BY <1>1, GenerationChangedSound
<1>3. Sound(s') /\ SameGeneration(s', b)
  BY <1>2, HandedOutSound DEF Answer, SameGeneration
<1>4. reply' \in Replies /\ ReplySound'
  BY <1>2, <1>3, HandedOutSound DEF Answer, ReplySound, SameGeneration
<1>5. TypeOK'
  BY <1>3, <1>4 DEF Inv, TypeOK, Sound
<1>6. \A g \in handed : g.id \in Nat /\ g.id <= s.uids
  BY InvTypes DEF Inv, HandedSound, Covers, Genome
<1>7. s.uids \in Nat /\ b.uids \in Nat /\ s.uids <= b.uids /\ a.uids = s.uids
  BY <1>1, InvTypes DEF SameGeneration, AppState
<1>8. \A g \in handed : g.id <= b.uids
  BY <1>6, <1>7
<1>9. Names(handed, b.population)
  <2> SUFFICES ASSUME NEW g \in handed, NEW i \in Rows, g.id = b.population[i].id
               PROVE  g = b.population[i]
    BY DEF Names
  <2>1. ~(b.population[i].id > a.uids)
    BY <1>6, <1>7
  <2>2. PICK j \in Rows : b.population[i] = s.population[j]
    BY <1>1, <2>1 DEF SameGeneration
  <2>3. QED
    BY <2>2 DEF Inv, HandedSound, Covers, Names
<1>10. HandedSound'
  BY <1>3, <1>8, <1>9 DEF Inv, HandedSound, Covers, Names, SameGeneration
<1>11. FileSound' /\ NothingHandedYet'
  <2>1. s'.generation = s.generation + 1 /\ s.generation \in Nat
    BY <1>1, <1>3, InvTypes DEF SameGeneration
  <2>2. file \notin {NoFile, Torn} =>
          file.generation \in Nat /\ file.generation <= s.generation
    BY InvTypes DEF Inv, FileSound, Snapshot
  <2>3. QED
    BY <2>1, <2>2 DEF Inv, FileSound, Covers, Names, IdsBelow, NothingHandedYet
<1>12. DiskIsCurrent'
  BY DEF DiskIsCurrent
<1>13. seen' <= s'.generation
  <2>1. s'.generation = s.generation + 1
    BY <1>1, <1>3 DEF SameGeneration
  <2>2. seen <= s.generation /\ seen \in Nat /\ s.generation \in Nat
    BY InvTypes DEF Inv
  <2>3. QED
    BY <2>1, <2>2
<1>14. QED
  BY <1>3, <1>4, <1>5, <1>10, <1>11, <1>12, <1>13 DEF Inv

LEMMA OnOutcomesStep ==
  ASSUME Inv, NEW batch \in Batches, NEW capacity, OnOutcomes(batch, capacity)
  PROVE  Inv'
<1> DEFINE a == MarkedReady(Recorded(s, batch))
<1>1. batch \in SUBSET Genome /\ Names(batch, s.population)
  BY InvTypes DEF Batches, Inv, HandedSound, Covers, Names
<1>2. Sound(a) /\ SameGeneration(a, s)
  BY <1>1, RecordedSound DEF Inv
<1>3. UNCHANGED <<file, handed, seen>> /\ status = "up" /\ reply = NoReply
  BY DEF OnOutcomes
<1>4. CASE Answer(a, capacity) /\ UNCHANGED <<status, saver>>
  BY <1>2, <1>3, <1>4, AnswerStep
<1>5. CASE /\ \E b \in NextGenerations(a) : Answer(GenerationChanged(b), capacity)
           /\ saver' = "opening" /\ UNCHANGED status
  BY <1>2, <1>3, <1>5, BreedingStep
<1>6. CASE status' = "fault" /\ s' = a /\ UNCHANGED <<saver, reply>>
  <2>1. ReplySound' /\ reply' \in Replies \cup {NoReply}
    BY <1>3, <1>6 DEF ReplySound
  <2>2. Sound(s') /\ SameGeneration(s', s)
    BY <1>2, <1>6
  <2>3. QED
    BY <1>3, <1>6, <2>1, <2>2, SameGenerationStep
<1>7. QED
  BY <1>4, <1>5, <1>6 DEF OnOutcomes

LEMMA TruncateStep ==
  ASSUME Inv, Truncate
  PROVE  Inv'
<1>1. /\ status = "up" /\ saver' = "writing" /\ file' = Torn
      /\ UNCHANGED <<status, s, reply, handed, seen>>
  BY DEF Truncate
<1>2. TypeOK'
  BY <1>1 DEF Inv, TypeOK
<1>3. Sound(s') /\ HandedSound' /\ ReplySound' /\ seen' <= s'.generation
  BY <1>1 DEF Inv, Sound, HandedSound, Covers, Names, ReplySound
<1>4. FileSound' /\ NothingHandedYet' /\ DiskIsCurrent'
  BY <1>1, TrainerAssumption DEF FileSound, NothingHandedYet, DiskIsCurrent
<1>5. QED
  BY <1>2, <1>3, <1>4 DEF Inv

LEMMA BackfillStep ==
  ASSUME Inv, Backfill
  PROVE  Inv'
<1>1. /\ status = "up" /\ saver' = "none" /\ file' = Saved(s)
      /\ UNCHANGED <<status, s, reply, handed, seen>>
  BY DEF Backfill
<1>2. TypeOK'
  BY <1>1, InvTypes DEF Inv, TypeOK
<1>3. Sound(s') /\ HandedSound' /\ ReplySound' /\ seen' <= s'.generation
  BY <1>1 DEF Inv, Sound, HandedSound, Covers, Names, ReplySound
<1>4. FileSound'
  <2>1. s.generation <= s.generation
    BY InvTypes
  <2>2. QED
    BY <1>1, <2>1 DEF Inv, Sound, HandedSound, Covers, Names, IdsBelow, FileSound, Saved
<1>5. NothingHandedYet' /\ DiskIsCurrent'
  BY <1>1, InvTypes DEF NothingHandedYet, DiskIsCurrent, Saved
<1>6. QED
  BY <1>2, <1>3, <1>4, <1>5 DEF Inv

LEMMA DeliverStep ==
  ASSUME Inv, Deliver
  PROVE  Inv'
<1>1. /\ status = "up" /\ saver = "none" /\ reply # NoReply /\ reply' = NoReply
      /\ handed' = handed \cup reply.data
      /\ seen' = IF reply.generation > seen THEN reply.generation ELSE seen
      /\ UNCHANGED <<status, s, saver, file>>
  BY DEF Deliver
<1>2. file = Saved(s)
  BY <1>1 DEF Inv, DiskIsCurrent
<1>3. /\ reply \in Replies /\ reply.generation = s.generation
      /\ \A g \in reply.data : \E i \in Rows : g = s.population[i]
  BY <1>1, InvTypes DEF Inv, ReplySound
<1>4. handed' \in SUBSET Genome /\ seen' \in Nat /\ seen' <= s.generation
  <2>1. reply.data \in SUBSET Genome
    BY <1>3 DEF Replies
  <2>2. seen \in Nat /\ s.generation \in Nat /\ seen <= s.generation
    BY InvTypes DEF Inv
  <2>3. QED
    BY <1>1, <1>3, <2>1, <2>2, InvTypes
<1>5. TypeOK'
  BY <1>1, <1>4 DEF Inv, TypeOK
<1>6. IdsBelow(s.population, s.uids) /\ Sound(s')
  BY <1>1 DEF Inv, Sound
<1>7. Names(handed', s.population) /\ \A g \in handed' : g.id <= s.uids
  <2>1. ASSUME NEW g \in handed
        PROVE  g.id <= s.uids /\ \A i \in Rows : g.id = s.population[i].id => g = s.population[i]
    BY DEF Inv, HandedSound, Covers, Names
  <2>2. ASSUME NEW g \in reply.data
        PROVE  g.id <= s.uids /\ \A i \in Rows : g.id = s.population[i].id => g = s.population[i]
    BY <1>3, <1>6, <2>2 DEF IdsBelow
  <2>3. QED
    BY <1>1, <2>1, <2>2 DEF Names
<1>8. \A g, h \in handed' : g.id = h.id => g = h
  <2>1. \A g \in handed, h \in handed : g.id = h.id => g = h
    BY DEF Inv, HandedSound
  <2>2. \A g \in handed', h \in reply.data : g.id = h.id => g = h
    BY <1>3, <1>7 DEF Names
  <2>3. QED
    BY <1>1, <2>1, <2>2
<1>9. HandedSound'
  BY <1>1, <1>7, <1>8 DEF HandedSound, Covers, Names
<1>10. FileSound'
  <2>1. s.generation <= s.generation
    BY InvTypes
  <2>2. QED
    BY <1>1, <1>2, <1>4, <1>6, <1>7, <2>1 DEF FileSound, Covers, Names, Saved, IdsBelow
<1>11. NothingHandedYet' /\ ReplySound' /\ DiskIsCurrent'
  BY <1>1, <1>2, InvTypes DEF NothingHandedYet, ReplySound, DiskIsCurrent
<1>12. QED
  BY <1>1, <1>4, <1>5, <1>6, <1>9, <1>10, <1>11 DEF Inv

LEMMA TickStep ==
  ASSUME Inv, Tick
  PROVE  Inv'
<1>1. /\ status = "up"
      /\ s' = [s EXCEPT !.timeouts = [i \in Rows |->
                 IF s.timeouts[i] \in 0 .. Timeout - 1
                   THEN s.timeouts[i] + 1 ELSE s.timeouts[i]]]
      /\ UNCHANGED <<status, saver, file, reply, handed, seen>>
  BY DEF Tick
<1>2. s \in AppState /\ Sound(s)
  BY InvTypes DEF Inv
<1>3. /\ s' \in [generation : {s.generation}, population : {s.population},
                 uids : {s.uids}, index : {s.index},
                 timeouts : {s'.timeouts}, results : {s.results}]
      /\ s'.timeouts = [i \in Rows |->
           IF s.timeouts[i] \in 0 .. Timeout - 1
             THEN s.timeouts[i] + 1 ELSE s.timeouts[i]]
  BY <1>1, <1>2 DEF AppState
<1>4. ASSUME NEW i \in Rows
      PROVE  /\ s'.timeouts[i] = Never <=> s.timeouts[i] = Never
             /\ s'.timeouts[i] \in 0 .. Timeout \cup {Never}
  <2>1. s.timeouts[i] \in 0 .. Timeout \cup {Never}
    BY <1>2 DEF AppState
  <2>2. Timeout \in Nat /\ Never \notin Nat
    BY TrainerAssumption
  <2>3. QED
    BY <1>3, <2>1, <2>2
<1>5. s'.timeouts \in [Rows -> 0 .. Timeout \cup {Never}]
  BY <1>3, <1>4
<1>6. s' \in AppState
  BY <1>2, <1>3, <1>5 DEF AppState
<1>7. SameGeneration(s', s)
  BY <1>3 DEF SameGeneration
<1>8. Sound(s')
  BY <1>2, <1>3, <1>4, <1>6, <1>7 DEF Sound, SameGeneration
<1>9. ReplySound' /\ reply' \in Replies \cup {NoReply}
  BY <1>1, <1>7, InvTypes DEF Inv, ReplySound, SameGeneration
<1>10. QED
  BY <1>1, <1>7, <1>8, <1>9, SameGenerationStep

LEMMA RestartStep ==
  ASSUME Inv, Restart
  PROVE  Inv'
<1>1. reply' = NoReply /\ UNCHANGED <<file, handed, seen>>
  BY DEF Restart
<1>2. CASE file = NoFile /\ s' \in FreshStates /\ saver' = "opening" /\ status' = "up"
  <2>1. Sound(s') /\ s'.generation = 0 /\ s' \in AppState
    BY <1>2, FreshSound DEF Sound
  <2>2. handed = {} /\ seen = 0
    BY <1>2 DEF Inv, NothingHandedYet
  <2>3. TypeOK'
    BY <1>1, <1>2, <2>1 DEF Inv, TypeOK
  <2>4. HandedSound' /\ FileSound' /\ NothingHandedYet' /\ ReplySound' /\ DiskIsCurrent'
    BY <1>1, <1>2, <2>2 DEF HandedSound, Covers, Names, FileSound, NothingHandedYet,
         ReplySound, DiskIsCurrent
  <2>5. QED
    BY <1>1, <2>1, <2>2, <2>3, <2>4 DEF Inv
<1>3. CASE /\ file \notin {NoFile, Torn} /\ s' = Recovered(file)
           /\ saver' = "none" /\ status' = "up"
  <2>1. /\ file \in Snapshot /\ IdsBelow(file.population, file.uids)
        /\ Covers(file.population, file.uids) /\ seen <= file.generation
    BY <1>3, InvTypes DEF Inv, FileSound
  <2>2. Sound(s') /\ SameGeneration(s', file) /\ Saved(s') = file /\ s' \in AppState
    BY <1>3, <2>1, RecoveredSound DEF Sound
  <2>3. TypeOK'
    BY <1>1, <1>3, <2>2 DEF Inv, TypeOK
  <2>4. s'.generation = file.generation /\ file.generation <= s'.generation
    BY <2>1, <2>2 DEF SameGeneration, Snapshot
  <2>5. HandedSound' /\ seen' <= s'.generation
    BY <1>1, <2>1, <2>2 DEF Inv, HandedSound, Covers, Names, SameGeneration
  <2>6. FileSound' /\ NothingHandedYet' /\ ReplySound' /\ DiskIsCurrent'
    BY <1>1, <1>3, <2>1, <2>2, <2>4 DEF Inv, FileSound, Covers, Names, IdsBelow,
         NothingHandedYet, ReplySound, DiskIsCurrent
  <2>7. QED
    BY <2>2, <2>3, <2>5, <2>6 DEF Inv
<1>4. CASE status' = "refused" /\ saver' = "none" /\ UNCHANGED s
  <2>1. TypeOK'
    BY <1>1, <1>4 DEF Inv, TypeOK
  <2>2. Sound(s') /\ HandedSound' /\ FileSound' /\ NothingHandedYet' /\ seen' <= s'.generation
    BY <1>1, <1>4 DEF Inv, Sound, HandedSound, FileSound, Covers, Names, IdsBelow,
         NothingHandedYet
  <2>3. ReplySound' /\ DiskIsCurrent'
    BY <1>1, <1>4 DEF ReplySound, DiskIsCurrent
  <2>4. QED
    BY <2>1, <2>2, <2>3 DEF Inv
<1>5. QED
  BY <1>2, <1>3, <1>4 DEF Restart

LEMMA StepInv ==
  ASSUME Inv, [Next]_vars
  PROVE  Inv'
<1>1. ASSUME NEW batch \in Batches, NEW capacity \in 0 .. MaxCapacity,
             OnOutcomes(batch, capacity)
      PROVE  Inv'
  BY <1>1, OnOutcomesStep
<1>2. CASE Truncate
  BY <1>2, TruncateStep
<1>3. CASE Backfill
  BY <1>3, BackfillStep
<1>4. CASE Deliver
  BY <1>4, DeliverStep
<1>5. CASE Tick
  BY <1>5, TickStep
<1>6. CASE Restart
  BY <1>6, RestartStep
<1>7. CASE UNCHANGED vars
  <2>1. UNCHANGED <<status, s, saver, file, reply, handed, seen>>
    BY <1>7 DEF vars
  <2>2. TypeOK' /\ Sound(s') /\ HandedSound' /\ FileSound' /\ NothingHandedYet'
    BY <2>1 DEF Inv, TypeOK, Sound, HandedSound, FileSound, Covers, Names, IdsBelow,
         NothingHandedYet
  <2>3. ReplySound' /\ DiskIsCurrent' /\ seen' <= s'.generation
    BY <2>1 DEF Inv, ReplySound, DiskIsCurrent
  <2>4. QED
    BY <2>2, <2>3 DEF Inv
<1>8. QED
  BY <1>1, <1>2, <1>3, <1>4, <1>5, <1>6, <1>7 DEF Next

-----------------------------------------------------------------------------
(* Theorems *)

\* The invariant on which the theorems below rest.
THEOREM Invariance == Spec => []Inv
<1>1. Init => Inv
  BY InitInv
<1>2. Inv /\ [Next]_vars => Inv'
  BY StepInv
<1>3. QED
  BY <1>1, <1>2, PTL DEF Spec

\* app_state, the file and the responses are of their types; the cursor of
\* the hand-out loop stays inside the population.
THEOREM TypeCorrect == Spec => []TypeOK
<1>1. Inv => TypeOK
  BY DEF Inv
<1>2. QED
  BY <1>1, Invariance, PTL

\* A report is about the genome that has its id now, whatever runners send
\* late or again and wherever the trainer is killed.
THEOREM IdsAreForGood == Spec => []IdsNameGenomes
<1>1. Inv => IdsNameGenomes
  <2> SUFFICES ASSUME Inv
               PROVE  IdsNameGenomes
    OBVIOUS
  <2>1. /\ Names(handed, s.population) /\ IdsBelow(s.population, s.uids)
        /\ \A g, h \in handed : g.id = h.id => g = h
    BY DEF Inv, Sound, HandedSound, Covers
  <2>2. ASSUME NEW g \in handed \cup Population, NEW h \in handed \cup Population,
               g.id = h.id
        PROVE  g = h
    <3>1. CASE g \in handed /\ h \in handed
      BY <2>1, <2>2, <3>1
    <3>2. CASE g \in handed /\ h \in Population
      BY <2>1, <2>2, <3>2 DEF Names, Population
    <3>3. CASE g \in Population /\ h \in handed
      BY <2>1, <2>2, <3>3 DEF Names, Population
    <3>4. CASE g \in Population /\ h \in Population
      BY <2>1, <2>2, <3>4 DEF IdsBelow, Population
    <3>5. QED
      BY <3>1, <3>2, <3>3, <3>4
  <2>3. QED
    BY <2>1, <2>2 DEF IdsNameGenomes, IdsBelow
<1>2. QED
  BY <1>1, Invariance, PTL

\* The results table never mixes genomes or generations.
THEOREM RowsHoldOwnRatings == Spec => []RatingsBelong
<1>1. Inv => RatingsBelong
  BY DEF Inv, Sound, RatingsBelong
<1>2. QED
  BY <1>1, Invariance, PTL

\* Exactly the complete rows are out of circulation.
THEOREM ReadyRowsAreComplete == Spec => []ReadyIffComplete
<1>1. Inv => ReadyIffComplete
  BY DEF Inv, Sound, ReadyIffComplete
<1>2. QED
  BY <1>1, Invariance, PTL

\* The file is current whenever a request can be taken or a response leaves.
THEOREM RestIsOnDisk == Spec => []DiskIsCurrent
<1>1. Inv => DiskIsCurrent
  BY DEF Inv
<1>2. QED
  BY <1>1, Invariance, PTL

\* No crash takes back a generation that a runner has seen.
THEOREM GenerationsAdvance == Spec => []NoVisibleRollback
<1>1. Inv => NoVisibleRollback
  BY DEF Inv, NoVisibleRollback
<1>2. QED
  BY <1>1, Invariance, PTL

-----------------------------------------------------------------------------
(* Survival *)

\* An order of the rows leaves none out.
LEMMA SortedPermutes ==
  ASSUME NEW a, NEW inds \in Sorted(a), NEW j \in Rows
  PROVE  \E i \in Rows : inds[i] = j
<1>1. IsFiniteSet(Rows)
  BY TrainerAssumption, FS_Interval DEF Rows
<1>2. inds \in Injection(Rows, Rows)
  BY DEF Sorted, Injection, IsInjective
<1>3. inds \in Surjection(Rows, Rows)
  BY <1>1, <1>2, FS_Injection
<1>4. QED
  BY <1>3 DEF Surjection

\* The rows of a complete generation hold the ratings of their genomes.
LEMMA CompleteRows ==
  ASSUME NEW a, Sound(a), AllReady(a), NEW i \in Rows
  PROVE  a.results[i] = a.population[i].fit /\ Complete(a.population[i].fit)
BY UnratedIsIncomplete DEF Sound, AllReady

\* Of a complete generation, the genomes of the first rows in the order of
\* the scores survive and no other does.
LEMMA BreedingSurvival ==
  ASSUME Inv, NEW a, Sound(a), SameGeneration(a, s), AllReady(a),
         NEW b \in NextGenerations(a), s'.population = b.population
  PROVE  Survival
<1> DEFINE kept == Population \cap Population'
<1>1. a \in AppState /\ IdsBelow(a.population, a.uids) /\ a.population = s.population
  BY DEF Sound, SameGeneration
<1>2. PICK inds \in Sorted(a), kids \in Children(a) : b = Bred(a, inds, kids)
  BY DEF NextGenerations
<1>3. b.population = [i \in Rows |->
        IF i \in EliteRows THEN a.population[inds[i]] ELSE kids[i]]
  BY <1>1, <1>2 DEF AppState, Bred
<1>4. /\ inds \in [Rows -> Rows]
      /\ \A i, j \in Rows : i # j => inds[i] # inds[j]
      /\ \A i, j \in Rows : i < j =>
           Score(a.results[inds[i]]) <= Score(a.results[inds[j]])
  BY DEF Sorted
<1>5. /\ population_size \in Nat /\ elite_count \in Nat
      /\ elite_count <= population_size /\ a.uids \in Nat
  BY <1>1, TrainerAssumption DEF AppState
<1>6. /\ \A i \in Rows : i \in EliteRows \/ i \in ChildRows
      /\ EliteRows \subseteq Rows
      /\ \A i \in EliteRows, j \in Rows \ EliteRows : i < j
  BY <1>5 DEF Rows, EliteRows, ChildRows
<1>7. ASSUME NEW i \in ChildRows
      PROVE  kids[i].id \in Nat /\ kids[i].id > a.uids
  <2>1. kids[i] \in [id : a.uids + 1 .. a.uids + population_size - elite_count,
                     fit : [Cases -> Ratings \cup {NaN}]]
    BY DEF Children
  <2>2. QED
    BY <1>5, <2>1
<1>8. \A i \in Rows : a.population[i].id \in Nat /\ a.population[i].id <= a.uids
  BY <1>1 DEF AppState, IdsBelow, Genome
<1>9. Population' = {b.population[i] : i \in Rows}
  BY DEF Population
<1>10. ASSUME NEW i \in EliteRows
       PROVE  a.population[inds[i]] \in kept
  <2>1. inds[i] \in Rows /\ b.population[i] = a.population[inds[i]]
    BY <1>3, <1>4, <1>6
  <2>2. QED
    BY <1>1, <1>6, <1>9, <2>1 DEF Population
<1>11. ASSUME NEW g \in kept
       PROVE  \E i \in EliteRows : g = a.population[inds[i]]
  <2>1. PICK i \in Rows : g = b.population[i]
    BY <1>9
  <2>2. PICK j \in Rows : g = a.population[j]
    BY <1>1 DEF Population
  <2>3. CASE i \in EliteRows
    BY <1>3, <2>1, <2>3
  <2>4. CASE i \notin EliteRows
    <3>1. g = kids[i] /\ i \in ChildRows
      BY <1>3, <1>6, <2>1, <2>4
    <3>2. g.id > a.uids /\ g.id \in Nat /\ g.id <= a.uids
      BY <1>7, <1>8, <2>2, <3>1
    <3>3. QED
      BY <1>5, <3>2
  <2>5. QED
    BY <2>3, <2>4
<1>12. Cardinality(kept) = elite_count
  <2> DEFINE f == [i \in EliteRows |-> a.population[inds[i]]]
  <2>1. \A i, j \in EliteRows : f[i] = f[j] => i = j
    BY <1>1, <1>4, <1>6 DEF IdsBelow
  <2>2. f \in Injection(EliteRows, kept)
    BY <1>10, <2>1 DEF Injection, IsInjective
  <2>3. f \in Surjection(EliteRows, kept)
    BY <1>10, <1>11 DEF Surjection
  <2>4. ExistsBijection(EliteRows, kept)
    BY <2>2, <2>3 DEF ExistsBijection, Bijection
  <2>5. IsFiniteSet(EliteRows) /\ Cardinality(EliteRows) = elite_count
    <3>1. 0 \in Int /\ elite_count - 1 \in Int
      BY <1>5
    <3>2. /\ IsFiniteSet(0 .. elite_count - 1)
          /\ Cardinality(0 .. elite_count - 1) =
               IF 0 > elite_count - 1 THEN 0 ELSE elite_count - 1 - 0 + 1
      BY <3>1, FS_Interval
    <3>3. (IF 0 > elite_count - 1 THEN 0 ELSE elite_count - 1 - 0 + 1)
            = elite_count
      BY <1>5
    <3>4. QED
      BY <3>2, <3>3 DEF EliteRows
  <2>6. QED
    BY <2>4, <2>5, FS_Bijection
<1>13. ASSUME NEW g \in kept, NEW h \in Population \ kept
       PROVE  Score(g.fit) <= Score(h.fit)
  <2>1. PICK i \in EliteRows : g = a.population[inds[i]]
    BY <1>11
  <2>2. PICK l \in Rows : h = a.population[l]
    BY <1>1 DEF Population
  <2>3. PICK j \in Rows : inds[j] = l
    BY SortedPermutes
  <2>4. j \notin EliteRows
    BY <1>10, <2>2, <2>3
  <2>5. i \in Rows /\ i < j /\ inds[i] \in Rows
    BY <1>4, <1>6, <2>4
  <2>6. Score(a.results[inds[i]]) <= Score(a.results[inds[j]])
    BY <1>4, <2>5
  <2>7. a.results[inds[i]] = g.fit /\ a.results[inds[j]] = h.fit
    BY <2>1, <2>2, <2>3, <2>5, CompleteRows
  <2>8. QED
    BY <2>6, <2>7
<1>14. \A g \in Population : Complete(g.fit)
  BY <1>1, CompleteRows DEF Population
<1>15. QED
  BY <1>12, <1>13, <1>14 DEF Survival

\* The best of every complete generation survive, whatever ties there are and
\* in whatever order the sort leaves them.
THEOREM TheBestSurvive == Spec => BestSurvive
<1>1. ASSUME Inv, Next
      PROVE  Survival
  <2> SUFFICES ASSUME s'.generation = s.generation + 1
               PROVE  Survival
    BY DEF Survival
  <2>1. s.generation \in Nat /\ s'.generation # s.generation /\ s'.generation # 0
    <3>1. s.generation \in Nat
      BY <1>1, InvTypes DEF AppState
    <3>2. QED
      BY <3>1
  <2>2. ASSUME NEW batch \in Batches, NEW capacity \in 0 .. MaxCapacity,
               OnOutcomes(batch, capacity)
        PROVE  Survival
    <3> DEFINE a == MarkedReady(Recorded(s, batch))
    <3>1. batch \in SUBSET Genome /\ Names(batch, s.population)
      BY <1>1, InvTypes DEF Batches, Inv, HandedSound, Covers, Names
    <3>2. Sound(a) /\ SameGeneration(a, s)
      BY <1>1, <3>1, RecordedSound DEF Inv
    <3>3. CASE Answer(a, capacity)
      <4>1. s'.generation = s.generation
        BY <3>2, <3>3, HandedOutSound DEF Answer, SameGeneration
      <4>2. QED
        BY <2>1, <4>1
    <3>4. CASE AllReady(a) /\ \E b \in NextGenerations(a) :
                                Answer(GenerationChanged(b), capacity)
      <4>1. PICK b \in NextGenerations(a) : Answer(GenerationChanged(b), capacity)
        BY <3>4
      <4>2. Sound(GenerationChanged(b)) /\ SameGeneration(GenerationChanged(b), b)
        BY <3>2, NextGenerationIds, GenerationChangedSound
      <4>3. s'.population = b.population
        BY <4>1, <4>2, HandedOutSound DEF Answer, SameGeneration
      <4>4. QED
        BY <1>1, <3>2, <3>4, <4>3, BreedingSurvival
    <3>5. CASE s' = a
      BY <2>1, <3>2, <3>5 DEF SameGeneration
    <3>6. QED
      BY <2>2, <3>3, <3>4, <3>5 DEF OnOutcomes
  <2>3. CASE Truncate \/ Backfill \/ Deliver
    BY <2>1, <2>3 DEF Truncate, Backfill, Deliver
  <2>4. CASE Tick
    <3>1. s'.generation = s.generation
      BY <1>1, <2>4, InvTypes DEF Tick, AppState
    <3>2. QED
      BY <2>1, <3>1
  <2>5. CASE Restart
    <3>1. CASE s' \in FreshStates
      BY <2>1, <3>1, FreshSound
    <3>2. CASE file \notin {NoFile, Torn} /\ s' = Recovered(file)
      <4>1. /\ file \in Snapshot /\ IdsBelow(file.population, file.uids)
            /\ file.generation <= s.generation
        BY <1>1, <3>2, InvTypes DEF Inv, FileSound
      <4>2. s'.generation = file.generation /\ file.generation \in Nat
        BY <3>2, <4>1, RecoveredSound DEF SameGeneration, Snapshot
      <4>3. QED
        BY <2>1, <4>1, <4>2
    <3>3. CASE UNCHANGED s
      BY <2>1, <3>3
    <3>4. QED
      BY <2>5, <3>1, <3>2, <3>3 DEF Restart
  <2>6. QED
    BY <1>1, <2>2, <2>3, <2>4, <2>5 DEF Next
<1>2. Inv /\ [Next]_vars => [Survival]_vars
  BY <1>1
<1>3. QED
  BY <1>2, Invariance, PTL DEF Spec, BestSurvive

=============================================================================
