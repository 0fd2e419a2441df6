------------------------------ MODULE PartsProofs ------------------------------
(***************************************************************************)
(* Theorems about the parts that meet the others only through what they    *)
(* leave behind, for every value of their constants: SessionExport,        *)
(* LandingCase, Simulation, Setup, Codec, Breeding and Framing, in this     *)
(* order.                                                                  *)
(***************************************************************************)
EXTENDS Setup, SessionExport, LandingCase, Simulation, Codec, Breeding, Framing,
        FiniteSetTheorems, SequenceTheorems, WellFoundedInduction, TLAPS

-----------------------------------------------------------------------------
(* SessionExport: the inductive invariant *)

Places == {"options", "ids", "play", "dump", "ask", "sample", "serve", "exit"}
Rows == 0 .. Pop - 1

Runs ==
  [at : Places, replay : BOOLEAN, dump : BOOLEAN, no_exit : BOOLEAN,
   gene : OptionIds, case : OptionIds, may_swap : BOOLEAN,
   count : Nat, last_error : {0, -1, -2}, asked : {<<>>} \cup (OptionIds \X OptionIds)]

ExportTyped ==
  /\ run \in Runs
  /\ turns \in Seq(Outcomes)
  /\ inds \in Seq(Rows)

\* Until the ids are looked up, they are those asked for; swapped are only ids
\* that were both given.
IdsAsAsked ==
  /\ run.at = "options" => ~run.replay
  /\ run.at = "ids" =>
       /\ run.last_error = 0
       /\ run.asked = <<run.gene, run.case>>
       /\ run.may_swap => run.gene # 0 /\ run.case # 0

\* Nothing is sampled before the user has said how much.
SampledLate == inds # <<>> => run.at \in {"sample", "serve", "exit"}

ExportInv ==
  /\ ExportTyped
  /\ IdsAsAsked
  /\ SampledLate
  /\ ReplayIsAsked
  /\ ReplayIsWhole
  /\ SampleIsFair

LEMMA ExportInitInv == ASSUME ExportInit PROVE ExportInv
<1>1. run.at = "options" /\ run.replay = FALSE /\ turns = <<>> /\ inds = <<>> /\ run.count = 0
  BY DEF ExportInit
<1>2. ExportTyped
  BY DEF ExportInit, ExportTyped, Runs, Places, OptionIds
<1>3. Len(turns) = 0 /\ Len(inds) = 0 /\ DOMAIN inds = {}
  BY <1>1
<1> QED
  BY <1>1, <1>2, <1>3, ExportAssumption
  DEF ExportInv, IdsAsAsked, SampledLate, ReplayIsAsked, ReplayIsWhole, SampleIsFair

-----------------------------------------------------------------------------
(* The sample: an insertion into a sorted sequence *)

\* What an insertion behind the first c elements leaves.
Inserted(seq, c, e) == SubSeq(seq, 1, c) \o <<e>> \o SubSeq(seq, c + 1, Len(seq))
LEMMA InsertedElements ==
  ASSUME NEW S, NEW seq \in Seq(S), NEW c \in 0 .. Len(seq), NEW e \in S
  PROVE  /\ Inserted(seq, c, e) \in Seq(S)
         /\ Len(Inserted(seq, c, e)) = Len(seq) + 1
         /\ \A n \in 1 .. c : Inserted(seq, c, e)[n] = seq[n]
         /\ Inserted(seq, c, e)[c + 1] = e
         /\ \A n \in c + 1 .. Len(seq) : Inserted(seq, c, e)[n + 1] = seq[n]
<1> DEFINE front == SubSeq(seq, 1, c)
           back == SubSeq(seq, c + 1, Len(seq))
           half == front \o <<e>>
<1>0. Len(seq) \in Nat
  OBVIOUS
<1>1. /\ front \in Seq(S) /\ Len(front) = c
      /\ \A n \in 1 .. c : front[n] = seq[n]
  OBVIOUS
<1>2. /\ back \in Seq(S) /\ Len(back) = Len(seq) - c
      /\ \A n \in 1 .. Len(seq) - c : back[n] = seq[c + n]
  OBVIOUS
<1>3. <<e>> \in Seq(S) /\ Len(<<e>>) = 1 /\ <<e>>[1] = e
  OBVIOUS
<1> HIDE DEF front, back
<1>4. /\ half \in Seq(S) /\ Len(half) = c + 1
      /\ \A n \in 1 .. c + 1 : half[n] = IF n <= c THEN front[n] ELSE <<e>>[n - c]
  BY <1>1, <1>3, ConcatProperties
<1> HIDE DEF half
<1>5. /\ half \o back \in Seq(S) /\ Len(half \o back) = Len(half) + Len(back)
      /\ \A n \in 1 .. Len(half) + Len(back) :
           (half \o back)[n] = IF n <= Len(half) THEN half[n] ELSE back[n - Len(half)]
  BY <1>2, <1>4, ConcatProperties
<1>6. Inserted(seq, c, e) = half \o back
  BY DEF Inserted, half, front, back
<1>7. ASSUME NEW n \in 1 .. c PROVE (half \o back)[n] = seq[n]
  <2>1. n \in 1 .. c + 1 /\ n <= c /\ n \in 1 .. Len(half) + Len(back) /\ n <= Len(half)
    BY <1>0, <1>2, <1>4
  <2> QED  BY <2>1, <1>1, <1>4, <1>5
<1>8. (half \o back)[c + 1] = e
  <2>1. /\ c + 1 \in 1 .. Len(half) + Len(back) /\ c + 1 <= Len(half)
        /\ ~(c + 1 <= c) /\ (c + 1) - c = 1
    BY <1>0, <1>2, <1>4
  <2> QED  BY <2>1, <1>3, <1>4, <1>5
<1>9. ASSUME NEW n \in c + 1 .. Len(seq) PROVE (half \o back)[n + 1] = seq[n]
  <2>1. n + 1 \in 1 .. Len(half) + Len(back) /\ ~(n + 1 <= Len(half)) /\ (n + 1) - Len(half) = n - c
    BY <1>0, <1>2, <1>4
  <2>2. n - c \in 1 .. Len(seq) - c /\ c + (n - c) = n
    BY <1>0
  <2>3. back[n - c] = seq[n]
    BY <2>2, <1>2
  <2> QED  BY <2>1, <2>3, <1>5
<1>10. Len(half) + Len(back) = Len(seq) + 1
  BY <1>0, <1>2, <1>4
<1> QED  BY <1>5, <1>6, <1>7, <1>8, <1>9, <1>10

\* lower_bound: the elements below i are the first InsertedAt(i).
LEMMA LowerBound ==
  ASSUME inds \in Seq(Rows), \A m, n \in DOMAIN inds : m < n => inds[m] < inds[n], NEW i \in Rows
  PROVE  /\ InsertedAt(i) \in 0 .. Len(inds)
         /\ {n \in DOMAIN inds : inds[n] < i} = 1 .. InsertedAt(i)
<1> DEFINE A == {n \in DOMAIN inds : inds[n] < i}
           c == Cardinality(A)
<1>1. /\ Len(inds) \in Nat /\ DOMAIN inds = 1 .. Len(inds) /\ i \in Int
      /\ \A n \in DOMAIN inds : inds[n] \in Int
  BY ExportAssumption DEF Rows
<1>2. A \subseteq 1 .. Len(inds) /\ IsFiniteSet(1 .. Len(inds)) /\ Cardinality(1 .. Len(inds)) = Len(inds)
  <2>1. \A n \in Nat : IsFiniteSet(1 .. n) /\ Cardinality(1 .. n) = n
    BY FS_Interval
  <2> QED  BY <2>1, <1>1
<1>3. IsFiniteSet(A) /\ c \in Nat /\ c <= Len(inds)
  BY <1>2, FS_Subset, FS_CardinalityType
<1>4. ASSUME NEW n \in A PROVE n \in 1 .. c
  <2>1. n \in 1 .. Len(inds) /\ inds[n] < i
    BY <1>1
  <2>2. 1 .. n \subseteq A
    <3> SUFFICES ASSUME NEW m \in 1 .. n PROVE m \in 1 .. Len(inds) /\ inds[m] < i
      BY <1>1
    <3>1. m \in DOMAIN inds /\ n \in DOMAIN inds /\ (m = n \/ m < n)
      BY <2>1, <1>1
    <3> QED  BY <3>1, <2>1, <1>1
  <2>3. Cardinality(1 .. n) = n
    BY <2>1, <1>1, FS_Interval
  <2> HIDE DEF A
  <2>4. n <= c
    <3>1. Cardinality(1 .. n) <= Cardinality(A)
      BY <2>2, <1>3, FS_Subset
    <3> QED  BY <3>1, <2>3
  <2> QED  BY <2>1, <2>4, <1>1, <1>3
<1>5. Cardinality(1 .. c) = c /\ IsFiniteSet(1 .. c)
  BY <1>3, FS_Interval
<1> HIDE DEF A
<1>6. A = 1 .. c
  <2>1. A \subseteq 1 .. c  BY <1>4
  <2> QED  BY <2>1, <1>5, FS_Subset
<1> QED  BY <1>3, <1>6 DEF A, InsertedAt

\* A row that is sampled is put where it belongs.
LEMMA SampledSorted ==
  ASSUME inds \in Seq(Rows), \A m, n \in DOMAIN inds : m < n => inds[m] < inds[n],
         NEW i \in Rows, Sampled(i)
  PROVE  /\ inds' \in Seq(Rows) /\ Len(inds') <= Len(inds) + 1
         /\ \A m, n \in DOMAIN inds' : m < n => inds'[m] < inds'[n]
<1> DEFINE low == InsertedAt(i)
<1>1. /\ Len(inds) \in Nat /\ DOMAIN inds = 1 .. Len(inds) /\ i \in Int
      /\ \A n \in DOMAIN inds : inds[n] \in Int
  BY ExportAssumption DEF Rows
<1>2. CASE \E n \in DOMAIN inds : inds[n] = i
  BY <1>1, <1>2 DEF Sampled
<1>3. CASE ~ \E n \in DOMAIN inds : inds[n] = i
  <2>1. inds' = Inserted(inds, low, i)
    BY <1>3 DEF Sampled, Inserted
  <2>2. low \in 0 .. Len(inds) /\ {n \in DOMAIN inds : inds[n] < i} = 1 .. low
    BY LowerBound
  <2> HIDE DEF low
  <2>3. /\ inds' \in Seq(Rows) /\ Len(inds') = Len(inds) + 1
        /\ \A n \in 1 .. low : inds'[n] = inds[n]
        /\ inds'[low + 1] = i
        /\ \A n \in low + 1 .. Len(inds) : inds'[n + 1] = inds[n]
    <3>0. inds \in Seq(Rows) /\ i \in Rows /\ low \in 0 .. Len(inds)
      BY <2>2
    <3>1. Inserted(inds, low, i) \in Seq(Rows)
      BY <3>0, InsertedElements
    <3>2. Len(Inserted(inds, low, i)) = Len(inds) + 1
      BY <3>0, InsertedElements
    <3>3. \A n \in 1 .. low : Inserted(inds, low, i)[n] = inds[n]
      BY <3>0, InsertedElements
    <3>4. Inserted(inds, low, i)[low + 1] = i
      BY <3>0, InsertedElements
    <3>5. \A n \in low + 1 .. Len(inds) : Inserted(inds, low, i)[n + 1] = inds[n]
      BY <3>0, InsertedElements
    <3> QED  BY <2>1, <3>1, <3>2, <3>3, <3>4, <3>5
  <2>4. \A n \in 1 .. low : inds[n] < i
    BY <2>2
  <2>5. \A n \in low + 1 .. Len(inds) : i < inds[n]
    <3> TAKE n \in low + 1 .. Len(inds)
    <3>1. n \in DOMAIN inds /\ n \notin 1 .. low
      BY <2>2, <1>1
    <3> QED  BY <3>1, <2>2, <1>1, <1>3
  \* An element of the new sequence is one of the first ones, the new one, or one
  \* that has moved up.
  <2>6. \A n \in DOMAIN inds' :
          \/ n \in 1 .. low \/ n = low + 1
          \/ (n - 1 \in low + 1 .. Len(inds) /\ inds'[n] = inds[n - 1])
    <3> TAKE n \in DOMAIN inds'
    <3>1. n \in 1 .. Len(inds) + 1
      BY <2>3
    <3>2. n \in 1 .. low \/ n = low + 1 \/ n - 1 \in low + 1 .. Len(inds)
      BY <3>1, <2>2, <1>1
    <3>3. n - 1 \in low + 1 .. Len(inds) => inds'[(n - 1) + 1] = inds[n - 1] /\ (n - 1) + 1 = n
      BY <3>1, <2>3
    <3> QED  BY <3>2, <3>3
  <2>7. ASSUME NEW m \in DOMAIN inds', NEW n \in DOMAIN inds', m < n PROVE inds'[m] < inds'[n]
    <3>0. m \in Nat /\ n \in Nat /\ low \in Nat
      BY <2>2, <2>3, <1>1
    <3>1. CASE n \in 1 .. low
      <4>1. m \in 1 .. low /\ m \in DOMAIN inds /\ n \in DOMAIN inds
        BY <3>0, <3>1, <2>2, <2>6, <2>7, <1>1
      <4> QED  BY <4>1, <3>1, <2>3, <2>7
    <3>2. CASE n = low + 1
      <4>1. m \in 1 .. low
        BY <3>0, <3>2, <2>6, <2>7
      <4> QED  BY <4>1, <3>2, <2>3, <2>4
    <3>3. CASE n - 1 \in low + 1 .. Len(inds) /\ inds'[n] = inds[n - 1]
      <4>1. n - 1 \in DOMAIN inds
        BY <3>0, <3>3, <2>2, <1>1
      <4>2. CASE m \in 1 .. low
        <5>1. m \in DOMAIN inds /\ m < n - 1
          BY <3>0, <3>3, <4>2, <2>2, <1>1
        <5> QED  BY <5>1, <4>1, <4>2, <3>3, <2>3
      <4>3. CASE m = low + 1
        BY <4>3, <3>3, <2>3, <2>5
      <4>4. CASE m - 1 \in low + 1 .. Len(inds) /\ inds'[m] = inds[m - 1]
        <5>1. m - 1 \in DOMAIN inds /\ m - 1 < n - 1
          BY <3>0, <4>4, <2>2, <2>7, <1>1
        <5> QED  BY <5>1, <4>1, <4>4, <3>3
      <4> QED  BY <4>2, <4>3, <4>4, <2>6
    <3> QED  BY <3>1, <3>2, <3>3, <2>6
  <2> QED  BY <2>3, <2>7, <1>1
<1> QED  BY <1>2, <1>3


-----------------------------------------------------------------------------
(* SessionExport: the steps *)

LEMMA StartKeeps ==
  ASSUME ExportInv, NEW init \in BOOLEAN, NEW replay \in BOOLEAN, NEW dump \in BOOLEAN,
         NEW no_exit \in BOOLEAN, NEW gid \in OptionIds, NEW cid \in OptionIds,
         NEW known \in BOOLEAN, Start(init, replay, dump, no_exit, gid, cid, known)
  PROVE  ExportInv'
<1> DEFINE refused == Refused(init, replay, dump, known)
           error == IF refused THEN -2 ELSE 0
           place == IF refused THEN "exit"
                    ELSE IF replay THEN "ids" ELSE IF dump THEN "dump" ELSE "serve"
           swap == gid > 0 /\ cid > 0
<1>1. run \in Runs /\ run.at = "options" /\ inds = <<>>
  BY DEF ExportInv, ExportTyped, SampledLate, Start
<1>2. /\ run' = [run EXCEPT
           !.replay = replay, !.dump = dump, !.no_exit = no_exit,
           !.gene = gid, !.case = cid, !.may_swap = swap, !.asked = <<gid, cid>>,
           !.last_error = error, !.at = place]
      /\ UNCHANGED <<turns, inds>>
  BY DEF Start
<1>3. /\ error \in {0, -1, -2} /\ place \in Places /\ swap \in BOOLEAN
      /\ <<gid, cid>> \in OptionIds \X OptionIds
      /\ place = "ids" => error = 0
      /\ ~replay \/ error = -2 \/ place = "ids"
      /\ place # "options"
      /\ swap => gid # 0 /\ cid # 0
  BY DEF Places
<1> HIDE DEF refused, error, place, swap
<1>4. /\ run'.replay = replay /\ run'.gene = gid /\ run'.case = cid /\ run'.asked = <<gid, cid>>
      /\ run'.may_swap = swap /\ run'.count = run.count
      /\ run'.last_error = error /\ run'.at = place
  BY <1>1, <1>2 DEF Runs
<1>5. run' \in Runs
  <2> DEFINE pair == <<gid, cid>>
  <2>1. pair \in {<<>>} \cup (OptionIds \X OptionIds)
    BY <1>3
  <2>2. run' = [run EXCEPT
           !.replay = replay, !.dump = dump, !.no_exit = no_exit,
           !.gene = gid, !.case = cid, !.may_swap = swap, !.asked = pair,
           !.last_error = error, !.at = place]
    BY <1>2
  <2> HIDE DEF pair
  <2>3. error \in {0, -1, -2} /\ place \in Places /\ swap \in BOOLEAN
    BY <1>3
  <2>4. run' = [at |-> place, replay |-> replay, dump |-> dump, no_exit |-> no_exit,
                gene |-> gid, case |-> cid, may_swap |-> swap, count |-> run.count,
                last_error |-> error, asked |-> pair]
    BY <1>1, <2>2 DEF Runs
  <2>5. run.count \in Nat
    BY <1>1 DEF Runs
  <2> QED  BY <2>1, <2>3, <2>4, <2>5 DEF Runs
<1>6. ExportTyped'
  BY <1>2, <1>5 DEF ExportInv, ExportTyped
<1>9. IdsAsAsked'
  BY <1>3, <1>4 DEF IdsAsAsked
<1>10. SampledLate'
  BY <1>1, <1>2 DEF SampledLate
<1>11. ReplayIsAsked'
  BY <1>3, <1>4 DEF ReplayIsAsked
<1>12. ReplayIsWhole' /\ SampleIsFair'
  BY <1>2, <1>4 DEF ExportInv, ReplayIsWhole, SampleIsFair
<1> QED  BY <1>6, <1>9, <1>10, <1>11, <1>12 DEF ExportInv

\* A step that leaves the turns and the sample alone, and the replay asked for.
LEMMA PromptKeeps ==
  ASSUME ExportInv, run.at = "ids", NEW gid \in OptionIds, NEW cid \in OptionIds,
         gid = run.gene \/ run.gene = 0,
         cid = run.case \/ run.case = 0,
         run' = [run EXCEPT !.gene = gid, !.case = cid, !.asked = <<gid, cid>>],
         UNCHANGED <<turns, inds>>
  PROVE  ExportInv'
<1>1. run \in Runs
  BY DEF ExportInv, ExportTyped
<1>2. /\ run'.at = "ids" /\ run'.gene = gid /\ run'.case = cid /\ run'.asked = <<gid, cid>>
      /\ run'.may_swap = run.may_swap /\ run'.last_error = run.last_error
      /\ run'.count = run.count
  BY <1>1 DEF Runs
<1>3. <<gid, cid>> \in OptionIds \X OptionIds
  OBVIOUS
<1>4. ExportTyped'
  BY <1>1, <1>3 DEF ExportInv, ExportTyped, Runs
<1>5. IdsAsAsked'
  BY <1>2 DEF ExportInv, IdsAsAsked
<1>6. SampledLate' /\ ReplayIsAsked'
  BY <1>2 DEF ExportInv, SampledLate, ReplayIsAsked
<1>7. ReplayIsWhole' /\ SampleIsFair'
  BY <1>2 DEF ExportInv, ReplayIsWhole, SampleIsFair
<1> QED  BY <1>4, <1>5, <1>6, <1>7 DEF ExportInv

LEMMA AskGenomeKeeps ==
  ASSUME ExportInv, NEW id \in Ids, AskGenome(id) PROVE ExportInv'
<1>1. /\ run \in Runs
      /\ run.at = "ids" /\ run.gene = 0 /\ run.asked = <<run.gene, run.case>>
  BY DEF ExportInv, ExportTyped, IdsAsAsked, AskGenome
<1>2. [run.asked EXCEPT ![1] = id] = <<id, run.case>>
  BY <1>1
<1>3. run' = [run EXCEPT !.gene = id, !.case = run.case, !.asked = <<id, run.case>>]
  BY <1>1, <1>2 DEF AskGenome, Runs
<1>4. id \in OptionIds /\ run.case \in OptionIds
  BY <1>1 DEF OptionIds, Runs
<1> QED  BY <1>1, <1>3, <1>4, PromptKeeps DEF AskGenome

LEMMA AskCaseKeeps ==
  ASSUME ExportInv, NEW id \in Ids, AskCase(id) PROVE ExportInv'
<1>1. /\ run \in Runs
      /\ run.at = "ids" /\ run.case = 0 /\ run.asked = <<run.gene, run.case>>
  BY DEF ExportInv, ExportTyped, IdsAsAsked, AskCase
<1>2. [run.asked EXCEPT ![2] = id] = <<run.gene, id>>
  BY <1>1
<1>3. run' = [run EXCEPT !.gene = run.gene, !.case = id, !.asked = <<run.gene, id>>]
  BY <1>1, <1>2 DEF AskCase, Runs
<1>4. id \in OptionIds /\ run.gene \in OptionIds
  BY <1>1 DEF OptionIds, Runs
<1> QED  BY <1>1, <1>3, <1>4, PromptKeeps DEF AskCase


\* The ids are looked up: swapped only if what was given second is no case.
LEMMA FindKeeps == ASSUME ExportInv, Find PROVE ExportInv'
<1> DEFINE r == Swapped(run)
           found == r.case \in CaseIds /\ r.gene \in GenomeIds
<1>1. /\ run \in Runs /\ run.at = "ids" /\ run.gene # 0 /\ run.case # 0 /\ inds = <<>>
      /\ run.last_error = 0 /\ run.asked = <<run.gene, run.case>>
  BY DEF ExportInv, ExportTyped, IdsAsAsked, SampledLate, Find
<1>2. /\ r \in Runs /\ r.replay = run.replay /\ r.asked = run.asked /\ r.may_swap = run.may_swap
      /\ r.count = run.count /\ r.last_error = 0
      /\ \/ /\ run.may_swap /\ run.case \notin CaseIds
            /\ r.gene = run.case /\ r.case = run.gene
         \/ /\ ~run.may_swap \/ run.case \in CaseIds
            /\ r.gene = run.gene /\ r.case = run.case
  <2>1. CASE run.may_swap /\ run.case \notin CaseIds
    <3>1. r = [run EXCEPT !.gene = run.case, !.case = run.gene]
      BY <2>1 DEF Swapped
    <3> HIDE DEF r
    <3>2. /\ r \in Runs /\ r.replay = run.replay /\ r.asked = run.asked /\ r.may_swap = run.may_swap
          /\ r.count = run.count /\ r.last_error = 0 /\ r.gene = run.case /\ r.case = run.gene
      BY <3>1, <1>1 DEF Runs
    <3> QED  BY <2>1, <3>2
  <2>2. CASE ~(run.may_swap /\ run.case \notin CaseIds)
    <3>1. r = run
      BY <2>2 DEF Swapped
    <3> QED  BY <2>2, <3>1, <1>1
  <2> QED  BY <2>1, <2>2
<1>3. UNCHANGED <<turns, inds>>
  BY DEF Find
<1>4. /\ found => run' = [r EXCEPT !.at = "play"]
      /\ ~found => run' = [r EXCEPT !.last_error = -1, !.at = AfterReplay(r)]
  BY DEF Find
<1>5. AfterReplay(r) \in {"dump", "serve", "exit"}
  BY DEF AfterReplay
<1> HIDE DEF r
<1>6. CASE found
  <2>1. /\ run' \in Runs /\ run'.at = "play" /\ run'.gene = r.gene /\ run'.case = r.case
        /\ run'.asked = run.asked /\ run'.may_swap = run.may_swap
        /\ run'.count = run.count /\ run'.last_error = 0
    BY <1>2, <1>4, <1>6 DEF Runs, Places
  <2>2. ReplayIsAsked'
    BY <1>1, <1>2, <1>6, <2>1 DEF ReplayIsAsked, Named
  <2>3. ExportTyped'
    BY <1>3, <2>1 DEF ExportInv, ExportTyped
  <2>4. IdsAsAsked' /\ SampledLate'
    BY <1>1, <1>3, <2>1 DEF IdsAsAsked, SampledLate
  <2>5. ReplayIsWhole' /\ SampleIsFair'
    BY <1>3, <2>1 DEF ExportInv, ReplayIsWhole, SampleIsFair
  <2> QED  BY <2>2, <2>3, <2>4, <2>5 DEF ExportInv
<1>7. CASE ~found
  <2> DEFINE place == AfterReplay(r)
  <2>0. place \in {"dump", "serve", "exit"} /\ run' = [r EXCEPT !.last_error = -1, !.at = place]
    BY <1>4, <1>5, <1>7
  <2> HIDE DEF place
  <2>1. /\ run' \in Runs /\ run'.at = place
        /\ run'.asked = run.asked /\ run'.may_swap = run.may_swap
        /\ run'.count = run.count /\ run'.last_error = -1
    BY <1>2, <2>0 DEF Runs, Places
  \* No order of the two ids names a genome and a case.
  <2>2. ~Named(run.gene, run.case) /\ (run.may_swap => ~Named(run.case, run.gene))
    BY <1>2, <1>7, ExportAssumption DEF Named
  <2>3. ReplayIsAsked'
    BY <1>1, <2>1, <2>2 DEF ReplayIsAsked
  <2>4. ExportTyped'
    BY <1>3, <2>1 DEF ExportInv, ExportTyped
  <2>5. IdsAsAsked' /\ SampledLate'
    BY <1>1, <1>3, <2>0, <2>1 DEF IdsAsAsked, SampledLate
  <2>6. ReplayIsWhole' /\ SampleIsFair'
    BY <1>3, <2>1 DEF ExportInv, ReplayIsWhole, SampleIsFair
  <2> QED  BY <2>3, <2>4, <2>5, <2>6 DEF ExportInv
<1> QED  BY <1>6, <1>7

LEMMA PlayKeeps == ASSUME ExportInv, NEW o \in Outcomes, Play(o) PROVE ExportInv'
<1> DEFINE turn == IF turns = <<>> THEN "Aerial" ELSE o
<1>1. /\ turns \in Seq(Outcomes) /\ Len(turns) \in Nat /\ Len(turns) <= steps_limit
      /\ turns # <<>> => turns[Len(turns)] = "Aerial"
      /\ turns' = Append(turns, turn) /\ UNCHANGED <<run, inds>>
  BY DEF ExportInv, ExportTyped, Play
<1>2. turn \in Outcomes
  BY DEF Outcomes
<1> HIDE DEF turn
<1>3. /\ turns' \in Seq(Outcomes) /\ Len(turns') = Len(turns) + 1
      /\ \A n \in 1 .. Len(turns) : turns'[n] = turns[n]
  BY <1>1, <1>2
<1>4. \A n \in 1 .. Len(turns) : turns[n] = "Aerial"
  <2> TAKE n \in 1 .. Len(turns)
  <2>1. CASE n = Len(turns)
    BY <2>1, <1>1
  <2>2. CASE n # Len(turns)
    <3>1. n \in 1 .. Len(turns) - 1  BY <2>2, <1>1
    <3> QED  BY <3>1 DEF ExportInv, ReplayIsWhole
  <2> QED  BY <2>1, <2>2
<1>5. ReplayIsWhole'
  <2>1. Len(turns') <= steps_limit + 1
    BY <1>1, <1>3, ExportAssumption
  <2>2. \A n \in 1 .. Len(turns') - 1 : turns'[n] = "Aerial"
    BY <1>1, <1>3, <1>4
  <2> QED  BY <2>1, <2>2 DEF ReplayIsWhole
<1>6. ExportTyped' /\ IdsAsAsked' /\ SampledLate'
  BY <1>1, <1>3 DEF ExportInv, ExportTyped, IdsAsAsked, SampledLate
<1>7. ReplayIsAsked' /\ SampleIsFair'
  BY <1>1 DEF ExportInv, ReplayIsAsked, SampleIsFair
<1> QED  BY <1>5, <1>6, <1>7 DEF ExportInv

\* What follows the replay leaves the ids alone.
LEMMA LaterKeeps ==
  ASSUME ExportInv, run.at \in {"play", "dump", "ask", "sample"},
         NEW place \in {"dump", "ask", "sample", "serve", "exit"},
         NEW error \in {run.last_error, -2}, NEW n \in Nat,
         run' = [run EXCEPT !.last_error = error, !.at = place, !.count = n],
         UNCHANGED <<turns, inds>>,
         Len(inds) <= n, inds = <<>> \/ place \in {"sample", "serve", "exit"}
  PROVE  ExportInv'
<1>1. run \in Runs /\ run.last_error \in {0, -1, -2}
  BY DEF ExportInv, ExportTyped, Runs
<1>2. error \in {0, -1, -2}
  BY <1>1
<1>3. /\ run' \in Runs /\ run'.at = place /\ run'.last_error = error /\ run'.count = n
      /\ run'.replay = run.replay /\ run'.asked = run.asked /\ run'.may_swap = run.may_swap
      /\ run'.gene = run.gene /\ run'.case = run.case
  BY <1>1, <1>2 DEF Runs, Places
<1>4. ReplayIsAsked'
  <2>1. CASE error = -2
    BY <2>1, <1>3 DEF ReplayIsAsked
  <2>2. CASE error = run.last_error
    BY <2>2, <1>3 DEF ExportInv, ReplayIsAsked
  <2> QED  BY <2>1, <2>2
<1>5. ExportTyped' /\ IdsAsAsked' /\ SampledLate'
  BY <1>3 DEF ExportInv, ExportTyped, IdsAsAsked, SampledLate
<1>6. ReplayIsWhole' /\ SampleIsFair'
  BY <1>3 DEF ExportInv, ReplayIsWhole, SampleIsFair
<1> QED  BY <1>4, <1>5, <1>6 DEF ExportInv


LEMMA WriteReplayKeeps ==
  ASSUME ExportInv, NEW opened \in BOOLEAN, WriteReplay(opened) PROVE ExportInv'
<1> DEFINE error == IF opened THEN run.last_error ELSE -2
           place == AfterReplay(run)
<1>1. /\ run \in Runs /\ run.count \in Nat /\ run.at = "play" /\ inds = <<>>
      /\ Len(inds) <= run.count
  BY DEF ExportInv, ExportTyped, Runs, SampledLate, SampleIsFair, WriteReplay
<1>2. error \in {run.last_error, -2} /\ place \in {"dump", "ask", "sample", "serve", "exit"}
  BY DEF AfterReplay
<1>3. run' = [run EXCEPT !.last_error = error, !.at = place] /\ UNCHANGED <<turns, inds>>
  BY DEF WriteReplay
<1> HIDE DEF error, place
<1>4. run' = [run EXCEPT !.last_error = error, !.at = place, !.count = run.count]
  BY <1>1, <1>3 DEF Runs
<1> QED  BY <1>1, <1>2, <1>3, <1>4, LaterKeeps

LEMMA WriteDumpKeeps ==
  ASSUME ExportInv, NEW opened \in BOOLEAN, WriteDump(opened) PROVE ExportInv'
<1> DEFINE error == IF opened THEN run.last_error ELSE -2
           place == IF run.no_exit THEN "serve" ELSE "exit"
<1>1. run \in Runs /\ run.count \in Nat /\ run.at = "sample" /\ Len(inds) <= run.count
  BY DEF ExportInv, ExportTyped, Runs, SampleIsFair, WriteDump
<1>2. error \in {run.last_error, -2} /\ place \in {"dump", "ask", "sample", "serve", "exit"}
      /\ place \in {"sample", "serve", "exit"}
  OBVIOUS
<1>3. run' = [run EXCEPT !.last_error = error, !.at = place] /\ UNCHANGED <<turns, inds>>
  BY DEF WriteDump
<1> HIDE DEF error, place
<1>4. run' = [run EXCEPT !.last_error = error, !.at = place, !.count = run.count]
  BY <1>1, <1>3 DEF Runs
<1> QED  BY <1>1, <1>2, <1>3, <1>4, LaterKeeps

LEMMA AskSampleKeeps ==
  ASSUME ExportInv, NEW yes \in BOOLEAN, NEW n \in 0 .. Pop, AskSample(yes, n) PROVE ExportInv'
<1> DEFINE size == IF run.at = "dump" THEN Pop ELSE run.count
           wanted == IF size > size_threshold /\ yes THEN n ELSE size
           place == IF size > size_threshold /\ yes /\ n > size_threshold THEN "ask" ELSE "sample"
<1>1. run \in Runs /\ run.count \in Nat /\ run.at \in {"dump", "ask"} /\ inds = <<>>
  BY DEF ExportInv, ExportTyped, Runs, SampledLate, AskSample
<1>2. Len(inds) = 0
  BY <1>1
<1>3. run' = [run EXCEPT !.count = wanted, !.at = place] /\ UNCHANGED <<turns, inds>>
  BY DEF AskSample
<1>4. size \in Nat
  BY <1>1, ExportAssumption
<1> HIDE DEF size
<1>5. wanted \in Nat /\ place \in {"dump", "ask", "sample", "serve", "exit"}
  BY <1>4, ExportAssumption
<1> HIDE DEF wanted, place
<1>6. run' = [run EXCEPT !.last_error = run.last_error, !.at = place, !.count = wanted]
  BY <1>1, <1>3 DEF Runs
<1>7. Len(inds) <= wanted
  BY <1>2, <1>5
<1> QED  BY <1>1, <1>3, <1>5, <1>6, <1>7, LaterKeeps

LEMMA SampleKeeps == ASSUME ExportInv, NEW i \in Rows, Sample(i) PROVE ExportInv'
<1>1. /\ run \in Runs /\ run.count \in Nat /\ run.at = "sample"
      /\ inds \in Seq(Rows) /\ Len(inds) \in Nat /\ Len(inds) < run.count
      /\ UNCHANGED <<run, turns>>
      /\ \A m, n \in DOMAIN inds : m < n => inds[m] < inds[n]
  BY DEF ExportInv, ExportTyped, Runs, SampleIsFair, Sample
<1>2. Sampled(i)
  BY DEF Sample
<1>3. /\ inds' \in Seq(Rows) /\ Len(inds') <= Len(inds) + 1
      /\ \A m, n \in DOMAIN inds' : m < n => inds'[m] < inds'[n]
  BY <1>1, <1>2, SampledSorted
<1>4. SampleIsFair'
  <2>1. Len(inds') \in Nat  BY <1>3
  <2>2. Len(inds') <= run'.count
    BY <2>1, <1>1, <1>3
  <2> QED  BY <2>2, <1>3 DEF SampleIsFair
<1>5. ExportTyped' /\ IdsAsAsked' /\ SampledLate'
  BY <1>1, <1>3 DEF ExportInv, ExportTyped, IdsAsAsked, SampledLate
<1>6. ReplayIsAsked' /\ ReplayIsWhole'
  BY <1>1 DEF ExportInv, ReplayIsAsked, ReplayIsWhole
<1> QED  BY <1>4, <1>5, <1>6 DEF ExportInv

LEMMA ExportStepKeeps == ASSUME ExportInv, [ExportNext]_exportVars PROVE ExportInv'
<1>1. CASE UNCHANGED exportVars
  BY <1>1 DEF exportVars, ExportInv, ExportTyped, IdsAsAsked, SampledLate, ReplayIsAsked,
     ReplayIsWhole, SampleIsFair
<1> QED
  BY <1>1, StartKeeps, AskGenomeKeeps, AskCaseKeeps, FindKeeps, PlayKeeps, WriteReplayKeeps,
     WriteDumpKeeps, AskSampleKeeps, SampleKeeps
  DEF ExportNext, Rows

\* What a start replays and dumps is what was asked for, whatever the ids, the
\* limit of the steps, the size of the population and the sample wanted
\* (trainer_main.cpp, trainer_app_session_export.cpp).
THEOREM ExportInvariance == ExportSpec => []ExportInv
<1>1. ExportInit => ExportInv
  BY ExportInitInv
<1>2. ExportInv /\ [ExportNext]_exportVars => ExportInv'
  BY ExportStepKeeps
<1> QED  BY <1>1, <1>2, PTL DEF ExportSpec

\* The replay is of the genome and the case meant, whole, and the sample of a
\* dump has no row twice (do_make_replay, do_dump_session).
THEOREM ExportsAreSound == ExportSpec => []ExportSound
<1>1. ExportInv => ExportSound
  BY DEF ExportInv, ExportSound
<1> QED  BY <1>1, ExportInvariance, PTL


-----------------------------------------------------------------------------
(* LandingCase: the abscissas *)

\* The bounds of the abscissa of point i, of m + 1 points.
By(m, i) == IF i > 0 /\ i < m /\ zone_x_max > 2 * m THEN zone_x_max - 2 * m ELSE 0
Lo(m, i) == RoundedDiv(2 * zone_x_max * i - By(m, i), 2 * m)
Hi(m, i) == RoundedDiv(2 * zone_x_max * i + By(m, i), 2 * m)

LEMMA AbscissasAreBetween == Abscissas = Lo(make.imax, make.i) .. Hi(make.imax, make.i)
  BY DEF Abscissas, Noise, By, Lo, Hi

LEMMA QuotientsGrow ==
  ASSUME NEW a \in Int, NEW b \in Int, NEW d \in Nat \ {0}, a + d <= b
  PROVE  (a \div d) + 1 <= b \div d
  OBVIOUS

\* A point is off its place by less than half a step: the next one is behind it.
LEMMA AbscissasAscend ==
  ASSUME NEW m \in 1 .. zone_x_max, NEW i \in 0 .. m
  PROVE  /\ Lo(m, i) \in Int /\ Hi(m, i) \in Int
         /\ i < m => Hi(m, i) + 1 <= Lo(m, i + 1)
<1> DEFINE p == zone_x_max * i
<1>1. m \in Nat \ {0} /\ i \in Nat /\ zone_x_max \in Nat /\ m <= zone_x_max /\ p \in Int
  BY LandingCaseAssumption
<1>2. 2 * zone_x_max * i = 2 * p /\ 2 * zone_x_max * (i + 1) = 2 * p + 2 * zone_x_max
  BY <1>1
<1>3. \A j \in Nat : By(m, j) \in Int
  BY <1>1 DEF By
<1>4. \A j \in Nat : By(m, j) = 0 \/ (By(m, j) = zone_x_max - 2 * m /\ zone_x_max > 2 * m)
  BY DEF By
<1> HIDE DEF p
<1> DEFINE a == 2 * (2 * p + By(m, i)) + 2 * m
           b == 2 * ((2 * p + 2 * zone_x_max) - By(m, i + 1)) + 2 * m
           c == 2 * (2 * p - By(m, i)) + 2 * m
           d == 2 * (2 * m)
<1>5. a \in Int /\ b \in Int /\ c \in Int /\ d \in Nat \ {0} /\ i + 1 \in Nat
  BY <1>1, <1>3
<1>6. Hi(m, i) = a \div d /\ Lo(m, i + 1) = b \div d /\ Lo(m, i) = c \div d
  <2>1. Hi(m, i) = RoundedDiv(2 * p + By(m, i), 2 * m)  BY <1>2 DEF Hi
  <2>2. Lo(m, i) = RoundedDiv(2 * p - By(m, i), 2 * m)  BY <1>2 DEF Lo
  <2>3. Lo(m, i + 1) = RoundedDiv((2 * p + 2 * zone_x_max) - By(m, i + 1), 2 * m)
    BY <1>2 DEF Lo
  <2> QED  BY <2>1, <2>2, <2>3 DEF RoundedDiv
<1>7. a + d <= b
  <2> DEFINE u == By(m, i)
             v == By(m, i + 1)
  <2>1. /\ u \in Int /\ (u = 0 \/ (u = zone_x_max - 2 * m /\ zone_x_max > 2 * m))
        /\ v \in Int /\ (v = 0 \/ (v = zone_x_max - 2 * m /\ zone_x_max > 2 * m))
    <3>1. u \in Int /\ v \in Int  BY <1>3, <1>5, <1>1
    <3>2. u = 0 \/ (u = zone_x_max - 2 * m /\ zone_x_max > 2 * m)  BY <1>4, <1>1
    <3>3. v = 0 \/ (v = zone_x_max - 2 * m /\ zone_x_max > 2 * m)  BY <1>4, <1>5
    <3> QED  BY <3>1, <3>2, <3>3
  <2> HIDE DEF u, v
  <2>2. u + v + 2 * m <= 2 * zone_x_max
    BY <2>1, <1>1
  <2>3. a = 2 * (2 * p + u) + 2 * m /\ b = 2 * ((2 * p + 2 * zone_x_max) - v) + 2 * m
    BY DEF u, v
  <2> QED  BY <2>1, <2>2, <2>3, <1>1
<1> HIDE DEF a, b, c, d
<1> QED  BY <1>5, <1>6, <1>7, QuotientsGrow

\* The first point is at the beginning of the zone, and the last one at its end.
LEMMA AbscissasEnd ==
  ASSUME NEW m \in 1 .. zone_x_max
  PROVE  Lo(m, 0) = 0 /\ Hi(m, 0) = 0 /\ Lo(m, m) = zone_x_max /\ Hi(m, m) = zone_x_max
<1>1. m \in Nat \ {0} /\ zone_x_max \in Nat
  BY LandingCaseAssumption
<1>2. By(m, 0) = 0 /\ By(m, m) = 0
  BY <1>1 DEF By
<1>3. (2 * m) \div (4 * m) = 0
  BY <1>1
<1>4. (zone_x_max * (4 * m) + 2 * m) \div (4 * m) = zone_x_max
  <2>1. \A q \in Int, r \in Nat, d \in Nat \ {0} : r < d => (q * d + r) \div d = q
    OBVIOUS
  <2>2. 2 * m \in Nat /\ 4 * m \in Nat \ {0} /\ 2 * m < 4 * m
    BY <1>1
  <2> QED  BY <2>1, <2>2, <1>1
<1>5. /\ 2 * (2 * zone_x_max * 0 - 0) + 2 * m = 2 * m /\ 2 * (2 * zone_x_max * 0 + 0) + 2 * m = 2 * m
      /\ 2 * (2 * zone_x_max * m - 0) + 2 * m = zone_x_max * (4 * m) + 2 * m
      /\ 2 * (2 * zone_x_max * m + 0) + 2 * m = zone_x_max * (4 * m) + 2 * m
      /\ 2 * (2 * m) = 4 * m
  BY <1>1
<1> QED  BY <1>2, <1>3, <1>4, <1>5 DEF Lo, Hi, RoundedDiv


-----------------------------------------------------------------------------
(* LandingCase: the surface *)

Rises(s) == \A n \in 1 .. Len(s) - 1 : s[n].x < s[n + 1].x

From == Point(make.flat_start, make.flat_elevation)
To == Point(make.flat_end, make.flat_elevation)
Spots == {From, To} \cup {Ground(x, p) : x \in 0 .. zone_x_max, p \in Heights}
LastX == surface[Len(surface)].x

Makes == [state : {"start", "flat", "end", "done"}, i : Nat, imax : 2 .. zone_x_max,
          flat_start : 0 .. zone_x_max, flat_end : 0 .. zone_x_max,
          flat_elevation : flat_elevations, steps : Nat]
Cases == [start : Int, end : Int, x : Int, y : altitudes \cup {0},
          tilt : {-tilt_max, 0, tilt_max}, vx : Int]

\* The flat is of an allowed width and inside the zone.
Sited ==
  /\ make \in Makes /\ case \in Cases
  /\ make.flat_start < make.flat_end /\ make.flat_end - make.flat_start \in flat_widths
  /\ make.i <= make.imax + 1
\* The points go from the beginning of the zone on, and never back.
Outlined ==
  /\ surface \in Seq(Spots) /\ Rises(surface)
  /\ make.i = 0 => surface = <<>> /\ make.state = "start"
  /\ make.i > 0 => Len(surface) > 0 /\ surface[1].x = 0
\* safe_area names the two points of the flat.
FlatKnown ==
  /\ case.start \in 0 .. Len(surface) - 2 /\ case.end = case.start + 1
  /\ surface[case.start + 1] = From /\ surface[case.start + 2] = To
\* Before the flat the last point is before it, and where its abscissa may be.
BeforeFlat ==
  make.state = "start" =>
    /\ case.start = -1 /\ case.end = -1 /\ make.i <= make.imax
    /\ make.i > 0 => LastX <= Hi(make.imax, make.i - 1) /\ LastX < make.flat_start
\* Over the flat its beginning is the last point, and its end is not there yet.
OverFlat ==
  make.state = "flat" /\ make.i <= make.imax =>
    /\ make.i > 0 /\ case.start = Len(surface) - 1 /\ case.end = -1
    /\ surface[Len(surface)] = From
BehindFlat ==
  make.state = "end" =>
    /\ make.i > 0 /\ FlatKnown
    /\ LastX <= Hi(make.imax, make.i - 1)
Closed == make.i > make.imax => LastX = zone_x_max /\ FlatKnown
Started ==
  make.state = "done" =>
    /\ make.i > make.imax
    /\ case.x < zone_x_max => Above(case.x, case.y)
    /\ case.vx > 0 => case.x < make.flat_start
    /\ case.vx < 0 => case.x > make.flat_end

CaseInv ==
  \/ make = [state |-> "none"] /\ surface = <<>> /\ case = NoCase
  \/ Sited /\ Outlined /\ BeforeFlat /\ OverFlat /\ BehindFlat /\ Closed /\ Started

LEMMA SpotsHaveAbscissas ==
  ASSUME make \in Makes
  PROVE  /\ From.x = make.flat_start /\ To.x = make.flat_end
         /\ \A x \in 0 .. zone_x_max, p \in Heights : Ground(x, p).x = x
         /\ \A a \in Spots : a.x \in Int
<1>1. /\ From.x = make.flat_start /\ To.x = make.flat_end
      /\ \A x \in 0 .. zone_x_max, p \in Heights : Ground(x, p).x = x
  BY DEF From, To, Ground, Point
<1>2. From.x \in Int /\ To.x \in Int
  BY <1>1, LandingCaseAssumption DEF Makes
<1> QED  BY <1>1, <1>2, LandingCaseAssumption DEF Spots

LEMMA Extended ==
  ASSUME NEW S, NEW s \in Seq(S), NEW t \in Seq(S), Rises(s), Rises(t),
         s # <<>> /\ t # <<>> => s[Len(s)].x < t[1].x
  PROVE  /\ s \o t \in Seq(S) /\ Len(s \o t) = Len(s) + Len(t)
         /\ \A n \in 1 .. Len(s) : (s \o t)[n] = s[n]
         /\ \A n \in 1 .. Len(t) : (s \o t)[Len(s) + n] = t[n]
         /\ Rises(s \o t)
<1>1. /\ s \o t \in Seq(S) /\ Len(s \o t) = Len(s) + Len(t)
      /\ Len(s) \in Nat /\ Len(t) \in Nat
      /\ s = <<>> <=> Len(s) = 0
      /\ t = <<>> <=> Len(t) = 0
  OBVIOUS
<1>2. \A n \in 1 .. Len(s) : (s \o t)[n] = s[n]
  OBVIOUS
<1>3. \A n \in 1 .. Len(t) : (s \o t)[Len(s) + n] = t[n]
  BY <1>1
<1>4. ASSUME NEW n \in 1 .. Len(s \o t) - 1 PROVE (s \o t)[n].x < (s \o t)[n + 1].x
  <2>1. n \in Nat /\ n + 1 \in Nat
    OBVIOUS
  <2>2. CASE n < Len(s)
    <3>1. n \in 1 .. Len(s) - 1 /\ n \in 1 .. Len(s) /\ n + 1 \in 1 .. Len(s)
      BY <2>1, <2>2, <1>1
    <3> QED  BY <3>1, <1>2 DEF Rises
  <2>3. CASE n = Len(s)
    <3>1. n \in 1 .. Len(s) /\ 1 \in 1 .. Len(t) /\ s # <<>> /\ t # <<>>
      BY <2>1, <2>3, <1>1
    <3> QED  BY <3>1, <2>3, <1>2, <1>3
  <2>4. CASE n > Len(s)
    <3> DEFINE k == n - Len(s)
    <3>1. /\ k \in 1 .. Len(t) - 1 /\ k \in 1 .. Len(t) /\ k + 1 \in 1 .. Len(t)
          /\ n = Len(s) + k /\ n + 1 = Len(s) + (k + 1)
      BY <2>1, <2>4, <1>1
    <3> HIDE DEF k
    <3> QED  BY <3>1, <1>3 DEF Rises
  <2> QED  BY <2>1, <2>2, <2>3, <2>4, <1>1
<1> QED  BY <1>1, <1>2, <1>3, <1>4 DEF Rises


-----------------------------------------------------------------------------
(* LandingCase: its steps *)

LEMMA CaseInitInv == ASSUME CaseInit PROVE CaseInv
  BY DEF CaseInit, CaseInv

LEMMA GetFlatKeeps ==
  ASSUME CaseInv, NEW w \in flat_widths, NEW cx \in 0 .. zone_x_max,
         NEW e \in flat_elevations, NEW n \in surface_points, GetFlat(w, cx, e, n)
  PROVE  CaseInv'
<1> DEFINE ofs == (w \div 2) + (w % 2)
           start == IF cx <= zone_x_max \div 2 THEN cx - ofs ELSE cx + ofs - w
<1>1. make.state = "none" /\ surface' = surface /\ case' = case
  BY DEF GetFlat
<1>2. surface = <<>> /\ case = NoCase
  BY <1>1 DEF CaseInv, Sited, Makes
<1>3. /\ w \in 1 .. zone_x_max /\ zone_x_max \in Nat /\ cx \in Int
      /\ n \in Nat /\ n > 2 /\ n - 1 <= zone_x_max
  BY LandingCaseAssumption
<1>4. ofs \in Int /\ 2 * ofs >= w /\ ofs <= w
  BY <1>3
<1>5. cx \in ofs .. zone_x_max - ofs
  BY DEF GetFlat
<1>6. make' = [state |-> "start", i |-> 0, imax |-> n - 1, flat_start |-> start,
               flat_end |-> start + w, flat_elevation |-> e, steps |-> 0]
  BY DEF GetFlat
<1> HIDE DEF ofs
<1>7. start \in 0 .. zone_x_max /\ start + w \in 0 .. zone_x_max
  BY <1>3, <1>4, <1>5
<1> HIDE DEF start
<1>8. n - 1 \in 2 .. zone_x_max
  BY <1>3
<1>9. make' \in Makes
  BY <1>6, <1>7, <1>8 DEF Makes
<1>10. Sited'
  <2>1. case' \in Cases
    BY <1>1, <1>2 DEF NoCase, Cases
  <2>2. make'.flat_start < make'.flat_end /\ make'.flat_end - make'.flat_start = w
    BY <1>6, <1>7, <1>3
  <2>3. make'.i <= make'.imax + 1
    BY <1>6, <1>8
  <2> QED  BY <1>9, <2>1, <2>2, <2>3 DEF Sited
<1>11. Outlined'
  <2>1. surface' \in Seq(Spots') /\ Len(surface') = 0
    BY <1>1, <1>2
  <2> QED  BY <2>1, <1>1, <1>2, <1>6 DEF Outlined, Rises
<1>12. BeforeFlat' /\ OverFlat' /\ BehindFlat' /\ Closed' /\ Started'
  <2>1. case'.start = -1 /\ case'.end = -1
    BY <1>1, <1>2 DEF NoCase
  <2>2. make'.state = "start" /\ ~(make'.i > make'.imax)
    BY <1>6, <1>8
  <2>3. make'.i <= make'.imax /\ ~(make'.i > 0)
    BY <1>6, <1>8
  <2> QED
    BY <2>1, <2>2, <2>3 DEF BeforeFlat, OverFlat, BehindFlat, Closed, Started
<1> QED  BY <1>10, <1>11, <1>12 DEF CaseInv

\* What one turn of fill_surface is given, and what it leaves.
Turning(x, t) ==
  /\ Sited /\ Outlined /\ BeforeFlat /\ OverFlat /\ BehindFlat /\ Closed
  /\ make.i \in 0 .. make.imax /\ make.imax \in 2 .. zone_x_max
  /\ x <= Hi(make.imax, make.i)
  /\ make.i = 0 => x = 0
  /\ make.i = make.imax => x = zone_x_max
  /\ make.i > 0 => Hi(make.imax, make.i - 1) < x /\ Hi(make.imax, make.i - 1) \in Int
  /\ surface' = surface \o t.points
  /\ make' = [make EXCEPT !.state = t.state, !.i = make.i + 1]
  /\ case' = [case EXCEPT !.start = SetWhere(case.start, make.flat_start, t.points),
                          !.end = SetWhere(case.end, make.flat_end, t.points)]

LEMMA FillTurns ==
  ASSUME CaseInv, NEW x \in 0 .. zone_x_max, NEW p \in Heights, FillSurface(x, p)
  PROVE  make.state \in {"start", "flat", "end"} /\ Turning(x, Turn(x, p))
<1>1. make.state \in {"start", "flat", "end"}
  BY DEF FillSurface
<1>2. Sited /\ Outlined /\ BeforeFlat /\ OverFlat /\ BehindFlat /\ Closed
  BY <1>1 DEF CaseInv
<1>3. make.i \in 0 .. make.imax /\ make.imax \in 2 .. zone_x_max
  BY <1>2 DEF FillSurface, Sited, Makes
<1>4. x \in Lo(make.imax, make.i) .. Hi(make.imax, make.i)
  BY AbscissasAreBetween DEF FillSurface
<1>5. make.imax \in 1 .. zone_x_max
  BY <1>3, LandingCaseAssumption
<1>6. Lo(make.imax, make.i) <= x /\ x <= Hi(make.imax, make.i)
  <2>1. Lo(make.imax, make.i) \in Int /\ Hi(make.imax, make.i) \in Int
    BY <1>3, <1>5, AbscissasAscend
  <2> QED  BY <2>1, <1>4
<1>7. make.i = 0 => x = 0
  BY <1>5, <1>6, AbscissasEnd
<1>8. make.i = make.imax => x = zone_x_max
  BY <1>5, <1>6, AbscissasEnd, LandingCaseAssumption
<1>9. make.i > 0 => Hi(make.imax, make.i - 1) < x /\ Hi(make.imax, make.i - 1) \in Int
  <2> SUFFICES ASSUME make.i > 0
               PROVE  Hi(make.imax, make.i - 1) < x /\ Hi(make.imax, make.i - 1) \in Int
    OBVIOUS
  <2> DEFINE k == make.i - 1
  <2>1. k \in 0 .. make.imax /\ k < make.imax /\ k + 1 = make.i
    BY <1>3
  <2> HIDE DEF k
  <2>2. Hi(make.imax, k) \in Int /\ Lo(make.imax, k + 1) \in Int
        /\ Hi(make.imax, k) + 1 <= Lo(make.imax, k + 1)
    <3>1. k + 1 \in 0 .. make.imax  BY <2>1, <1>3
    <3>2. Hi(make.imax, k) \in Int /\ Hi(make.imax, k) + 1 <= Lo(make.imax, k + 1)
      BY <1>5, <2>1, AbscissasAscend
    <3>3. Lo(make.imax, k + 1) \in Int
      BY <1>5, <3>1, AbscissasAscend
    <3> QED  BY <3>2, <3>3
  <2>3. Lo(make.imax, k + 1) <= x
    BY <2>1, <1>6
  <2>4. Hi(make.imax, k) < x
    BY <2>2, <2>3, LandingCaseAssumption
  <2> QED  BY <2>2, <2>4 DEF k
<1>10. /\ surface' = surface \o Turn(x, p).points
       /\ make' = [make EXCEPT !.state = Turn(x, p).state, !.i = make.i + 1]
       /\ case' = [case EXCEPT !.start = SetWhere(case.start, make.flat_start, Turn(x, p).points),
                               !.end = SetWhere(case.end, make.flat_end, Turn(x, p).points)]
  BY DEF FillSurface
<1> QED  BY <1>1, <1>2, <1>3, <1>6, <1>7, <1>8, <1>9, <1>10 DEF Turning

Filled(state, points, start, end) ==
  /\ surface' = surface \o points
  /\ make' = [make EXCEPT !.state = state, !.i = make.i + 1]
  /\ case' = [case EXCEPT !.start = start, !.end = end]
Continued(state, points, start, end) ==
  /\ Sited' /\ Outlined' /\ Started'
  /\ Spots' = Spots /\ From' = From /\ To' = To
  /\ make'.state = state /\ make'.i = make.i + 1 /\ make'.imax = make.imax
  /\ make'.flat_start = make.flat_start /\ make'.flat_end = make.flat_end
  /\ case'.start = start /\ case'.end = end
  /\ Len(surface') = Len(surface) + Len(points)
  /\ \A n \in 1 .. Len(surface) : surface'[n] = surface[n]
  /\ \A n \in 1 .. Len(points) : surface'[Len(surface) + n] = points[n]

\* The points of a turn go on where the last one was: the new case is sited and
\* outlined if they do.
LEMMA FillKeeps ==
  ASSUME Sited, Outlined, make.i \in 0 .. make.imax,
         NEW state \in {"start", "flat", "end"}, NEW points \in Seq(Spots),
         NEW start \in Int, NEW end \in Int,
         Rises(points),
         surface # <<>> /\ points # <<>> => LastX < points[1].x,
         make.i = 0 => points # <<>> /\ points[1].x = 0,
         Filled(state, points, start, end)
  PROVE  Continued(state, points, start, end)
<1>1. make \in Makes /\ case \in Cases /\ make.i \in Nat /\ make.imax \in 2 .. zone_x_max
  BY DEF Sited, Makes
<1>2. /\ make' \in Makes
      /\ make'.state = state /\ make'.i = make.i + 1 /\ make'.imax = make.imax
      /\ make'.flat_start = make.flat_start /\ make'.flat_end = make.flat_end
      /\ make'.flat_elevation = make.flat_elevation
  <2>1. make' = [state |-> state, i |-> make.i + 1, imax |-> make.imax,
                 flat_start |-> make.flat_start, flat_end |-> make.flat_end,
                 flat_elevation |-> make.flat_elevation, steps |-> make.steps]
    BY <1>1 DEF Makes, Filled
  <2>2. /\ make.i + 1 \in Nat /\ make.imax \in 2 .. zone_x_max
        /\ make.flat_start \in 0 .. zone_x_max /\ make.flat_end \in 0 .. zone_x_max
        /\ make.flat_elevation \in flat_elevations /\ make.steps \in Nat
    BY <1>1 DEF Makes
  <2> QED  BY <2>1, <2>2 DEF Makes
<1>3. case' \in Cases /\ case'.start = start /\ case'.end = end
  BY <1>1 DEF Cases, Filled
<1>4. Spots' = Spots /\ From' = From /\ To' = To
  BY <1>2 DEF Spots, From, To, Ground, Curved
<1>5. /\ surface' \in Seq(Spots) /\ Len(surface') = Len(surface) + Len(points)
      /\ \A n \in 1 .. Len(surface) : surface'[n] = surface[n]
      /\ \A n \in 1 .. Len(points) : surface'[Len(surface) + n] = points[n]
      /\ Rises(surface')
  <2>1. surface \in Seq(Spots) /\ Rises(surface)
    BY DEF Outlined
  <2>2. surface # <<>> /\ points # <<>> => surface[Len(surface)].x < points[1].x
    BY DEF LastX
  <2>3. /\ surface \o points \in Seq(Spots)
        /\ Len(surface \o points) = Len(surface) + Len(points)
        /\ \A n \in 1 .. Len(surface) : (surface \o points)[n] = surface[n]
        /\ \A n \in 1 .. Len(points) : (surface \o points)[Len(surface) + n] = points[n]
        /\ Rises(surface \o points)
    BY <2>1, <2>2, Extended
  <2> QED  BY <2>3 DEF Filled
<1>6. Sited'
  BY <1>1, <1>2, <1>3 DEF Sited
<1>7. make'.i > 0
  BY <1>1, <1>2
<1>8. Len(surface') > 0 /\ surface'[1].x = 0
  <2>1. Len(surface) \in Nat /\ Len(points) \in Nat
    BY DEF Outlined
  <2>2. CASE make.i > 0
    <3>1. Len(surface) > 0 /\ surface[1].x = 0
      BY <2>2 DEF Outlined
    <3>2. 1 \in 1 .. Len(surface)
      BY <3>1, <2>1
    <3> QED  BY <3>1, <3>2, <1>5, <2>1
  <2>3. CASE make.i = 0
    <3>1. Len(surface) = 0 /\ points # <<>> /\ points[1].x = 0
      BY <2>3 DEF Outlined
    <3>2. Len(points) > 0 /\ 1 \in 1 .. Len(points) /\ Len(surface) + 1 = 1
      BY <3>1, <2>1
    <3> QED  BY <3>1, <3>2, <1>5, <2>1
  <2> QED  BY <2>2, <2>3, <1>1
<1>9. Outlined'
  <2>1. surface' \in Seq(Spots')  BY <1>4, <1>5
  <2>2. Rises(surface)'  BY <1>5 DEF Rises
  <2>3. ~(make'.i = 0)  BY <1>7, <1>1, <1>2
  <2> QED  BY <2>1, <2>2, <2>3, <1>8 DEF Outlined
<1>10. Started'
  BY <1>2 DEF Started
<1> QED  BY <1>2, <1>3, <1>4, <1>5, <1>6, <1>9, <1>10 DEF Continued


-----------------------------------------------------------------------------
(* LandingCase: where safe_area is set *)

LEMMA SetAlready ==
  ASSUME NEW old, NEW x, NEW points, old >= 0 PROVE SetWhere(old, x, points) = old
  BY DEF SetWhere

LEMMA SetNowhere ==
  ASSUME NEW old, NEW x, NEW points, \A k \in DOMAIN points : points[k].x # x
  PROVE  SetWhere(old, x, points) = old
<1>1. \A k \in DOMAIN points : points[k] # Point(x, make.flat_elevation)
  BY DEF Point
<1>2. IndexOf(Point(x, make.flat_elevation), points) = {}
  BY <1>1 DEF IndexOf
<1> QED  BY <1>2 DEF SetWhere

LEMMA SetHere ==
  ASSUME NEW x, NEW points, NEW k \in DOMAIN points,
         points[k] = Point(x, make.flat_elevation),
         \A j \in DOMAIN points : j # k => points[j].x # x
  PROVE  SetWhere(-1, x, points) = Len(surface) + k - 1
<1>1. \A j \in DOMAIN points : points[j] = Point(x, make.flat_elevation) => j = k
  BY DEF Point
<1>2. IndexOf(Point(x, make.flat_elevation), points) = {Len(surface) + k - 1}
  BY <1>1 DEF IndexOf
<1>3. ~(-1 >= 0)
  OBVIOUS
<1> QED  BY <1>2, <1>3 DEF SetWhere


-----------------------------------------------------------------------------
(* LandingCase: one turn in each state *)

LEMMA FlatStays ==
  ASSUME FlatKnown, Len(surface) \in Nat, Len(surface') \in Nat, Len(surface) <= Len(surface'),
         case'.start = case.start, case'.end = case.end, From' = From, To' = To,
         \A n \in 1 .. Len(surface) : surface'[n] = surface[n]
  PROVE  FlatKnown'
<1>1. /\ case.start \in 0 .. Len(surface) - 2 /\ case.end = case.start + 1
      /\ surface[case.start + 1] = From /\ surface[case.start + 2] = To
  BY DEF FlatKnown
<1>2. case.start + 1 \in 1 .. Len(surface) /\ case.start + 2 \in 1 .. Len(surface)
      /\ case.start \in 0 .. Len(surface') - 2
  <2> DEFINE k == case.start
  <2>1. k \in Int /\ 0 <= k /\ k <= Len(surface) - 2
    BY <1>1
  <2> HIDE DEF k
  <2>2. k + 1 \in 1 .. Len(surface) /\ k + 2 \in 1 .. Len(surface) /\ k \in 0 .. Len(surface') - 2
    BY <2>1
  <2> QED  BY <2>2 DEF k
<1> QED  BY <1>1, <1>2 DEF FlatKnown

LEMMA LastIsPlaced ==
  ASSUME Sited, Outlined
  PROVE  /\ Len(surface) \in Nat /\ (surface = <<>> <=> Len(surface) = 0)
         /\ surface # <<>> => make.i > 0 /\ LastX \in Int
         /\ case.start \in Int /\ case.end \in Int
         /\ make.flat_start \in 0 .. zone_x_max /\ make.flat_end \in 0 .. zone_x_max
         /\ zone_x_max \in Nat /\ make.flat_start < make.flat_end
<1>1. make \in Makes /\ case \in Cases /\ surface \in Seq(Spots) /\ make.i \in Nat
  BY DEF Sited, Outlined, Makes
<1>2. Len(surface) \in Nat /\ (surface = <<>> <=> Len(surface) = 0)
  BY <1>1
<1>3. surface # <<>> => surface[Len(surface)] \in Spots
  BY <1>1, <1>2
<1>4. surface # <<>> => make.i > 0 /\ LastX \in Int
  BY <1>1, <1>3, SpotsHaveAbscissas DEF Outlined, LastX
<1> QED  BY <1>1, <1>2, <1>4, LandingCaseAssumption DEF Sited, Cases, Makes

\* A point of the ground before the flat, or behind it.
LEMMA GroundTurn ==
  ASSUME NEW x \in 0 .. zone_x_max, NEW p \in Heights, NEW t, Turning(x, t),
         \/ make.state = "start" /\ x < make.flat_start
         \/ make.state = "end",
         t.state = make.state, t.points = <<Ground(x, p)>>
  PROVE  CaseInv'
<1> DEFINE points == <<Ground(x, p)>>
<1>1. /\ Sited /\ Outlined /\ BeforeFlat /\ BehindFlat /\ make.i \in 0 .. make.imax
      /\ make.imax \in 2 .. zone_x_max /\ make \in Makes
      /\ x <= Hi(make.imax, make.i)
      /\ make.i = 0 => x = 0
      /\ make.i = make.imax => x = zone_x_max
      /\ make.i > 0 => Hi(make.imax, make.i - 1) < x /\ Hi(make.imax, make.i - 1) \in Int
  BY DEF Turning, Sited
<1>2. /\ Len(surface) \in Nat /\ (surface = <<>> <=> Len(surface) = 0)
      /\ surface # <<>> => make.i > 0 /\ LastX \in Int
      /\ case.start \in Int /\ case.end \in Int
      /\ make.flat_start \in 0 .. zone_x_max /\ make.flat_end \in 0 .. zone_x_max
      /\ zone_x_max \in Nat /\ make.flat_start < make.flat_end /\ x \in Int
  BY <1>1, LastIsPlaced
<1>3. Ground(x, p) \in Spots /\ Ground(x, p).x = x
  BY <1>1, SpotsHaveAbscissas DEF Spots
<1>4. /\ points \in Seq(Spots) /\ Len(points) = 1 /\ points[1].x = x /\ points # <<>>
      /\ DOMAIN points = {1} /\ Rises(points)
  <2>1. points \in Seq(Spots) /\ Len(points) = 1 /\ points[1].x = x /\ DOMAIN points = {1}
    BY <1>3
  <2>2. points # <<>>
    OBVIOUS
  <2> QED  BY <2>1, <2>2 DEF Rises
<1> HIDE DEF points
<1>5. surface # <<>> /\ points # <<>> => LastX < points[1].x
  <2> SUFFICES ASSUME surface # <<>> PROVE LastX < x
    BY <1>4
  <2>1. make.i > 0 /\ LastX \in Int
    BY <1>2
  <2>2. LastX <= Hi(make.imax, make.i - 1)
    BY <1>1, <2>1 DEF BeforeFlat, BehindFlat
  <2> QED  BY <2>1, <2>2, <1>1, <1>2
<1>6. /\ SetWhere(case.start, make.flat_start, points) = case.start
      /\ SetWhere(case.end, make.flat_end, points) = case.end
  <2>1. CASE make.state = "start"
    <3>1. \A k \in DOMAIN points : points[k].x # make.flat_start /\ points[k].x # make.flat_end
      BY <1>2, <1>4, <2>1
    <3> QED  BY <3>1, SetNowhere
  <2>2. CASE make.state = "end"
    <3>1. FlatKnown
      BY <1>1, <2>2 DEF BehindFlat
    <3>2. case.start >= 0 /\ case.end = case.start + 1 /\ case.start \in Int
      BY <3>1 DEF FlatKnown
    <3>3. case.start >= 0 /\ case.end >= 0
      BY <3>2
    <3> QED  BY <3>3, SetAlready
  <2> QED  BY <2>1, <2>2
<1>7. Filled(make.state, points, case.start, case.end)
  BY <1>6 DEF Turning, Filled, points
<1>8. make.i = 0 => points # <<>> /\ points[1].x = 0
  BY <1>1, <1>4
<1>9. /\ Sited' /\ Outlined' /\ Started'
      /\ From' = From /\ To' = To
      /\ make'.state = make.state /\ make'.i = make.i + 1 /\ make'.imax = make.imax
      /\ make'.flat_start = make.flat_start /\ make'.flat_end = make.flat_end
      /\ case'.start = case.start /\ case'.end = case.end
      /\ Len(surface') = Len(surface) + Len(points)
      /\ \A n \in 1 .. Len(surface) : surface'[n] = surface[n]
      /\ \A n \in 1 .. Len(points) : surface'[Len(surface) + n] = points[n]
  <2>1. make.state \in {"start", "flat", "end"}
    OBVIOUS
  <2>2. Continued(make.state, points, case.start, case.end)
    BY <2>1, <1>1, <1>2, <1>4, <1>5, <1>7, <1>8, FillKeeps
  <2> QED  BY <2>2 DEF Continued
<1>10. LastX' = x
  BY <1>4, <1>9 DEF LastX
<1>11. make'.i > 0 /\ make'.i - 1 = make.i /\ (make'.i > make'.imax => make.i = make.imax)
  BY <1>1, <1>9
<1>12. make'.state = "start" => make'.i <= make'.imax
  BY <1>1, <1>2, <1>9
<1>13. FlatKnown => FlatKnown'
  BY <1>2, <1>4, <1>9, FlatStays
<1>14. BeforeFlat'
  BY <1>1, <1>2, <1>9, <1>10, <1>11, <1>12 DEF BeforeFlat
<1>15. OverFlat'
  BY <1>9 DEF OverFlat
<1>16. BehindFlat'
  BY <1>1, <1>9, <1>10, <1>11, <1>13 DEF BehindFlat
<1>17. Closed'
  BY <1>1, <1>9, <1>10, <1>11, <1>12, <1>13 DEF Closed, BehindFlat
<1> QED  BY <1>9, <1>14, <1>15, <1>16, <1>17 DEF CaseInv


\* What the turns at the flat have in common.
LEMMA TurnFacts ==
  ASSUME NEW x \in 0 .. zone_x_max, NEW t, Turning(x, t)
  PROVE  /\ Sited /\ Outlined /\ BeforeFlat /\ OverFlat /\ make.i \in 0 .. make.imax
         /\ make.imax \in 2 .. zone_x_max
         /\ x <= Hi(make.imax, make.i)
         /\ make.i = 0 => x = 0
         /\ make.i = make.imax => x = zone_x_max
         /\ Len(surface) \in Nat /\ (surface = <<>> <=> Len(surface) = 0)
         /\ surface # <<>> => make.i > 0 /\ LastX \in Int
         /\ case.start \in Int /\ case.end \in Int
         /\ make.flat_start \in 0 .. zone_x_max /\ make.flat_end \in 0 .. zone_x_max
         /\ zone_x_max \in Nat /\ make.flat_start < make.flat_end /\ x \in Int
         /\ From \in Spots /\ To \in Spots
         /\ From.x = make.flat_start /\ To.x = make.flat_end
         /\ \A p \in Heights : Ground(x, p) \in Spots /\ Ground(x, p).x = x
<1>1. /\ Sited /\ Outlined /\ BeforeFlat /\ OverFlat /\ make.i \in 0 .. make.imax
      /\ make.imax \in 2 .. zone_x_max /\ make \in Makes
      /\ x <= Hi(make.imax, make.i)
      /\ make.i = 0 => x = 0
      /\ make.i = make.imax => x = zone_x_max
  BY DEF Turning, Sited
<1>2. /\ Len(surface) \in Nat /\ (surface = <<>> <=> Len(surface) = 0)
      /\ surface # <<>> => make.i > 0 /\ LastX \in Int
      /\ case.start \in Int /\ case.end \in Int
      /\ make.flat_start \in 0 .. zone_x_max /\ make.flat_end \in 0 .. zone_x_max
      /\ zone_x_max \in Nat /\ make.flat_start < make.flat_end /\ x \in Int
  BY <1>1, LastIsPlaced
<1>3. /\ From.x = make.flat_start /\ To.x = make.flat_end
      /\ \A p \in Heights : Ground(x, p).x = x
  BY <1>1, SpotsHaveAbscissas
<1>4. From \in Spots /\ To \in Spots /\ \A p \in Heights : Ground(x, p) \in Spots
  BY DEF Spots
<1> QED  BY <1>1, <1>2, <1>3, <1>4

\* The beginning of the flat takes the place of the first point behind it.
LEMMA BeginTurn ==
  ASSUME NEW x \in 0 .. zone_x_max, NEW t, Turning(x, t),
         make.state = "start", x >= make.flat_start, make.i # make.imax,
         t.state = "flat", t.points = <<From>>
  PROVE  CaseInv'
<1> DEFINE points == <<From>>
<1>1. /\ Sited /\ Outlined /\ BeforeFlat /\ make.i \in 0 .. make.imax
      /\ make.imax \in 2 .. zone_x_max
      /\ make.i = 0 => x = 0
      /\ Len(surface) \in Nat /\ (surface = <<>> <=> Len(surface) = 0)
      /\ surface # <<>> => make.i > 0
      /\ make.flat_start \in 0 .. zone_x_max /\ make.flat_end \in 0 .. zone_x_max
      /\ make.flat_start < make.flat_end /\ x \in Int /\ zone_x_max \in Nat
      /\ From \in Spots /\ From.x = make.flat_start
  BY TurnFacts
<1>2. /\ points \in Seq(Spots) /\ Len(points) = 1 /\ points[1] = From /\ points # <<>>
      /\ DOMAIN points = {1} /\ Rises(points)
  <2>1. points \in Seq(Spots) /\ Len(points) = 1 /\ points[1] = From /\ DOMAIN points = {1}
    BY <1>1
  <2>2. points # <<>>
    OBVIOUS
  <2> QED  BY <2>1, <2>2 DEF Rises
<1> HIDE DEF points
<1>3. surface # <<>> /\ points # <<>> => LastX < points[1].x
  BY <1>1, <1>2 DEF BeforeFlat
<1>4. make.i = 0 => points # <<>> /\ points[1].x = 0
  BY <1>1, <1>2
<1>5. case.start = -1 /\ case.end = -1
  BY <1>1 DEF BeforeFlat
<1>6. SetWhere(-1, make.flat_start, points) = Len(surface)
  <2>1. 1 \in DOMAIN points /\ points[1] = Point(make.flat_start, make.flat_elevation)
        /\ \A j \in DOMAIN points : j # 1 => points[j].x # make.flat_start
    BY <1>2 DEF From
  <2>2. SetWhere(-1, make.flat_start, points) = Len(surface) + 1 - 1
    BY <2>1, SetHere
  <2> QED  BY <2>2, <1>1
<1>7. SetWhere(-1, make.flat_end, points) = -1
  <2>1. \A k \in DOMAIN points : points[k].x # make.flat_end
    BY <1>1, <1>2
  <2> QED  BY <2>1, SetNowhere
<1>8. Filled("flat", points, Len(surface), -1)
  BY <1>5, <1>6, <1>7 DEF Turning, Filled, points
<1>9. Continued("flat", points, Len(surface), -1)
  <2>1. Len(surface) \in Int /\ -1 \in Int
    BY <1>1
  <2> QED  BY <2>1, <1>1, <1>2, <1>3, <1>4, <1>8, FillKeeps
<1>10. Len(surface') = Len(surface) + 1 /\ surface'[Len(surface) + 1] = From
  BY <1>2, <1>9 DEF Continued
<1>11. OverFlat'
  BY <1>1, <1>9, <1>10 DEF OverFlat, Continued
<1>12. BeforeFlat' /\ BehindFlat'
  BY <1>9 DEF BeforeFlat, BehindFlat, Continued
<1>13. Closed'
  <2>1. ~(make'.i > make'.imax)
    BY <1>1, <1>9 DEF Continued
  <2> QED  BY <2>1 DEF Closed
<1> QED  BY <1>9, <1>11, <1>12, <1>13 DEF CaseInv, Continued

\* Between the two ends of the flat nothing is added.
LEMMA FlatTurn ==
  ASSUME NEW x \in 0 .. zone_x_max, NEW t, Turning(x, t),
         make.state = "flat", x < make.flat_end,
         t.state = "flat", t.points = <<>>
  PROVE  CaseInv'
<1> DEFINE points == <<>>
<1>1. /\ Sited /\ Outlined /\ OverFlat /\ make.i \in 0 .. make.imax
      /\ make.imax \in 2 .. zone_x_max
      /\ make.i = make.imax => x = zone_x_max
      /\ Len(surface) \in Nat
      /\ case.start \in Int /\ case.end \in Int
      /\ make.flat_end \in 0 .. zone_x_max /\ x \in Int /\ zone_x_max \in Nat
  BY TurnFacts
<1>2. points \in Seq(Spots) /\ Len(points) = 0 /\ DOMAIN points = {} /\ Rises(points)
  <2>1. points \in Seq(Spots) /\ Len(points) = 0 /\ DOMAIN points = {}
    OBVIOUS
  <2> QED  BY <2>1 DEF Rises
<1>3. /\ make.i > 0 /\ case.start = Len(surface) - 1 /\ case.end = -1
      /\ surface[Len(surface)] = From
  BY <1>1 DEF OverFlat
<1>4. make.i < make.imax
  BY <1>1
<1>5. /\ SetWhere(case.start, make.flat_start, points) = case.start
      /\ SetWhere(case.end, make.flat_end, points) = case.end
  BY <1>2, SetNowhere
<1>6. points = <<>>
  OBVIOUS
<1> HIDE DEF points
<1>7. Filled("flat", points, case.start, case.end)
  BY <1>5, <1>6 DEF Turning, Filled
<1>8. Continued("flat", points, case.start, case.end)
  <2>1. surface # <<>> /\ points # <<>> => LastX < points[1].x
    BY <1>6
  <2>2. make.i = 0 => points # <<>> /\ points[1].x = 0
    BY <1>3, <1>1
  <2> QED  BY <2>1, <2>2, <1>1, <1>2, <1>7, FillKeeps
<1>9. Len(surface') = Len(surface) /\ surface'[Len(surface)] = From
  <2>1. Len(surface') = Len(surface)
    BY <1>1, <1>2, <1>8 DEF Continued
  <2>2. Len(surface) \in 1 .. Len(surface)
    BY <1>1, <1>3 DEF Outlined
  <2> QED  BY <2>1, <2>2, <1>3, <1>8 DEF Continued
<1>10. OverFlat'
  BY <1>1, <1>3, <1>8, <1>9 DEF OverFlat, Continued
<1>11. BeforeFlat' /\ BehindFlat'
  BY <1>8 DEF BeforeFlat, BehindFlat, Continued
<1>12. Closed'
  <2>1. ~(make'.i > make'.imax)
    BY <1>1, <1>4, <1>8 DEF Continued
  <2> QED  BY <2>1 DEF Closed
<1> QED  BY <1>8, <1>10, <1>11, <1>12 DEF CaseInv, Continued


\* The end of the flat takes the place of the next point behind it; the last
\* point of the zone is kept behind it.
LEMMA EndTurn ==
  ASSUME NEW x \in 0 .. zone_x_max, NEW p \in Heights, NEW t, Turning(x, t),
         make.state = "flat", x >= make.flat_end,
         t.state = "end",
         \/ t.points = <<To>> /\ ~(make.i = make.imax /\ x > make.flat_end)
         \/ t.points = <<To, Ground(x, p)>> /\ make.i = make.imax /\ x > make.flat_end
  PROVE  CaseInv'
<1> DEFINE points == t.points
           last == points[Len(points)].x
<1>1. /\ Sited /\ Outlined /\ OverFlat /\ make.i \in 0 .. make.imax
      /\ make.imax \in 2 .. zone_x_max
      /\ x <= Hi(make.imax, make.i)
      /\ make.i = make.imax => x = zone_x_max
      /\ Len(surface) \in Nat
      /\ make.flat_start \in 0 .. zone_x_max /\ make.flat_end \in 0 .. zone_x_max
      /\ make.flat_start < make.flat_end /\ x \in Int /\ zone_x_max \in Nat
      /\ From.x = make.flat_start /\ To.x = make.flat_end
      /\ To \in Spots /\ Ground(x, p) \in Spots /\ Ground(x, p).x = x
  BY TurnFacts
<1>2. /\ make.i > 0 /\ case.start = Len(surface) - 1 /\ case.end = -1
      /\ surface[Len(surface)] = From
      /\ Len(surface) > 0
  BY <1>1 DEF OverFlat, Outlined
<1>3. Hi(make.imax, make.i) \in Int
  <2>1. make.imax \in 1 .. zone_x_max
    BY <1>1
  <2> QED  BY <2>1, <1>1, AbscissasAscend
<1>4. /\ points \in Seq(Spots) /\ points # <<>>
      /\ Len(points) \in {1, 2} /\ DOMAIN points = 1 .. Len(points)
      /\ points[1] = To
      /\ \A j \in DOMAIN points : j # 1 => points[j].x > make.flat_end
      /\ Rises(points)
      /\ last \in Int /\ last <= x
      /\ make.i = make.imax => last = zone_x_max
  <2>1. CASE t.points = <<To>> /\ ~(make.i = make.imax /\ x > make.flat_end)
    <3>1. points \in Seq(Spots) /\ Len(points) = 1 /\ points[1] = To /\ DOMAIN points = {1}
      BY <2>1, <1>1
    <3>2. points # <<>>
      BY <2>1
    <3>3. last = make.flat_end
      BY <3>1, <1>1
    <3>4. make.i = make.imax => last = zone_x_max
      BY <3>3, <2>1, <1>1
    <3> QED  BY <3>1, <3>2, <3>3, <3>4, <1>1 DEF Rises
  <2>2. CASE t.points = <<To, Ground(x, p)>> /\ make.i = make.imax /\ x > make.flat_end
    <3>1. /\ points \in Seq(Spots) /\ Len(points) = 2 /\ DOMAIN points = {1, 2}
          /\ points[1] = To /\ points[2] = Ground(x, p)
      BY <2>2, <1>1
    <3>2. points # <<>>
      BY <2>2
    <3>3. last = x
      BY <3>1, <1>1
    <3>4. Rises(points)
      <4>1. \A n \in 1 .. Len(points) - 1 : n = 1
        BY <3>1
      <4> QED  BY <4>1, <3>1, <2>2, <1>1 DEF Rises
    <3> QED  BY <3>1, <3>2, <3>3, <3>4, <2>2, <1>1
  <2> QED  BY <2>1, <2>2
<1> HIDE DEF points
<1>5. surface # <<>> /\ points # <<>> => LastX < points[1].x
  BY <1>1, <1>2, <1>4 DEF LastX
<1>6. SetWhere(case.start, make.flat_start, points) = case.start
  <2>1. case.start >= 0
    BY <1>1, <1>2
  <2> QED  BY <2>1, SetAlready
<1>7. SetWhere(-1, make.flat_end, points) = Len(surface)
  <2>1. 1 \in DOMAIN points /\ points[1] = Point(make.flat_end, make.flat_elevation)
    BY <1>4 DEF To
  <2>2. \A j \in DOMAIN points : j # 1 => points[j].x # make.flat_end
    <3> SUFFICES ASSUME NEW j \in DOMAIN points, j # 1, points[j].x = make.flat_end PROVE FALSE
      OBVIOUS
    <3>1. points[j].x > make.flat_end
      BY <1>4
    <3> QED  BY <3>1, <1>1
  <2>3. SetWhere(-1, make.flat_end, points) = Len(surface) + 1 - 1
    BY <2>1, <2>2, SetHere
  <2> QED  BY <2>3, <1>1
<1>8. Filled("end", points, case.start, Len(surface))
  BY <1>2, <1>6, <1>7 DEF Turning, Filled, points
<1>9. Continued("end", points, case.start, Len(surface))
  <2>1. Len(surface) \in Int /\ case.start \in Int
    BY <1>1, <1>2
  <2>2. make.i = 0 => points # <<>> /\ points[1].x = 0
    BY <1>1, <1>2
  <2> QED  BY <2>1, <2>2, <1>1, <1>4, <1>5, <1>8, FillKeeps
<1>10. /\ Len(surface') = Len(surface) + Len(points)
       /\ surface'[Len(surface)] = From /\ surface'[Len(surface) + 1] = To
       /\ surface'[Len(surface) + Len(points)] = points[Len(points)]
  <2>1. Len(surface) \in 1 .. Len(surface) /\ 1 \in 1 .. Len(points) /\ Len(points) \in 1 .. Len(points)
    BY <1>1, <1>2, <1>4
  <2> QED  BY <2>1, <1>2, <1>4, <1>9 DEF Continued
<1>11. LastX' = last
  BY <1>10 DEF LastX
<1> HIDE DEF last
<1>12. FlatKnown'
  <2>1. case'.start = Len(surface) - 1 /\ case'.end = Len(surface) /\ From' = From /\ To' = To
    BY <1>2, <1>9 DEF Continued
  <2>2. case'.start + 1 = Len(surface) /\ case'.start + 2 = Len(surface) + 1
        /\ case'.end = case'.start + 1
    BY <2>1, <1>1
  <2>3. case'.start \in 0 .. Len(surface') - 2
    BY <2>1, <1>1, <1>2, <1>4, <1>10
  <2> QED  BY <2>1, <2>2, <2>3, <1>10 DEF FlatKnown
<1>13. BehindFlat'
  <2>1. make'.i > 0 /\ make'.i - 1 = make.i /\ make'.imax = make.imax
    <3>1. make'.i = make.i + 1 /\ make'.imax = make.imax
      BY <1>9 DEF Continued
    <3>2. make.i \in Nat
      BY <1>1
    <3> QED  BY <3>1, <3>2
  <2>2. last <= Hi(make.imax, make.i)
    BY <1>1, <1>3, <1>4
  <2> QED  BY <2>1, <2>2, <1>11, <1>12 DEF BehindFlat
<1>14. BeforeFlat' /\ OverFlat'
  BY <1>9 DEF BeforeFlat, OverFlat, Continued
<1>15. Closed'
  <2>1. make'.i > make'.imax => make.i = make.imax
    BY <1>1, <1>9 DEF Continued
  <2> QED  BY <2>1, <1>4, <1>11, <1>12 DEF Closed
<1> QED  BY <1>9, <1>13, <1>14, <1>15 DEF CaseInv, Continued

\* The flat ends the zone: both of its ends, and the last point behind them.
LEMMA WholeTurn ==
  ASSUME NEW x \in 0 .. zone_x_max, NEW p \in Heights, NEW t, Turning(x, t),
         make.state = "start", x >= make.flat_start, make.i = make.imax,
         t.state = "flat",
         \/ t.points = <<From, To>> /\ ~(x > make.flat_end)
         \/ t.points = <<From, To, Ground(x, p)>> /\ x > make.flat_end
  PROVE  CaseInv'
<1> DEFINE points == t.points
           last == points[Len(points)].x
<1>1. /\ Sited /\ Outlined /\ BeforeFlat /\ make.i \in 0 .. make.imax
      /\ make.imax \in 2 .. zone_x_max
      /\ make.i = make.imax => x = zone_x_max
      /\ Len(surface) \in Nat /\ (surface = <<>> <=> Len(surface) = 0)
      /\ surface # <<>> => make.i > 0
      /\ make.flat_start \in 0 .. zone_x_max /\ make.flat_end \in 0 .. zone_x_max
      /\ make.flat_start < make.flat_end /\ x \in Int /\ zone_x_max \in Nat
      /\ From.x = make.flat_start /\ To.x = make.flat_end
      /\ From \in Spots /\ To \in Spots /\ Ground(x, p) \in Spots /\ Ground(x, p).x = x
  BY TurnFacts
<1>2. case.start = -1 /\ case.end = -1 /\ make.i > 0 /\ x = zone_x_max
  BY <1>1 DEF BeforeFlat
<1>3. /\ points \in Seq(Spots) /\ points # <<>>
      /\ Len(points) \in {2, 3} /\ DOMAIN points = 1 .. Len(points)
      /\ points[1] = From /\ points[2] = To
      /\ Len(points) = 3 => points[3].x > make.flat_end
      /\ Rises(points)
      /\ last = zone_x_max
  <2>1. CASE t.points = <<From, To>> /\ ~(x > make.flat_end)
    <3>1. /\ points \in Seq(Spots) /\ Len(points) = 2 /\ DOMAIN points = {1, 2}
          /\ points[1] = From /\ points[2] = To
      BY <2>1, <1>1
    <3>2. points # <<>>
      BY <2>1
    <3>3. last = zone_x_max
      BY <3>1, <2>1, <1>1, <1>2
    <3>4. Rises(points)
      <4>1. \A n \in 1 .. Len(points) - 1 : n = 1
        BY <3>1
      <4> QED  BY <4>1, <3>1, <1>1 DEF Rises
    <3> QED  BY <3>1, <3>2, <3>3, <3>4
  <2>2. CASE t.points = <<From, To, Ground(x, p)>> /\ x > make.flat_end
    <3>1. /\ points \in Seq(Spots) /\ Len(points) = 3 /\ DOMAIN points = {1, 2, 3}
          /\ points[1] = From /\ points[2] = To /\ points[3] = Ground(x, p)
      BY <2>2, <1>1
    <3>2. points # <<>>
      BY <2>2
    <3>3. last = zone_x_max
      BY <3>1, <1>1, <1>2
    <3>4. Rises(points)
      <4>1. \A n \in 1 .. Len(points) - 1 : n = 1 \/ n = 2
        BY <3>1
      <4> QED  BY <4>1, <3>1, <2>2, <1>1 DEF Rises
    <3> QED  BY <3>1, <3>2, <3>3, <3>4, <2>2, <1>1
  <2> QED  BY <2>1, <2>2
<1> HIDE DEF points, last
<1>4. surface # <<>> /\ points # <<>> => LastX < points[1].x
  BY <1>1, <1>3 DEF BeforeFlat
<1>5. /\ 1 \in DOMAIN points /\ 2 \in DOMAIN points
      /\ points[1].x = make.flat_start /\ points[2].x = make.flat_end
      /\ \A j \in DOMAIN points : j # 1 => points[j].x # make.flat_start
      /\ \A j \in DOMAIN points : j # 2 => points[j].x # make.flat_end
  <2>1. 1 \in DOMAIN points /\ 2 \in DOMAIN points
    BY <1>3
  <2>2. \A j \in DOMAIN points : j = 1 \/ j = 2 \/ (j = 3 /\ Len(points) = 3)
    BY <1>3
  <2>3. points[1].x = make.flat_start /\ points[2].x = make.flat_end
    BY <1>1, <1>3
  <2>4. Len(points) = 3 => points[3].x # make.flat_start /\ points[3].x # make.flat_end
    <3> SUFFICES ASSUME Len(points) = 3
                 PROVE  points[3].x # make.flat_start /\ points[3].x # make.flat_end
      OBVIOUS
    <3>1. points[3] \in Spots
      <4>1. 3 \in 1 .. Len(points)
        OBVIOUS
      <4>2. points \in Seq(Spots)
        BY <1>3
      <4> QED  BY <4>1, <4>2, ElementOfSeq
    <3>2. points[3].x \in Int
      BY <3>1, <1>1, SpotsHaveAbscissas DEF Sited
    <3> QED  BY <3>2, <1>1, <1>3
  <2>5. make.flat_start # make.flat_end
    BY <1>1
  <2> QED  BY <2>1, <2>2, <2>3, <2>4, <2>5
<1>6. SetWhere(-1, make.flat_start, points) = Len(surface)
  <2>1. SetWhere(-1, make.flat_start, points) = Len(surface) + 1 - 1
    <3>1. 1 \in DOMAIN points /\ points[1] = Point(make.flat_start, make.flat_elevation)
      BY <1>3, <1>5 DEF From
    <3>2. \A j \in DOMAIN points : j # 1 => points[j].x # make.flat_start
      BY <1>5
    <3> QED  BY <3>1, <3>2, SetHere
  <2> QED  BY <2>1, <1>1
<1>7. SetWhere(-1, make.flat_end, points) = Len(surface) + 1
  <2>1. SetWhere(-1, make.flat_end, points) = Len(surface) + 2 - 1
    <3>1. 2 \in DOMAIN points /\ points[2] = Point(make.flat_end, make.flat_elevation)
      BY <1>3, <1>5 DEF To
    <3>2. \A j \in DOMAIN points : j # 2 => points[j].x # make.flat_end
      BY <1>5
    <3> QED  BY <3>1, <3>2, SetHere
  <2> QED  BY <2>1, <1>1
<1>8. Filled("flat", points, Len(surface), Len(surface) + 1)
  BY <1>2, <1>6, <1>7 DEF Turning, Filled, points
<1>9. Continued("flat", points, Len(surface), Len(surface) + 1)
  <2>1. Len(surface) \in Int /\ Len(surface) + 1 \in Int
    BY <1>1
  <2>2. make.i = 0 => points # <<>> /\ points[1].x = 0
    BY <1>1, <1>2
  <2> QED  BY <2>1, <2>2, <1>1, <1>3, <1>4, <1>8, FillKeeps
<1>10. /\ Len(surface') = Len(surface) + Len(points)
       /\ surface'[Len(surface) + 1] = From /\ surface'[Len(surface) + 2] = To
       /\ surface'[Len(surface) + Len(points)] = points[Len(points)]
  <2>1. 1 \in 1 .. Len(points) /\ 2 \in 1 .. Len(points) /\ Len(points) \in 1 .. Len(points)
    BY <1>3
  <2> QED  BY <2>1, <1>3, <1>9 DEF Continued
<1>11. LastX' = zone_x_max
  BY <1>3, <1>10 DEF LastX, last
<1>12. FlatKnown'
  <2>1. case'.start = Len(surface) /\ case'.end = Len(surface) + 1 /\ From' = From /\ To' = To
    BY <1>9 DEF Continued
  <2>2. case'.start \in 0 .. Len(surface') - 2
    BY <2>1, <1>1, <1>3, <1>10
  <2> QED  BY <2>1, <2>2, <1>10 DEF FlatKnown
<1>13. OverFlat'
  <2>1. ~(make'.i <= make'.imax)
    BY <1>1, <1>9 DEF Continued
  <2> QED  BY <2>1 DEF OverFlat
<1>14. BeforeFlat' /\ BehindFlat'
  BY <1>9 DEF BeforeFlat, BehindFlat, Continued
<1>15. Closed'
  BY <1>11, <1>12 DEF Closed
<1> QED  BY <1>9, <1>13, <1>14, <1>15 DEF CaseInv, Continued


-----------------------------------------------------------------------------
(* LandingCase: every case can be played *)

LEMMA OneMore ==
  ASSUME NEW a, NEW b, NEW c
  PROVE  <<a>> \o <<b>> = <<a, b>> /\ <<a, b>> \o <<c>> = <<a, b, c>>
<1> DEFINE S == {a, b, c}
<1>1. /\ <<a>> \in Seq(S) /\ <<b>> \in Seq(S) /\ <<c>> \in Seq(S)
      /\ <<a, b>> \in Seq(S) /\ <<a, b, c>> \in Seq(S)
  OBVIOUS
<1>2. <<a>> \o <<b>> = <<a, b>>
  <2>1. /\ <<a>> \o <<b>> \in Seq(S) /\ Len(<<a>> \o <<b>>) = 2
        /\ (<<a>> \o <<b>>)[1] = a /\ (<<a>> \o <<b>>)[2] = b
    BY <1>1
  <2>2. Len(<<a, b>>) = 2 /\ <<a, b>>[1] = a /\ <<a, b>>[2] = b
    OBVIOUS
  <2>3. \A i \in 1 .. 2 : (<<a>> \o <<b>>)[i] = <<a, b>>[i]
    <3> TAKE i \in 1 .. 2
    <3>1. i = 1 \/ i = 2
      OBVIOUS
    <3> QED  BY <3>1, <2>1, <2>2
  <2> HIDE DEF S
  <2> QED  BY <1>1, <2>1, <2>2, <2>3, SeqEqual
<1>3. <<a, b>> \o <<c>> = <<a, b, c>>
  <2>1. /\ <<a, b>> \o <<c>> \in Seq(S) /\ Len(<<a, b>> \o <<c>>) = 3
        /\ (<<a, b>> \o <<c>>)[1] = a /\ (<<a, b>> \o <<c>>)[2] = b
        /\ (<<a, b>> \o <<c>>)[3] = c
    BY <1>1
  <2>2. Len(<<a, b, c>>) = 3 /\ <<a, b, c>>[1] = a /\ <<a, b, c>>[2] = b /\ <<a, b, c>>[3] = c
    OBVIOUS
  <2>3. \A i \in 1 .. 3 : (<<a, b>> \o <<c>>)[i] = <<a, b, c>>[i]
    <3> TAKE i \in 1 .. 3
    <3>1. i = 1 \/ i = 2 \/ i = 3
      OBVIOUS
    <3> QED  BY <3>1, <2>1, <2>2
  <2> HIDE DEF S
  <2> QED  BY <1>1, <2>1, <2>2, <2>3, SeqEqual
<1> QED  BY <1>2, <1>3

LEMMA FillSurfaceKeeps ==
  ASSUME CaseInv, NEW x \in 0 .. zone_x_max, NEW p \in Heights, FillSurface(x, p)
  PROVE  CaseInv'
<1> DEFINE t == Turn(x, p)
<1>1. make.state \in {"start", "flat", "end"} /\ Turning(x, t)
  BY FillTurns
<1>2. /\ make.flat_start \in Int /\ make.flat_end \in Int /\ x \in Int
      /\ make.i \in Int /\ make.imax \in Int
  BY <1>1, TurnFacts
<1>3. CASE make.state = "end" \/ (make.state = "start" /\ x < make.flat_start)
  <2>1. t.state = make.state /\ t.points = <<Ground(x, p)>>
    BY <1>2, <1>3 DEF Turn
  <2> HIDE DEF t
  <2> QED  BY <2>1, <1>1, <1>3, GroundTurn
<1>4. CASE make.state = "start" /\ x >= make.flat_start /\ make.i # make.imax
  <2>1. t.state = "flat" /\ t.points = <<From>>
    BY <1>2, <1>4 DEF Turn, From
  <2> HIDE DEF t
  <2> QED  BY <2>1, <1>1, <1>4, BeginTurn
<1>5. CASE make.state = "start" /\ x >= make.flat_start /\ make.i = make.imax
  <2>1. t.state = "flat"
    BY <1>2, <1>5 DEF Turn
  <2>2. t.points = <<From, To>> \o (IF x > make.flat_end THEN <<Ground(x, p)>> ELSE <<>>)
    BY <1>2, <1>5 DEF Turn, From, To
  <2>3. CASE x > make.flat_end
    <3>1. t.points = <<From, To, Ground(x, p)>>
      <4>1. <<From, To>> \o <<Ground(x, p)>> = <<From, To, Ground(x, p)>>
        BY OneMore
      <4> QED  BY <4>1, <2>2, <2>3
    <3> HIDE DEF t
    <3> QED  BY <3>1, <2>1, <2>3, <1>1, <1>5, WholeTurn
  <2>4. CASE ~(x > make.flat_end)
    <3>1. t.points = <<From, To>>
      <4>1. <<From, To>> \o <<>> = <<From, To>>
        OBVIOUS
      <4> QED  BY <4>1, <2>2, <2>4
    <3> HIDE DEF t
    <3> QED  BY <3>1, <2>1, <2>4, <1>1, <1>5, WholeTurn
  <2> QED  BY <2>3, <2>4
<1>6. CASE make.state = "flat" /\ x >= make.flat_end
  <2>1. t.state = "end"
    BY <1>2, <1>6 DEF Turn
  <2>2. t.points = <<To>> \o (IF make.i = make.imax /\ x > make.flat_end
                              THEN <<Ground(x, p)>> ELSE <<>>)
    BY <1>2, <1>6 DEF Turn, To
  <2>3. CASE make.i = make.imax /\ x > make.flat_end
    <3>1. t.points = <<To, Ground(x, p)>>
      <4>1. <<To>> \o <<Ground(x, p)>> = <<To, Ground(x, p)>>
        BY OneMore
      <4> QED  BY <4>1, <2>2, <2>3
    <3> HIDE DEF t
    <3> QED  BY <3>1, <2>1, <2>3, <1>1, <1>6, EndTurn
  <2>4. CASE ~(make.i = make.imax /\ x > make.flat_end)
    <3>1. t.points = <<To>>
      <4>1. <<To>> \o <<>> = <<To>>
        OBVIOUS
      <4> QED  BY <4>1, <2>2, <2>4
    <3> HIDE DEF t
    <3> QED  BY <3>1, <2>1, <2>4, <1>1, <1>6, EndTurn
  <2> QED  BY <2>3, <2>4
<1>7. CASE make.state = "flat" /\ x < make.flat_end
  <2>1. t.state = "flat" /\ t.points = <<>>
    BY <1>2, <1>7 DEF Turn
  <2> HIDE DEF t
  <2> QED  BY <2>1, <1>1, <1>7, FlatTurn
<1> HIDE DEF t
<1> QED  BY <1>1, <1>2, <1>3, <1>4, <1>5, <1>6, <1>7

LEMMA SpeedIsTowardsTheFlat ==
  ASSUME NEW x \in Int, NEW speed \in Nat, make.flat_start \in Int, make.flat_end \in Int
  PROVE  LET vx == IF x \in make.flat_start .. make.flat_end THEN 0 ELSE Towards(x) * speed IN
         /\ vx \in Int
         /\ vx > 0 => x < make.flat_start
         /\ vx < 0 => x > make.flat_end
<1> DEFINE mid == (make.flat_start + make.flat_end) \div 2
<1>1. /\ mid \in Int
      /\ make.flat_start <= make.flat_end => make.flat_start <= mid /\ mid <= make.flat_end
      /\ make.flat_end <= make.flat_start => make.flat_end <= mid /\ mid <= make.flat_start
  OBVIOUS
<1>2. /\ Towards(x) \in {-1, 0, 1}
      /\ Towards(x) = 1 => mid > x
      /\ Towards(x) = -1 => mid < x
  <2>1. Towards(x) = Sign(mid - x)
    BY DEF Towards
  <2> HIDE DEF mid
  <2> QED  BY <2>1, <1>1 DEF Sign
<1>3. /\ Towards(x) * speed \in Int
      /\ Towards(x) * speed > 0 => Towards(x) = 1
      /\ Towards(x) * speed < 0 => Towards(x) = -1
  BY <1>2
<1> HIDE DEF mid
<1> QED  BY <1>1, <1>2, <1>3

LEMMA FillPositionKeeps ==
  ASSUME CaseInv, NEW x \in 0 .. zone_x_max, NEW y \in altitudes,
         NEW tilt \in {-tilt_max, 0, tilt_max}, NEW speed \in speeds,
         FillPosition(x, y, tilt, speed)
  PROVE  CaseInv'
<1> DEFINE vx == IF x \in make.flat_start .. make.flat_end THEN 0 ELSE Towards(x) * speed
<1>1. /\ make.state \in {"start", "flat", "end"} /\ make.i > make.imax /\ surface' = surface
  BY DEF FillPosition
<1>2. Sited /\ Outlined /\ Closed
  BY <1>1 DEF CaseInv
<1>3. /\ make \in Makes /\ case \in Cases /\ x \in Int /\ speed \in Nat
      /\ make.flat_start \in Int /\ make.flat_end \in Int
      /\ make.i \in Nat /\ make.imax \in Nat /\ make.steps \in Nat
  BY <1>2, LandingCaseAssumption DEF Sited, Makes
<1>4. /\ vx \in Int
      /\ vx > 0 => x < make.flat_start
      /\ vx < 0 => x > make.flat_end
  BY <1>3, SpeedIsTowardsTheFlat
<1>5. LastX = zone_x_max /\ FlatKnown
  BY <1>1, <1>2 DEF Closed
<1>6. ASSUME Above(x, y) \/ x = zone_x_max,
             make' = [make EXCEPT !.state = "done"],
             case' = [case EXCEPT !.x = x, !.y = y, !.tilt = tilt, !.vx = vx]
      PROVE  CaseInv'
  <2> HIDE DEF vx
  <2>1. /\ make' \in Makes /\ make'.state = "done" /\ make'.i = make.i /\ make'.imax = make.imax
        /\ make'.flat_start = make.flat_start /\ make'.flat_end = make.flat_end
        /\ make'.flat_elevation = make.flat_elevation
    BY <1>3, <1>6 DEF Makes
  <2>2. case' = [start |-> case.start, end |-> case.end, x |-> x, y |-> y, tilt |-> tilt, vx |-> vx]
    BY <1>3, <1>6 DEF Cases
  <2>3. case' \in Cases
    BY <2>2, <1>3, <1>4 DEF Cases
  <2>4. Spots' = Spots /\ From' = From /\ To' = To
    BY <2>1 DEF Spots, From, To, Ground, Curved
  <2>5. Sited'
    BY <2>1, <2>3, <1>2 DEF Sited
  <2>6. Outlined'
    <3>1. make'.i > 0
      BY <2>1, <1>1, <1>3
    <3>2. surface' \in Seq(Spots') /\ Rises(surface)'
      BY <2>4, <1>1, <1>2 DEF Outlined, Rises
    <3>3. Len(surface') > 0 /\ surface'[1].x = 0
      BY <3>1, <2>1, <1>1, <1>2 DEF Outlined
    <3>4. make'.i # 0
      BY <3>1
    <3> QED  BY <3>1, <3>2, <3>3, <3>4 DEF Outlined
  <2>7. BeforeFlat' /\ OverFlat' /\ BehindFlat'
    BY <2>1 DEF BeforeFlat, OverFlat, BehindFlat
  <2>8. Closed'
    BY <2>2, <2>4, <1>1, <1>5 DEF Closed, LastX, FlatKnown
  <2>9. Started'
    <3>1. x < zone_x_max => Above(x, y)
      BY <1>3, <1>6, LandingCaseAssumption
    <3>2. case'.x < zone_x_max => Above(case.x, case.y)'
      BY <3>1, <2>2, <1>1 DEF Above
    <3> QED  BY <3>2, <2>1, <2>2, <1>1, <1>4 DEF Started
  <2> QED  BY <2>5, <2>6, <2>7, <2>8, <2>9 DEF CaseInv
<1>7. ASSUME make' = [make EXCEPT !.steps = IF make.steps < tie_break THEN make.steps + 1 ELSE make.steps],
             case' = case
      PROVE  CaseInv'
  <2>1. /\ make' \in Makes /\ make'.state = make.state /\ make'.i = make.i /\ make'.imax = make.imax
        /\ make'.flat_start = make.flat_start /\ make'.flat_end = make.flat_end
        /\ make'.flat_elevation = make.flat_elevation
    BY <1>3, <1>7 DEF Makes
  <2>2. Spots' = Spots /\ From' = From /\ To' = To
    BY <2>1 DEF Spots, From, To, Ground, Curved
  <2>3. LastX' = LastX /\ FlatKnown' = FlatKnown
    BY <2>2, <1>1, <1>7 DEF LastX, FlatKnown
  <2>4. Sited'
    BY <2>1, <1>2, <1>7 DEF Sited
  <2>5. Outlined'
    BY <2>1, <2>2, <1>1, <1>2, <1>3 DEF Outlined, Rises
  <2>6. BeforeFlat /\ OverFlat /\ BehindFlat
    BY <1>1 DEF CaseInv
  <2>7. BeforeFlat'
    BY <2>1, <2>3, <2>6, <1>7 DEF BeforeFlat
  <2>8. OverFlat'
    BY <2>1, <2>2, <2>6, <1>1, <1>7 DEF OverFlat
  <2>9. BehindFlat'
    BY <2>1, <2>3, <2>6 DEF BehindFlat
  <2>10. Closed' /\ Started'
    BY <2>1, <2>3, <1>1, <1>5 DEF Closed, Started
  <2> QED  BY <2>4, <2>5, <2>7, <2>8, <2>9, <2>10 DEF CaseInv
<1> QED  BY <1>6, <1>7 DEF FillPosition

LEMMA CaseStepKeeps == ASSUME CaseInv, [CaseNext]_caseVars PROVE CaseInv'
<1>1. CASE UNCHANGED caseVars
  <2>1. make' = make /\ surface' = surface /\ case' = case
    BY <1>1 DEF caseVars
  <2>2. Spots' = Spots /\ From' = From /\ To' = To /\ LastX' = LastX
    BY <2>1 DEF Spots, From, To, Ground, Curved, LastX
  <2>3. FlatKnown' = FlatKnown
    BY <2>1, <2>2 DEF FlatKnown
  <2>4. Sited' = Sited
    BY <2>1 DEF Sited
  <2>5. Outlined' = Outlined
    BY <2>1, <2>2 DEF Outlined, Rises
  <2>6. BeforeFlat' = BeforeFlat /\ OverFlat' = OverFlat /\ BehindFlat' = BehindFlat /\ Closed' = Closed
    BY <2>1, <2>2, <2>3 DEF BeforeFlat, OverFlat, BehindFlat, Closed
  <2>7. Started' = Started
    BY <2>1 DEF Started, Above
  <2> QED  BY <2>1, <2>4, <2>5, <2>6, <2>7 DEF CaseInv
<1> QED
  BY <1>1, GetFlatKeeps, FillSurfaceKeeps, FillPositionKeeps DEF CaseNext

\* The surface grows from the beginning of the zone to its end, over the two
\* ends of the flat, whatever the noise, the widths and the number of points
\* (fill_surface).
THEOREM CaseInvariance == CaseSpec => []CaseInv
<1>1. CaseInit => CaseInv
  BY CaseInitInv
<1>2. CaseInv /\ [CaseNext]_caseVars => CaseInv'
  BY CaseStepKeeps
<1> QED  BY <1>1, <1>2, PTL DEF CaseSpec

\* Every landing case that is made up can be played (fill_surface,
\* fill_position), for every size of the zone and all widths of the flat.
THEOREM CasesArePlayable == CaseSpec => []CaseIsPlayable
<1>1. CaseInv => CaseIsPlayable
  <2> SUFFICES ASSUME CaseInv, make.state = "done"
               PROVE  /\ surface[1].x = 0 /\ surface[Len(surface)].x = zone_x_max
                      /\ \A n \in 1 .. Len(surface) - 1 : surface[n].x < surface[n + 1].x
                      /\ case.start >= 0 /\ case.end = case.start + 1
                      /\ surface[case.end + 1].x - surface[case.start + 1].x \in flat_widths
                      /\ surface[case.start + 1].y = surface[case.end + 1].y
                      /\ case.x < zone_x_max => Above(case.x, case.y)
                      /\ case.vx > 0 => case.x < make.flat_start
                      /\ case.vx < 0 => case.x > make.flat_end
    BY DEF CaseIsPlayable
  <2>1. Sited /\ Outlined /\ Closed /\ Started
    BY DEF CaseInv
  <2>2. make.i > make.imax /\ LastX = zone_x_max /\ FlatKnown
    BY <2>1 DEF Closed, Started
  <2>3. surface[1].x = 0
    BY <2>1, <2>2 DEF Sited, Makes, Outlined
  <2>4. /\ surface[Len(surface)].x = zone_x_max
        /\ \A n \in 1 .. Len(surface) - 1 : surface[n].x < surface[n + 1].x
    BY <2>1, <2>2 DEF LastX, Outlined, Rises
  <2>5. /\ case.start >= 0 /\ case.end = case.start + 1
        /\ surface[case.start + 1] = From /\ surface[case.end + 1] = To
    <3>1. Len(surface) \in Nat
      BY <2>1 DEF Outlined
    <3>2. case.start \in Int /\ case.start >= 0 /\ case.end = case.start + 1
      BY <3>1, <2>2 DEF FlatKnown
    <3>3. case.end + 1 = case.start + 2
      BY <3>2
    <3> QED  BY <3>2, <3>3, <2>2 DEF FlatKnown
  <2>6. To.x - From.x \in flat_widths /\ From.y = To.y
    BY <2>1 DEF Sited, From, To, Point
  <2> QED  BY <2>1, <2>3, <2>4, <2>5, <2>6 DEF Started
<1> QED  BY <1>1, CaseInvariance, PTL


-----------------------------------------------------------------------------
(* Simulation: arithmetic of the game *)

LEMMA FlatIsSegment ==
  LET k == safe_area.start IN
  /\ k \in 1 .. Len(ground) - 1 /\ Len(ground) \in Nat /\ safe_area.end = k + 1
  /\ \A n \in 1 .. Len(ground) : ground[n] \in Points /\ ground[n].x \in Int /\ ground[n].y \in Int
  /\ \A m, n \in 1 .. Len(ground) : m < n => ground[m].x < ground[n].x
  /\ flat_start = ground[k].x /\ flat_end = ground[k + 1].x
  /\ flat_alt = ground[k].y /\ flat_alt = ground[k + 1].y
  /\ flat_start \in Int /\ flat_end \in Int /\ flat_alt \in Int /\ flat_start < flat_end
<1> DEFINE k == safe_area.start
<1>1. ground \in Seq(Points) /\ Len(ground) \in Nat /\ DOMAIN ground = 1 .. Len(ground)
  BY SimulationAssumption DEF ground
<1>2. /\ k \in 1 .. Len(ground) - 1 /\ safe_area.end = k + 1
      /\ k \in 1 .. Len(ground) /\ k + 1 \in 1 .. Len(ground) /\ k < k + 1
  BY <1>1, SimulationAssumption DEF ground
<1>3. \A n \in 1 .. Len(ground) : ground[n] \in Points
  BY <1>1
<1>4. \A n \in 1 .. Len(ground) : ground[n].x \in Int /\ ground[n].y \in Int
  BY <1>3 DEF Points
<1>5. \A m, n \in 1 .. Len(ground) : m < n => ground[m].x < ground[n].x
  BY <1>1, SimulationAssumption DEF ground
<1>6. /\ flat_start = ground[k].x /\ flat_end = ground[k + 1].x
      /\ flat_alt = ground[k].y
  BY <1>2 DEF flat_start, flat_end, flat_alt
<1>7. flat_alt = ground[k + 1].y
  BY <1>2, <1>6, SimulationAssumption DEF ground
<1>8. flat_start \in Int /\ flat_end \in Int /\ flat_alt \in Int /\ flat_start < flat_end
  BY <1>2, <1>4, <1>5, <1>6
<1> QED  BY <1>1, <1>2, <1>3, <1>4, <1>5, <1>6, <1>7, <1>8

LEMMA SegmentOverFlat ==
  ASSUME NEW x \in Int, flat_start <= x, x < flat_end
  PROVE  Segment(x) = safe_area.start
<1> DEFINE k == safe_area.start
<1>1. /\ k \in 1 .. Len(ground) - 1 /\ Len(ground) \in Nat
      /\ \A n \in 1 .. Len(ground) : ground[n].x \in Int
      /\ \A m, n \in 1 .. Len(ground) : m < n => ground[m].x < ground[n].x
      /\ flat_start = ground[k].x /\ flat_end = ground[k + 1].x
  BY FlatIsSegment
<1> HIDE DEF k
<1>2. ground[k].x <= x /\ x < ground[k + 1].x
  BY <1>1
<1>3. ~(x >= ground[Len(ground)].x)
  <2>1. k + 1 \in 1 .. Len(ground) /\ Len(ground) \in 1 .. Len(ground) /\ k + 1 <= Len(ground)
    BY <1>1
  <2>2. ground[k + 1].x <= ground[Len(ground)].x
    <3>1. CASE k + 1 = Len(ground)
      BY <3>1, <2>1, <1>1
    <3>2. CASE k + 1 < Len(ground)
      BY <3>2, <2>1, <1>1
    <3> QED  BY <3>1, <3>2, <2>1
  <2> QED  BY <2>1, <2>2, <1>1, <1>2
<1>4. CASE x <= ground[1].x
  <2>1. k = 1
    <3> SUFFICES ASSUME k # 1 PROVE FALSE
      OBVIOUS
    <3>1. 1 \in 1 .. Len(ground) /\ k \in 1 .. Len(ground) /\ 1 < k
      BY <1>1
    <3> QED  BY <3>1, <1>1, <1>2, <1>4
  <2> QED  BY <2>1, <1>3, <1>4 DEF Segment, k
<1>5. CASE ~(x <= ground[1].x)
  <2>1. \A n \in 1 .. Len(ground) - 1 : ground[n].x <= x /\ x < ground[n + 1].x => n = k
    <3> SUFFICES ASSUME NEW n \in 1 .. Len(ground) - 1, ground[n].x <= x, x < ground[n + 1].x, n # k
                 PROVE  FALSE
      OBVIOUS
    <3>1. n \in 1 .. Len(ground) /\ n + 1 \in 1 .. Len(ground)
          /\ k \in 1 .. Len(ground) /\ k + 1 \in 1 .. Len(ground)
      BY <1>1
    <3>2. CASE n < k
      <4>1. ground[n + 1].x <= ground[k].x
        <5>1. n + 1 = k \/ n + 1 < k
          BY <3>2, <1>1
        <5> QED  BY <5>1, <3>1, <1>1
      <4> QED  BY <4>1, <3>1, <1>1, <1>2
    <3>3. CASE k < n
      <4>1. ground[k + 1].x <= ground[n].x
        <5>1. k + 1 = n \/ k + 1 < n
          BY <3>3, <1>1
        <5> QED  BY <5>1, <3>1, <1>1
      <4> QED  BY <4>1, <3>1, <1>1, <1>2
    <3> QED  BY <3>2, <3>3, <1>1
  <2>2. (CHOOSE n \in 1 .. Len(ground) - 1 : ground[n].x <= x /\ x < ground[n + 1].x) = k
    BY <2>1, <1>1, <1>2
  <2> QED  BY <2>2, <1>3, <1>5 DEF Segment, k
<1> QED  BY <1>4, <1>5

\* A quotient is rounded to no farther than what it lies between.
LEMMA RoundedBetween ==
  ASSUME NEW lo \in Int, NEW hi \in Int, NEW n \in Int, NEW d \in Nat \ {0},
         lo * d <= n, n <= hi * d
  PROVE  InnerRound(n, d) \in lo .. hi
<1>1. /\ lo * d \in Int /\ hi * d \in Int
      /\ (-lo) * d = -(lo * d) /\ (-hi) * d = -(hi * d)
  OBVIOUS
<1>2. \A a, q \in Int : q * d <= a => (2 * a + d) \div (2 * d) >= q
  OBVIOUS
<1>3. \A a, q \in Int : a <= q * d => (2 * a + d) \div (2 * d) <= q
  OBVIOUS
<1>4. \A a \in Int : (2 * a + d) \div (2 * d) \in Int
  OBVIOUS
<1>5. CASE n < 0
  <2>1. (-lo) * d >= -n /\ (-hi) * d <= -n
    BY <1>1
  <2> DEFINE r == (2 * (-n) + d) \div (2 * d)
  <2>2. r \in Int /\ r <= -lo /\ r >= -hi
    BY <2>1, <1>2, <1>3, <1>4
  <2>3. InnerRound(n, d) = -r
    <3>1. -2 * n = 2 * (-n)
      OBVIOUS
    <3> QED  BY <3>1, <1>5 DEF InnerRound
  <2> HIDE DEF r
  <2> QED  BY <2>2, <2>3
<1>6. CASE ~(n < 0)
  <2> DEFINE r == (2 * n + d) \div (2 * d)
  <2>1. r \in Int /\ lo <= r /\ r <= hi
    BY <1>2, <1>3, <1>4
  <2>2. InnerRound(n, d) = r
    BY <1>6 DEF InnerRound
  <2> HIDE DEF r
  <2> QED  BY <2>1, <2>2
<1> QED  BY <1>5, <1>6

\* The way from above the flat to below it crosses the flat between the two
\* ends of the way.
LEMMA TouchdownOnFlat ==
  ASSUME NEW p \in Landers, NEW q \in Landers,
         p.y > flat_alt, q.y <= flat_alt,
         flat_start <= p.x, p.x <= flat_end, flat_start <= q.x, q.x < flat_end
  PROVE  Touchdown(p, q).y = flat_alt /\ Touchdown(p, q).x \in flat_start .. flat_end
<1> DEFINE a == ground[Segment(q.x)]
           b == ground[Segment(q.x) + 1]
           a1 == p.y - q.y
           a2 == q.x - p.x
           a3 == p.x * q.y - q.x * p.y
           b1 == a.y - b.y
           b2 == b.x - a.x
           b3 == a.x * b.y - b.x * a.y
           cz == a1 * b2 - b1 * a2
           cx == a2 * b3 - b2 * a3
           cy == b1 * a3 - a1 * b3
           h == flat_alt
           w == flat_end - flat_start
           up == IF cz < 0 THEN -1 ELSE 1
<1>1. p.x \in Int /\ p.y \in Int /\ q.x \in Int /\ q.y \in Int
  BY DEF Landers
<1>2. /\ a.x = flat_start /\ b.x = flat_end /\ a.y = h /\ b.y = h
      /\ flat_start \in Int /\ flat_end \in Int /\ h \in Int /\ w \in Nat \ {0}
  <2>1. Segment(q.x) = safe_area.start
    BY <1>1, SegmentOverFlat
  <2>2. a.x = flat_start /\ b.x = flat_end /\ a.y = h /\ b.y = h
    BY <2>1, FlatIsSegment
  <2>3. flat_start \in Int /\ flat_end \in Int /\ flat_alt \in Int /\ flat_start < flat_end
    BY FlatIsSegment
  <2>4. w \in Nat \ {0}
    BY <2>3
  <2> QED  BY <2>2, <2>3, <2>4
<1>3. Touchdown(p, q) =
        IF cz = 0 THEN [x |-> 0, y |-> 0]
        ELSE [x |-> InnerRound(up * cx, up * cz), y |-> InnerRound(up * cy, up * cz)]
  BY DEF Touchdown
<1> HIDE DEF a, b
<1>4. b1 = 0 /\ b2 = w
  BY <1>2
<1>5. b3 = -(w * h)
  BY <1>2
<1>6. a1 \in Nat \ {0} /\ a2 \in Int /\ a3 \in Int /\ w * h \in Int /\ a1 * w \in Nat \ {0}
  BY <1>1, <1>2
<1>7. cz = a1 * w /\ cy = (a1 * w) * h
  <2> HIDE DEF a1, a2, a3, b1, b2, b3, w, h
  <2>1. h \in Int /\ w \in Int
    BY <1>2
  <2>2. a1 * w - 0 * a2 = a1 * w /\ 0 * a3 - a1 * (-(w * h)) = (a1 * w) * h
    BY <2>1, <1>6
  <2> QED  BY <2>2, <1>4, <1>5
<1> DEFINE m == p.x * (h - q.y) + q.x * (p.y - h)
<1>8. cx = w * m
  <2>1. cx = a2 * (-(w * h)) - w * a3
    BY <1>4, <1>5
  <2>2. m = -(a2 * h) - a3
    BY <1>1, <1>2
  <2> HIDE DEF a1, a2, a3, b1, b2, b3, w, h, m, cx
  <2>3. h \in Int /\ w \in Int
    BY <1>2
  <2>4. a2 * (-(w * h)) - w * a3 = w * (-(a2 * h) - a3)
    BY <2>3, <1>6
  <2> QED  BY <2>1, <2>2, <2>4
<1>9. m \in Int /\ flat_start * a1 <= m /\ m <= flat_end * a1
  <2> DEFINE u == h - q.y
             v == p.y - h
  <2>1. u \in Nat /\ v \in Nat /\ a1 = u + v /\ m = p.x * u + q.x * v
    BY <1>1, <1>2
  <2> HIDE DEF u, v, a1, m
  <2>2. /\ flat_start * u <= p.x * u /\ p.x * u <= flat_end * u
        /\ flat_start * v <= q.x * v /\ q.x * v <= flat_end * v
    BY <2>1, <1>1, <1>2
  <2>3. flat_start * (u + v) = flat_start * u + flat_start * v
        /\ flat_end * (u + v) = flat_end * u + flat_end * v
    BY <2>1, <1>2
  <2>4. /\ p.x * u \in Int /\ q.x * v \in Int /\ flat_start * u \in Int /\ flat_start * v \in Int
        /\ flat_end * u \in Int /\ flat_end * v \in Int
    BY <2>1, <1>1, <1>2
  <2> QED  BY <2>1, <2>2, <2>3, <2>4
<1>10. up = 1 /\ cz # 0 /\ cz \in Nat \ {0} /\ cx \in Int /\ cy \in Int
  <2> HIDE DEF a1, a2, a3, b1, b2, b3, w, h, m, cx, cy, cz
  <2>1. cz \in Nat \ {0} /\ h \in Int /\ w \in Int
    BY <1>2, <1>6, <1>7
  <2>2. cx \in Int /\ cy \in Int
    BY <2>1, <1>6, <1>7, <1>8, <1>9
  <2> QED  BY <2>1, <2>2
<1>11. flat_start * cz <= cx /\ cx <= flat_end * cz
  <2> HIDE DEF a1, a2, a3, b1, b2, b3, w, h, m, cx, cy, cz
  <2>1. w * (flat_start * a1) <= w * m /\ w * m <= w * (flat_end * a1)
    BY <1>2, <1>6, <1>9
  <2>2. w * (flat_start * a1) = flat_start * (a1 * w) /\ w * (flat_end * a1) = flat_end * (a1 * w)
    BY <1>2, <1>6
  <2> QED  BY <2>1, <2>2, <1>7, <1>8
<1>12. h * cz <= cy /\ cy <= h * cz
  <2> HIDE DEF a1, a2, a3, b1, b2, b3, w, h, m, cx, cy, cz
  <2>1. h \in Int /\ a1 * w \in Int /\ (a1 * w) * h = h * (a1 * w) /\ h * (a1 * w) \in Int
    BY <1>2, <1>6
  <2> QED  BY <2>1, <1>7
<1>13. up * cx = cx /\ up * cy = cy /\ up * cz = cz
  <2> HIDE DEF cx, cy, cz
  <2>1. \A i \in Int : 1 * i = i
    OBVIOUS
  <2> QED  BY <2>1, <1>10
<1> HIDE DEF a1, a2, a3, b1, b2, b3, w, h, m, cx, cy, cz, up
<1>14. Touchdown(p, q) = [x |-> InnerRound(cx, cz), y |-> InnerRound(cy, cz)]
  BY <1>3, <1>10, <1>13
<1>15. InnerRound(cx, cz) \in flat_start .. flat_end
  BY <1>2, <1>10, <1>11, RoundedBetween
<1>16. InnerRound(cy, cz) = h
  <2>1. InnerRound(cy, cz) \in h .. h
    BY <1>2, <1>10, <1>12, RoundedBetween
  <2> QED  BY <2>1, <1>2
<1> QED  BY <1>14, <1>15, <1>16 DEF h

LEMMA ShareBounded ==
  ASSUME NEW c \in Nat, NEW n \in Nat, NEW d \in Nat \ {0}
  PROVE  /\ (c * n) \div d \in Nat
         /\ n <= d => (c * n) \div d <= c
<1>1. c * n \in Nat
  OBVIOUS
<1>2. \A e \in Nat : e \div d \in Nat
  OBVIOUS
<1>3. \A e \in Nat : e <= c * d => e \div d <= c
  OBVIOUS
<1>4. n <= d => c * n <= c * d
  OBVIOUS
<1> QED  BY <1>1, <1>2, <1>3, <1>4

LEMMA TouchdownTyped ==
  ASSUME NEW p \in Landers, NEW q \in Landers, flat_start <= q.x, q.x < flat_end
  PROVE  Touchdown(p, q).x \in Int /\ Touchdown(p, q).y \in Int
<1> DEFINE a == ground[Segment(q.x)]
           b == ground[Segment(q.x) + 1]
           a1 == p.y - q.y
           a2 == q.x - p.x
           a3 == p.x * q.y - q.x * p.y
           b1 == a.y - b.y
           b2 == b.x - a.x
           b3 == a.x * b.y - b.x * a.y
           cz == a1 * b2 - b1 * a2
           cx == a2 * b3 - b2 * a3
           cy == b1 * a3 - a1 * b3
           up == IF cz < 0 THEN -1 ELSE 1
<1>1. p.x \in Int /\ p.y \in Int /\ q.x \in Int /\ q.y \in Int
  BY DEF Landers
<1>2. a.x \in Int /\ b.x \in Int /\ a.y \in Int /\ b.y \in Int
  BY <1>1, FlatIsSegment, SegmentOverFlat
<1>3. Touchdown(p, q) =
        IF cz = 0 THEN [x |-> 0, y |-> 0]
        ELSE [x |-> InnerRound(up * cx, up * cz), y |-> InnerRound(up * cy, up * cz)]
  BY DEF Touchdown
<1> HIDE DEF a, b
<1>4. /\ a1 \in Int /\ a2 \in Int /\ a3 \in Int /\ b1 \in Int /\ b2 \in Int /\ b3 \in Int
  BY <1>1, <1>2
<1> HIDE DEF a1, a2, a3, b1, b2, b3
<1>5. cx \in Int /\ cy \in Int /\ cz \in Int
  BY <1>4
<1> HIDE DEF cx, cy, cz
<1>6. up \in Int /\ up * cx \in Int /\ up * cy \in Int
  BY <1>5
<1>7. cz # 0 => up * cz \in Nat \ {0}
  <2>1. CASE cz < 0
    <3>1. up = -1 /\ -cz \in Nat \ {0} /\ (-1) * cz = -cz
      BY <2>1, <1>5
    <3> HIDE DEF up
    <3> QED  BY <3>1
  <2>2. CASE ~(cz < 0)
    <3>1. up = 1 /\ 1 * cz = cz
      BY <2>2, <1>5
    <3> HIDE DEF up
    <3> QED  BY <3>1, <2>2, <1>5
  <2> QED  BY <2>1, <2>2
<1> HIDE DEF up
<1>8. \A n \in Int, d \in Nat \ {0} : InnerRound(n, d) \in Int
  BY DEF InnerRound
<1> QED  BY <1>3, <1>6, <1>7, <1>8

-----------------------------------------------------------------------------
(* Simulation: the inductive invariant *)

Ends == {"Aerial", "Lost", "Landed", "Crashed"}
Games == [zero : turn_zero, steps : 0 .. game_steps, o : Ends, before : Landers, rating : Int]

\* No turn makes fuel.
FuelIsSpent == lander.fuel <= game.zero.fuel
\* The rating is made once, of how the game ended.
RatedAtEnd ==
  game.rating # -1 =>
    /\ game.o # "Aerial" \/ game.steps = 0
    /\ game.rating = Rating(game.steps, game.o, lander, game.zero)
FromAbove == game.before.y > flat_alt /\ game.before.x \in flat_start .. flat_end
PutDown ==
  game.o = "Landed" /\ FromAbove =>
    lander.y = flat_alt /\ lander.x \in flat_start .. flat_end

SimulationInv ==
  /\ game \in Games /\ lander \in Landers
  /\ FuelIsSpent
  /\ RatedAtEnd
  /\ PutDown

LEMMA SinesAreIntegers ==
  ASSUME NEW tilt \in -90 .. 90 PROVE Sine(tilt) \in Int /\ Cosine(tilt) \in Int
<1> DEFINE k == Magnitude(tilt) \div 15
<1>1. k \in 0 .. 6
  <2>1. Magnitude(tilt) \in 0 .. 90
    BY DEF Magnitude
  <2> QED  BY <2>1
<1> HIDE DEF k
<1>2. \A n \in 1 .. 7 : Sines[n] \in Int
  <2> SUFFICES ASSUME NEW n \in 1 .. 7 PROVE Sines[n] \in Int
    OBVIOUS
  <2>1. n = 1 \/ n = 2 \/ n = 3 \/ n = 4 \/ n = 5 \/ n = 6 \/ n = 7
    OBVIOUS
  <2>2. /\ Sines[1] = 0 /\ Sines[2] = 259 /\ Sines[3] = 500 /\ Sines[4] = 707
        /\ Sines[5] = 866 /\ Sines[6] = 966 /\ Sines[7] = 1000
    BY DEF Sines
  <2> QED  BY <2>1, <2>2
<1>3. 1 + k \in 1 .. 7 /\ 7 - k \in 1 .. 7
  BY <1>1
<1>4. Cosine(tilt) \in Int
  BY <1>2, <1>3 DEF Cosine, k
<1>5. Sine(tilt) \in Int
  <2>1. Sines[1 + k] \in Int
    BY <1>2, <1>3
  <2>2. Sine(tilt) = (IF tilt < 0 THEN -1 ELSE 1) * Sines[1 + k]
    BY DEF Sine, k
  <2> QED  BY <2>1, <2>2
<1> QED  BY <1>4, <1>5

LEMMA MovedTyped ==
  ASSUME NEW l \in Landers, NEW out \in outputs
  PROVE  Moved(l, out) \in Landers /\ Moved(l, out).fuel <= l.fuel
<1> DEFINE tilt == Clamp(l.tilt + Clamp(out.tilt - l.tilt, -15, 15), -90, 90)
           burn == Burn(l, out)
           aX == -Sine(tilt) * burn.thrust
           aY == Cosine(tilt) * burn.thrust + mars_gravity_acc
<1>1. /\ l.x \in Int /\ l.y \in Int /\ l.vx \in Int /\ l.vy \in Int
      /\ l.fuel \in Nat /\ l.thrust \in Int /\ l.tilt \in Int
      /\ out.thrust \in Int /\ out.tilt \in Int
  <2>1. out.thrust \in Int /\ out.tilt \in Int
    BY SimulationAssumption
  <2>2. /\ l.x \in Int /\ l.y \in Int /\ l.vx \in Int /\ l.vy \in Int
        /\ l.fuel \in Nat /\ l.thrust \in Int /\ l.tilt \in -90 .. 90
    BY DEF Landers
  <2> QED  BY <2>1, <2>2
<1>2. tilt \in -90 .. 90
  <2>1. \A n \in Int : Clamp(n, -15, 15) \in -15 .. 15 /\ Clamp(n, -90, 90) \in -90 .. 90
    BY DEF Clamp
  <2>2. out.tilt - l.tilt \in Int
    BY <1>1
  <2>3. Clamp(out.tilt - l.tilt, -15, 15) \in Int
    BY <2>1, <2>2
  <2>4. l.tilt + Clamp(out.tilt - l.tilt, -15, 15) \in Int
    BY <2>3, <1>1
  <2> QED  BY <2>1, <2>4
<1>3. Thrust(l, out) \in 0 .. 4
  <2>1. \A n \in Int : Clamp(n, -1, 1) \in -1 .. 1 /\ Clamp(n, 0, 4) \in 0 .. 4
    BY DEF Clamp
  <2>2. out.thrust - l.thrust \in Int
    BY <1>1
  <2>3. Clamp(out.thrust - l.thrust, -1, 1) \in Int
    BY <2>1, <2>2
  <2>4. l.thrust + Clamp(out.thrust - l.thrust, -1, 1) \in Int
    BY <2>3, <1>1
  <2> QED  BY <2>1, <2>4 DEF Thrust
<1>4. burn.fuel \in Nat /\ burn.fuel <= l.fuel /\ burn.thrust \in Int
  BY <1>1, <1>3 DEF Burn
<1> HIDE DEF tilt, burn
<1>5. aX \in Int /\ aY \in Int
  <2>1. Sine(tilt) \in Int /\ Cosine(tilt) \in Int /\ mars_gravity_acc \in Int
    BY <1>2, SinesAreIntegers DEF mars_gravity_acc
  <2> QED  BY <2>1, <1>4
<1> HIDE DEF aX, aY
<1>6. \A n \in Int : InnerRound(n, 2000) \in Int
  BY DEF InnerRound
<1>7. Moved(l, out) =
        [fuel |-> burn.fuel, thrust |-> burn.thrust, tilt |-> tilt,
         x |-> l.x + InnerRound(2 * l.vx + aX, 2000),
         y |-> l.y + InnerRound(2 * l.vy + aY, 2000),
         vx |-> l.vx + aX, vy |-> l.vy + aY]
  BY DEF Moved, tilt, burn, aX, aY
<1>8. /\ l.x + InnerRound(2 * l.vx + aX, 2000) \in Int
      /\ l.y + InnerRound(2 * l.vy + aY, 2000) \in Int
      /\ l.vx + aX \in Int /\ l.vy + aY \in Int
  BY <1>1, <1>5, <1>6
<1> QED  BY <1>2, <1>4, <1>7, <1>8 DEF Landers

\* A landing is where the limits hold and the flat is not below the ship.
LEMMA LandedIsDown ==
  ASSUME NEW l \in Landers
  PROVE  /\ Outcome(l) \in Ends
         /\ Outcome(l) = "Landed" =>
              flat_start <= l.x /\ l.x < flat_end /\ l.y <= flat_alt
<1>1. l.x \in Int /\ l.y \in Int
  BY DEF Landers
<1>2. Outcome(l) \in Ends
  BY DEF Outcome, Ends
<1>3. Outcome(l) = "Landed" => ~IsAerial(l) /\ flat_start <= l.x /\ l.x < flat_end
  BY DEF Outcome, WithinLimits
<1>4. ASSUME ~IsAerial(l), flat_start <= l.x, l.x < flat_end PROVE l.y <= flat_alt
  <2> DEFINE lo == ground[Segment(l.x)]
             hi == ground[Segment(l.x) + 1]
             x == Clamp(l.x, lo.x, hi.x)
  <2>1. /\ lo.x = flat_start /\ hi.x = flat_end /\ lo.y = flat_alt /\ hi.y = flat_alt
        /\ flat_start \in Int /\ flat_end \in Int /\ flat_alt \in Int /\ flat_start < flat_end
    BY <1>1, <1>4, FlatIsSegment, SegmentOverFlat
  <2>2. ~((l.y - lo.y) * (hi.x - lo.x) > (x - lo.x) * (hi.y - lo.y))
    BY <1>4 DEF IsAerial
  <2> HIDE DEF lo, hi
  <2>3. x \in Int
    BY <1>1, <2>1 DEF Clamp
  <2> HIDE DEF x
  <2>4. (x - lo.x) * (hi.y - lo.y) = 0
    BY <2>1, <2>3
  <2>5. (l.y - flat_alt) * (flat_end - flat_start) <= 0
    BY <2>1, <2>2, <2>4, <1>1
  <2> SUFFICES ASSUME l.y - flat_alt > 0 PROVE FALSE
    BY <1>1, <2>1
  <2>6. l.y - flat_alt \in Nat \ {0} /\ flat_end - flat_start \in Nat \ {0}
    BY <1>1, <2>1
  <2>7. (l.y - flat_alt) * (flat_end - flat_start) > 0
    BY <2>6
  <2> QED  BY <2>5, <2>7, <1>1, <2>1
<1> QED  BY <1>2, <1>3, <1>4

LEMMA Ratings ==
  ASSUME NEW steps \in 0 .. game_steps, NEW o \in Ends, NEW l \in Landers,
         NEW t \in turn_zero, l.fuel <= t.fuel
  PROVE  /\ Rating(steps, o, l, t) \in Int
         /\ o = "Crashed" => Rating(steps, o, l, t) >= 100000
         /\ o = "Landed" /\ l.x \in flat_start .. flat_end => Rating(steps, o, l, t) <= 100000
<1> DEFINE twice == Magnitude(2 * l.x - flat_start - flat_end)
           spent == t.fuel - l.fuel
           w == flat_end - flat_start
           off == Magnitude(l.y - flat_alt)
           above == t.y - flat_alt
<1>1. /\ l.x \in Int /\ l.y \in Int /\ l.fuel \in Nat /\ t \in Landers /\ t.fuel \in Nat \ {0}
      /\ t.y \in Int /\ steps \in Nat /\ game_steps \in Nat \ {0} /\ steps <= game_steps
      /\ 2 * zone_width \in Nat \ {0}
  BY SimulationAssumption DEF Landers
<1>2. flat_start \in Int /\ flat_end \in Int /\ flat_alt \in Int /\ flat_start < flat_end
  BY FlatIsSegment
<1>3. twice \in Nat /\ off \in Nat /\ spent \in Nat /\ spent <= t.fuel /\ w \in Nat \ {0}
  BY <1>1, <1>2 DEF Magnitude
<1>4. above \in Nat \ {0}
  <2>1. t.y > flat_alt
    BY SimulationAssumption DEF flat_alt, ground
  <2> QED  BY <2>1, <1>1, <1>2
<1>5. l.x \in flat_start .. flat_end => twice <= w
  BY <1>1, <1>2 DEF Magnitude
<1> HIDE DEF twice, spent, w, off, above
<1>6. /\ (10000 * steps) \div game_steps \in Nat /\ (10000 * steps) \div game_steps <= 10000
      /\ (20000 * steps) \div game_steps \in Nat
      /\ (100000 * steps) \div game_steps \in Nat
  BY <1>1, ShareBounded
<1>7. /\ (60000 * spent) \div t.fuel \in Nat /\ (60000 * spent) \div t.fuel <= 60000
      /\ (20000 * spent) \div t.fuel \in Nat
  BY <1>1, <1>3, ShareBounded
<1>8. /\ (30000 * twice) \div w \in Nat
      /\ twice <= w => (30000 * twice) \div w <= 30000
      /\ (35000 * twice) \div (2 * zone_width) \in Nat
      /\ (25000 * off) \div above \in Nat
  BY <1>1, <1>3, <1>4, ShareBounded
<1>9. CASE o = "Landed"
  <2>1. Rating(steps, o, l, t) =
          (10000 * steps) \div game_steps + (60000 * spent) \div t.fuel + (30000 * twice) \div w
    BY <1>9 DEF Rating, twice, spent, w
  <2> QED  BY <2>1, <1>5, <1>6, <1>7, <1>8, <1>9
<1>10. CASE o = "Crashed"
  <2>1. Rating(steps, o, l, t) =
          100000 + (20000 * steps) \div game_steps + (20000 * spent) \div t.fuel
            + (35000 * twice) \div (2 * zone_width) + (25000 * off) \div above
    BY <1>10 DEF Rating, twice, spent, off, above
  <2> QED  BY <2>1, <1>6, <1>7, <1>8, <1>10
<1>11. CASE o = "Aerial" \/ o = "Lost"
  <2>1. Rating(steps, o, l, t) = 200000 + (100000 * steps) \div game_steps
    BY <1>11 DEF Rating
  <2> QED  BY <2>1, <1>6, <1>11
<1> QED  BY <1>9, <1>10, <1>11 DEF Ends

-----------------------------------------------------------------------------
(* Simulation: its steps *)

LEMMA SimulationInitInv == ASSUME SimulationInit PROVE SimulationInv
<1>1. PICK t \in turn_zero :
        /\ lander = t
        /\ game = [zero |-> t, steps |-> game_steps, o |-> "Aerial", before |-> t, rating |-> -1]
  BY DEF SimulationInit
<1>2. t \in Landers /\ game_steps \in 0 .. game_steps
  BY SimulationAssumption
<1>3. game \in Games /\ lander \in Landers
  BY <1>1, <1>2 DEF Games, Ends
<1>4. FuelIsSpent /\ RatedAtEnd /\ PutDown
  BY <1>1, <1>2 DEF FuelIsSpent, RatedAtEnd, PutDown, Landers
<1> QED  BY <1>3, <1>4 DEF SimulationInv

LEMMA SimulateKeeps ==
  ASSUME SimulationInv, NEW out \in outputs, Simulate(out) PROVE SimulationInv'
<1> DEFINE l == Moved(lander, out)
           o == Outcome(l)
           down == Touchdown(lander, l)
<1>1. /\ game \in Games /\ lander \in Landers /\ game.o = "Aerial" /\ game.steps > 0
      /\ FuelIsSpent /\ RatedAtEnd
  BY DEF SimulationInv, Simulate
<1>2. /\ game.zero \in turn_zero /\ game.steps \in 0 .. game_steps /\ game.steps - 1 \in 0 .. game_steps
      /\ game.zero.fuel \in Nat
  <2>1. game.zero \in turn_zero /\ game.steps \in 0 .. game_steps
    BY <1>1 DEF Games
  <2>2. game.zero \in Landers
    BY <2>1, SimulationAssumption
  <2>3. game.steps - 1 \in 0 .. game_steps
    <3>1. game_steps \in Nat
      BY SimulationAssumption
    <3> QED  BY <3>1, <2>1, <1>1
  <2>4. game.zero.fuel \in Nat
    BY <2>2 DEF Landers
  <2> QED  BY <2>1, <2>3, <2>4
<1>3. game.rating = -1
  <2>1. game.steps # 0
    BY <1>1, <1>2
  <2> QED  BY <2>1, <1>1 DEF RatedAtEnd
<1>4. l \in Landers /\ l.fuel <= lander.fuel
  BY <1>1, MovedTyped
<1>5. /\ lander' = IF o = "Landed" THEN [l EXCEPT !.x = down.x, !.y = down.y] ELSE l
      /\ game' = [game EXCEPT !.steps = game.steps - 1, !.o = o, !.before = lander]
  BY DEF Simulate
<1> HIDE DEF l
<1>6. o \in Ends /\ (o = "Landed" => flat_start <= l.x /\ l.x < flat_end /\ l.y <= flat_alt)
  BY <1>4, LandedIsDown
<1>7. o = "Landed" => down.x \in Int /\ down.y \in Int
  BY <1>1, <1>4, <1>6, TouchdownTyped
<1>8. o = "Landed" /\ lander.y > flat_alt /\ lander.x \in flat_start .. flat_end =>
        down.y = flat_alt /\ down.x \in flat_start .. flat_end
  <2> SUFFICES ASSUME o = "Landed", lander.y > flat_alt, lander.x \in flat_start .. flat_end
               PROVE  down.y = flat_alt /\ down.x \in flat_start .. flat_end
    OBVIOUS
  <2>1. flat_start <= lander.x /\ lander.x <= flat_end
    BY FlatIsSegment
  <2> QED  BY <2>1, <1>1, <1>4, <1>6, TouchdownOnFlat
<1> HIDE DEF o, down
<1>9. /\ lander' \in Landers /\ lander'.fuel = l.fuel
      /\ o = "Landed" => lander'.x = down.x /\ lander'.y = down.y
  <2>1. CASE o = "Landed"
    <3>1. lander' = [l EXCEPT !.x = down.x, !.y = down.y]
      BY <2>1, <1>5
    <3> QED  BY <3>1, <1>4, <1>7, <2>1 DEF Landers
  <2>2. CASE o # "Landed"
    BY <2>2, <1>4, <1>5
  <2> QED  BY <2>1, <2>2
<1>10. /\ game' \in Games /\ game'.zero = game.zero /\ game'.o = o /\ game'.before = lander
       /\ game'.rating = -1
  <2>1. game' = [zero |-> game.zero, steps |-> game.steps - 1, o |-> o, before |-> lander,
                 rating |-> game.rating]
    BY <1>1, <1>5 DEF Games
  <2> QED  BY <2>1, <1>1, <1>2, <1>3, <1>6 DEF Games
<1>11. FuelIsSpent'
  <2>1. l.fuel \in Nat /\ lander.fuel \in Nat
    BY <1>1, <1>4 DEF Landers
  <2> QED  BY <2>1, <1>1, <1>2, <1>4, <1>9, <1>10 DEF FuelIsSpent
<1>12. RatedAtEnd'
  BY <1>10 DEF RatedAtEnd
<1>13. PutDown'
  BY <1>8, <1>9, <1>10 DEF PutDown, FromAbove
<1> QED  BY <1>9, <1>10, <1>11, <1>12, <1>13 DEF SimulationInv

LEMMA RateKeeps == ASSUME SimulationInv, Rate PROVE SimulationInv'
<1> DEFINE rating == Rating(game.steps, game.o, lander, game.zero)
<1>1. /\ game \in Games /\ lander \in Landers /\ FuelIsSpent /\ PutDown
      /\ game.o # "Aerial" \/ game.steps = 0
      /\ game' = [game EXCEPT !.rating = rating] /\ lander' = lander
  BY DEF SimulationInv, Rate
<1>2. rating \in Int
  BY <1>1, Ratings DEF Games, FuelIsSpent
<1> HIDE DEF rating
<1>3. /\ game' \in Games /\ game'.zero = game.zero /\ game'.o = game.o
      /\ game'.before = game.before /\ game'.steps = game.steps /\ game'.rating = rating
  BY <1>1, <1>2 DEF Games
<1>4. FuelIsSpent' /\ PutDown'
  BY <1>1, <1>3 DEF FuelIsSpent, PutDown, FromAbove
<1>5. RatedAtEnd'
  BY <1>1, <1>3 DEF RatedAtEnd, rating
<1> QED  BY <1>1, <1>3, <1>4, <1>5 DEF SimulationInv

\* The games of a runner, for any case and any answers of the network: fuel is
\* only spent, a game is rated when it is over (app::do_simulation).
THEOREM SimulationInvariance == SimulationSpec => []SimulationInv
<1>1. SimulationInit => SimulationInv
  BY SimulationInitInv
<1>2. SimulationInv /\ [SimulationNext]_simulationVars => SimulationInv'
  <2> SUFFICES ASSUME SimulationInv, [SimulationNext]_simulationVars PROVE SimulationInv'
    OBVIOUS
  <2>1. CASE UNCHANGED simulationVars
    BY <2>1 DEF simulationVars, SimulationInv, FuelIsSpent, RatedAtEnd, PutDown, FromAbove
  <2> QED  BY <2>1, SimulateKeeps, RateKeeps DEF SimulationNext
<1> QED  BY <1>1, <1>2, PTL DEF SimulationSpec

\* No landing from above the flat ranks behind a crash, and it puts the ship
\* down on the flat (simulate, intersect, eval_outcome_rating), for any case
\* and any limit of the steps.
THEOREM LandingsAreFirst == SimulationSpec => []LandingsRankFirst
<1>1. SimulationInv => LandingsRankFirst
  <2> SUFFICES ASSUME SimulationInv PROVE LandingsRankFirst
    OBVIOUS
  <2>1. /\ game.o \in Ends /\ game.steps \in 0 .. game_steps /\ game.zero \in turn_zero
        /\ lander \in Landers /\ game.rating \in Int /\ lander.fuel <= game.zero.fuel
    BY DEF SimulationInv, Games, FuelIsSpent
  <2>2. game.rating = -1 \/ game.rating = Rating(game.steps, game.o, lander, game.zero)
    BY DEF SimulationInv, RatedAtEnd
  <2>3. ASSUME game.o = "Landed", FromAbove
        PROVE  /\ lander.y = flat_alt /\ lander.x \in flat_start .. flat_end
               /\ game.rating <= 100000
    <3>1. lander.y = flat_alt /\ lander.x \in flat_start .. flat_end
      BY <2>3 DEF SimulationInv, PutDown
    <3>2. Rating(game.steps, game.o, lander, game.zero) <= 100000
      BY <2>1, <2>3, <3>1, Ratings
    <3> QED  BY <3>1, <3>2, <2>2
  <2>4. ASSUME game.o = "Crashed", game.rating >= 0 PROVE game.rating >= 100000
    <3>1. Rating(game.steps, game.o, lander, game.zero) >= 100000
      BY <2>1, <2>4, Ratings
    <3> QED  BY <3>1, <2>2, <2>4
  <2> QED  BY <2>3, <2>4 DEF LandingsRankFirst, FromAbove
<1> QED  BY <1>1, SimulationInvariance, PTL


-----------------------------------------------------------------------------
(* Setup: names, values and numbers *)

XvrNames == {"intermediate", "heuristic", "laplace", "scattered"}
MtnNames == {"gaussian", "power", "uniform", "disabled"}
Algorithms == [name : Names \cup XvrNames \cup MtnNames \cup {""}, values : Seq(Int)]

\* An alias stands for a name of its own kind, and each name for itself.
LEMMA AliasesResolve ==
  /\ \A n \in DOMAIN XvrAlias : XvrAlias[n] \in XvrNames
  /\ \A n \in DOMAIN MtnAlias : MtnAlias[n] \in MtnNames
  /\ XvrNames \subseteq DOMAIN XvrAlias /\ XvrNames = DOMAIN XvrDefaults
  /\ MtnNames \subseteq DOMAIN MtnAlias /\ MtnNames = DOMAIN MtnDefaults
<1>1. \A n \in DOMAIN XvrAlias : XvrAlias[n] \in XvrNames
  BY DEF XvrAlias, XvrNames
<1>2. \A n \in DOMAIN MtnAlias : MtnAlias[n] \in MtnNames
  BY DEF MtnAlias, MtnNames
<1>3. XvrNames \subseteq DOMAIN XvrAlias /\ XvrNames = DOMAIN XvrDefaults
  BY DEF XvrAlias, XvrNames, XvrDefaults
<1>4. MtnNames \subseteq DOMAIN MtnAlias /\ MtnNames = DOMAIN MtnDefaults
  BY DEF MtnAlias, MtnNames, MtnDefaults
<1> QED  BY <1>1, <1>2, <1>3, <1>4

LEMMA DefaultsOf ==
  /\ Defaults["intermediate"] = <<100>> /\ Defaults["heuristic"] = <<100>>
  /\ Defaults["laplace"] = <<0, 0>> /\ Defaults["scattered"] = <<50>>
  /\ Defaults["gaussian"] = <<0, 0, 100>> /\ Defaults["power"] = <<0, 0, 0>>
  /\ Defaults["uniform"] = <<0, 0, 1>> /\ Defaults["disabled"] = <<>>
<1>1. /\ DOMAIN XvrDefaults = XvrNames /\ DOMAIN MtnDefaults = MtnNames
  BY AliasesResolve
<1>2. Defaults = [n \in XvrNames \cup MtnNames |->
                    IF n \in XvrNames THEN XvrDefaults[n] ELSE MtnDefaults[n]]
  BY <1>1 DEF Defaults
<1>3. /\ Defaults["intermediate"] = XvrDefaults["intermediate"]
      /\ Defaults["heuristic"] = XvrDefaults["heuristic"]
      /\ Defaults["laplace"] = XvrDefaults["laplace"]
      /\ Defaults["scattered"] = XvrDefaults["scattered"]
  BY <1>2 DEF XvrNames
<1>4. /\ Defaults["gaussian"] = MtnDefaults["gaussian"]
      /\ Defaults["power"] = MtnDefaults["power"]
      /\ Defaults["uniform"] = MtnDefaults["uniform"]
      /\ Defaults["disabled"] = MtnDefaults["disabled"]
  BY <1>2 DEF XvrNames, MtnNames
<1> QED  BY <1>3, <1>4 DEF XvrDefaults, MtnDefaults, Hundred

\* A value that is given stays, one that is missing is the default.
LEMMA NormalisedValues ==
  ASSUME NEW name, NEW v \in Seq(Int), Defaults[name] \in Seq(Int)
  PROVE  /\ Normalised(name, v) \in Seq(Int) /\ Len(Normalised(name, v)) = Len(Defaults[name])
         /\ \A i \in 1 .. Len(Defaults[name]) :
              Normalised(name, v)[i] = IF i <= Len(v) THEN v[i] ELSE Defaults[name][i]
<1> DEFINE d == Defaults[name]
<1>1. /\ DOMAIN d = 1 .. Len(d) /\ Len(d) \in Nat /\ Len(v) \in Nat
      /\ \A i \in 1 .. Len(d) : d[i] \in Int
      /\ \A i \in 1 .. Len(v) : v[i] \in Int
  BY ElementOfSeq
<1>2. Normalised(name, v) = [i \in 1 .. Len(d) |-> IF i <= Len(v) THEN v[i] ELSE d[i]]
  BY <1>1 DEF Normalised
<1>3. \A i \in 1 .. Len(d) : (IF i <= Len(v) THEN v[i] ELSE d[i]) \in Int
  BY <1>1
<1>4. Normalised(name, v) \in Seq(Int)
  <2>1. Normalised(name, v) \in [1 .. Len(d) -> Int]
    BY <1>2, <1>3
  <2> QED  BY <2>1, <1>1, SeqDef
<1>5. Len(Normalised(name, v)) = Len(d)
  BY <1>1, <1>2, <1>4, LenProperties
<1> QED  BY <1>2, <1>4, <1>5

\* What has passed the validator and is completed would pass it again, and is
\* what the constructors index.
LEMMA CompletedIsUsable ==
  ASSUME NEW name \in XvrNames \cup MtnNames, NEW v \in Seq(Int), ~Rejected(name, v)
  PROVE  /\ Normalised(name, v) \in Seq(Int)
         /\ ~Rejected(name, Normalised(name, v))
         /\ AlgorithmUsable([name |-> name, values |-> Normalised(name, v)])
<1> DEFINE w == Normalised(name, v)
<1>1. Len(v) \in Nat /\ \A i \in 1 .. Len(v) : v[i] \in Int
  BY ElementOfSeq
<1>2. CASE name \in {"intermediate", "heuristic", "disabled"}
  <2>1. w \in Seq(Int) /\ Len(w) = Len(Defaults[name])
    <3>1. <<100>> \in Seq(Int) /\ <<>> \in Seq(Int)
      OBVIOUS
    <3>2. Defaults[name] = <<100>> \/ Defaults[name] = <<>>
      BY <1>2, DefaultsOf
    <3>3. Defaults[name] \in Seq(Int)
      BY <3>1, <3>2
    <3> QED  BY <3>3, NormalisedValues
  <2> HIDE DEF w
  <2> QED  BY <2>1, <1>2 DEF Rejected, RejectedXvr, RejectedMtn, AlgorithmUsable, w
<1>3. CASE name = "laplace"
  <2>1. Defaults[name] = <<0, 0>> /\ <<0, 0>> \in Seq(Int) /\ Len(<<0, 0>>) = 2
    BY <1>3, DefaultsOf
  <2>2. w \in Seq(Int) /\ Len(w) = 2
    BY <2>1, NormalisedValues
  <2> HIDE DEF w
  <2>3. ~Rejected(name, w)
    BY <2>2, <1>3 DEF Rejected, RejectedXvr, RejectedMtn
  <2>4. AlgorithmUsable([name |-> name, values |-> w])
    BY <2>1, <2>2, <1>3 DEF AlgorithmUsable
  <2> QED  BY <2>2, <2>3, <2>4 DEF w
<1>4. CASE name = "scattered"
  <2> DEFINE d == <<50>>
  <2>1. Defaults[name] = d /\ d \in Seq(Int) /\ Len(d) = 1 /\ d[1] = 50
    BY <1>4, DefaultsOf
  <2> HIDE DEF d
  <2>2. /\ w \in Seq(Int) /\ Len(w) = 1
        /\ \A i \in 1 .. 1 : w[i] = IF i <= Len(v) THEN v[i] ELSE d[i]
    <3>1. Defaults[name] \in Seq(Int)
      BY <2>1
    <3> QED  BY <3>1, <2>1, NormalisedValues
  <2>3. 1 <= Len(v) => v[1] \in Int /\ 1 <= v[1] /\ v[1] <= 99
    <3> SUFFICES ASSUME 1 <= Len(v) PROVE v[1] \in Int /\ 1 <= v[1] /\ v[1] <= 99
      OBVIOUS
    <3>1. v[1] \in Int /\ Len(v) > 0
      BY <1>1
    <3>2. ~(v[1] <= 0 \/ v[1] >= 100)
      BY <3>1, <1>4 DEF Rejected, RejectedXvr, Hundred
    <3> QED  BY <3>1, <3>2
  <2> HIDE DEF w
  <2>4. w[1] \in Int /\ 1 <= w[1] /\ w[1] <= 99
    <3>1. w[1] = IF 1 <= Len(v) THEN v[1] ELSE 50
      BY <2>1, <2>2
    <3> QED  BY <3>1, <2>3
  <2>5. ~Rejected(name, w)
    BY <2>2, <2>4, <1>4 DEF Rejected, RejectedXvr, RejectedMtn, Hundred
  <2>6. AlgorithmUsable([name |-> name, values |-> w])
    <3> DEFINE a == [name |-> name, values |-> w]
    <3>1. a.name = "scattered" /\ a.values = w /\ Len(Defaults[a.name]) = 1
      BY <2>1, <1>4
    <3>2. w[1] \in 1 .. Hundred - 1
      <4>1. \A n \in Int : 1 <= n /\ n <= 99 => n \in 1 .. Hundred - 1
        BY DEF Hundred
      <4> QED  BY <4>1, <2>4
    <3> HIDE DEF a
    <3>3. AlgorithmUsable(a)
      BY <3>1, <3>2, <2>2 DEF AlgorithmUsable
    <3> QED  BY <3>3 DEF a
  <2> QED  BY <2>2, <2>5, <2>6 DEF w
<1>5. CASE name = "gaussian"
  <2> DEFINE d == <<0, 0, 100>>
  <2>1. Defaults[name] = d /\ d \in Seq(Int) /\ Len(d) = 3 /\ d[1] = 0 /\ d[2] = 0 /\ d[3] = 100
    BY <1>5, DefaultsOf
  <2> HIDE DEF d
  <2>2. /\ w \in Seq(Int) /\ Len(w) = 3
        /\ \A i \in 1 .. 3 : w[i] = IF i <= Len(v) THEN v[i] ELSE d[i]
    <3>1. Defaults[name] \in Seq(Int)
      BY <2>1
    <3>2. /\ w \in Seq(Int) /\ Len(w) = Len(Defaults[name])
          /\ \A i \in 1 .. Len(Defaults[name]) : w[i] = IF i <= Len(v) THEN v[i] ELSE Defaults[name][i]
      BY <3>1, NormalisedValues
    <3> HIDE DEF w
    <3> QED  BY <3>2, <2>1
  <2>3. (Len(v) > 0 => ~(v[1] < 0)) /\ (Len(v) > 2 => ~(v[3] <= 0))
    BY <1>5 DEF Rejected, RejectedMtn
  <2> HIDE DEF w
  <2>4. w[1] \in Int /\ w[3] \in Int /\ w[1] >= 0 /\ w[3] > 0
    BY <2>1, <2>2, <2>3, <1>1
  <2>5. ~Rejected(name, w)
    BY <2>2, <2>4, <1>5 DEF Rejected, RejectedXvr, RejectedMtn
  <2>6. AlgorithmUsable([name |-> name, values |-> w])
    BY <2>1, <2>2, <2>4, <1>5 DEF AlgorithmUsable
  <2> QED  BY <2>2, <2>5, <2>6 DEF w
<1>6. CASE name = "power"
  <2> DEFINE d == <<0, 0, 0>>
  <2>1. Defaults[name] = d /\ d \in Seq(Int) /\ Len(d) = 3
    BY <1>6, DefaultsOf
  <2> HIDE DEF d
  <2>2. /\ w \in Seq(Int) /\ Len(w) = 3
        /\ \A i \in 1 .. 3 : w[i] = IF i <= Len(v) THEN v[i] ELSE d[i]
    <3>1. Defaults[name] \in Seq(Int)
      BY <2>1
    <3>2. /\ w \in Seq(Int) /\ Len(w) = Len(Defaults[name])
          /\ \A i \in 1 .. Len(Defaults[name]) : w[i] = IF i <= Len(v) THEN v[i] ELSE Defaults[name][i]
      BY <3>1, NormalisedValues
    <3> HIDE DEF w
    <3> QED  BY <3>2, <2>1
  <2>3. Len(v) >= 3 /\ ~(v[2] > v[3])
    BY <1>1, <1>6 DEF Rejected, RejectedMtn
  <2> HIDE DEF w
  <2>4. w[2] \in Int /\ w[3] \in Int /\ w[2] <= w[3]
    BY <2>1, <2>2, <2>3, <1>1
  <2>5. ~Rejected(name, w)
    BY <2>2, <2>4, <1>6 DEF Rejected, RejectedXvr, RejectedMtn
  <2>6. AlgorithmUsable([name |-> name, values |-> w])
    BY <2>1, <2>2, <2>4, <1>6 DEF AlgorithmUsable
  <2> QED  BY <2>2, <2>5, <2>6 DEF w
<1>7. CASE name = "uniform"
  <2> DEFINE d == <<0, 0, 1>>
  <2>1. Defaults[name] = d /\ d \in Seq(Int) /\ Len(d) = 3
    BY <1>7, DefaultsOf
  <2> HIDE DEF d
  <2>2. /\ w \in Seq(Int) /\ Len(w) = 3
        /\ \A i \in 1 .. 3 : w[i] = IF i <= Len(v) THEN v[i] ELSE d[i]
    <3>1. Defaults[name] \in Seq(Int)
      BY <2>1
    <3>2. /\ w \in Seq(Int) /\ Len(w) = Len(Defaults[name])
          /\ \A i \in 1 .. Len(Defaults[name]) : w[i] = IF i <= Len(v) THEN v[i] ELSE Defaults[name][i]
      BY <3>1, NormalisedValues
    <3> HIDE DEF w
    <3> QED  BY <3>2, <2>1
  <2>3. Len(v) >= 2 /\ ~(v[1] > v[2])
    BY <1>1, <1>7 DEF Rejected, RejectedMtn
  <2> HIDE DEF w
  <2>4. w[1] \in Int /\ w[2] \in Int /\ w[1] <= w[2]
    BY <2>1, <2>2, <2>3, <1>1
  <2>5. ~Rejected(name, w)
    BY <2>2, <2>4, <1>7 DEF Rejected, RejectedXvr, RejectedMtn
  <2>6. AlgorithmUsable([name |-> name, values |-> w])
    BY <2>1, <2>2, <2>4, <1>7 DEF AlgorithmUsable
  <2> QED  BY <2>2, <2>5, <2>6 DEF w
<1> QED  BY <1>2, <1>3, <1>4, <1>5, <1>6, <1>7 DEF XvrNames, MtnNames

LEMMA CrossoverIsMade ==
  ASSUME NEW args \in Arguments, ValidArgs(XvrAlias, args)
  PROVE  LET a == Validated(XvrAlias, args) IN
         XvrInstance(a) = a /\ a # None /\ AlgorithmUsable(a) /\ a \in Algorithms
<1> DEFINE name == XvrAlias[args.name]
           a == Validated(XvrAlias, args)
<1>1. args.values \in Seq(Int)
  BY SetupAssumption DEF Arguments
<1>2. name \in XvrNames /\ ~Rejected(name, args.values)
  BY AliasesResolve DEF ValidArgs
<1>3. a = [name |-> name, values |-> Normalised(name, args.values)]
  BY DEF Validated
<1> HIDE DEF name, a
<1>4. ~Rejected(a.name, a.values) /\ AlgorithmUsable(a)
  BY <1>1, <1>2, <1>3, CompletedIsUsable
<1>5. a.name \in DOMAIN XvrAlias /\ a.name \in DOMAIN XvrDefaults
  BY <1>2, <1>3, AliasesResolve
<1>6. a # None
  BY <1>2, <1>3 DEF None, XvrNames
<1>7. a \in Algorithms
  <2>1. Normalised(name, args.values) \in Seq(Int)
    BY <1>1, <1>2, CompletedIsUsable
  <2> QED  BY <2>1, <1>2, <1>3 DEF Algorithms
<1> QED  BY <1>4, <1>5, <1>6, <1>7 DEF a, XvrInstance, QuickValidArgs

LEMMA MutationIsMade ==
  ASSUME NEW args \in Arguments, ValidArgs(MtnAlias, args)
  PROVE  LET a == Validated(MtnAlias, args) IN
         MtnInstance(a) = a /\ a # None /\ AlgorithmUsable(a) /\ a \in Algorithms
<1> DEFINE name == MtnAlias[args.name]
           a == Validated(MtnAlias, args)
<1>1. args.values \in Seq(Int)
  BY SetupAssumption DEF Arguments
<1>2. name \in MtnNames /\ ~Rejected(name, args.values)
  BY AliasesResolve DEF ValidArgs
<1>3. a = [name |-> name, values |-> Normalised(name, args.values)]
  BY DEF Validated
<1> HIDE DEF name, a
<1>4. ~Rejected(a.name, a.values) /\ AlgorithmUsable(a)
  BY <1>1, <1>2, <1>3, CompletedIsUsable
<1>5. a.name \in DOMAIN MtnAlias /\ a.name \in DOMAIN MtnDefaults
  BY <1>2, <1>3, AliasesResolve
<1>6. a # None
  BY <1>2, <1>3 DEF None, MtnNames
<1>7. a \in Algorithms
  <2>1. Normalised(name, args.values) \in Seq(Int)
    BY <1>1, <1>2, CompletedIsUsable
  <2> QED  BY <2>1, <1>2, <1>3 DEF Algorithms
<1> QED  BY <1>4, <1>5, <1>6, <1>7 DEF a, MtnInstance, QuickValidArgs

LEMMA MaxOfTwo ==
  \A a, b \in Int : Max({a, b}) \in {a, b} /\ Max({a, b}) >= a /\ Max({a, b}) >= b
<1> SUFFICES ASSUME NEW a \in Int, NEW b \in Int
             PROVE  Max({a, b}) \in {a, b} /\ Max({a, b}) >= a /\ Max({a, b}) >= b
  OBVIOUS
<1>1. \E x \in {a, b} : \A y \in {a, b} : x >= y
  OBVIOUS
<1> QED  BY <1>1 DEF Max

LEMMA MinOfTwo ==
  \A a, b \in Int : Min({a, b}) \in {a, b} /\ Min({a, b}) <= a /\ Min({a, b}) <= b
<1> SUFFICES ASSUME NEW a \in Int, NEW b \in Int
             PROVE  Min({a, b}) \in {a, b} /\ Min({a, b}) <= a /\ Min({a, b}) <= b
  OBVIOUS
<1>1. \E x \in {a, b} : \A y \in {a, b} : x <= y
  OBVIOUS
<1> QED  BY <1>1 DEF Min

\* A reply that converts is in the range, and an empty one the default in it.
LEMMA ConvertedInRange ==
  ASSUME NEW reply, NEW lo \in Nat, NEW hi \in Nat, NEW def \in Nat, lo <= hi,
         Convertible(reply, lo, hi)
  PROVE  Converted(reply, lo, hi, def) \in lo .. hi
<1>1. Clamped(def, lo, hi) \in lo .. hi
  <2> DEFINE m == Min({def, hi})
  <2>1. m \in {def, hi} /\ m <= def /\ m <= hi
    BY MinOfTwo
  <2>2. m \in Nat
    BY <2>1
  <2> HIDE DEF m
  <2>3. Max({lo, m}) \in {lo, m} /\ Max({lo, m}) >= lo
    BY <2>2, MaxOfTwo
  <2>4. Max({lo, m}) \in lo .. hi
    BY <2>1, <2>2, <2>3
  <2> QED  BY <2>4 DEF Clamped, m
<1> QED  BY <1>1 DEF Converted, Convertible

LEMMA CountInRange ==
  ASSUME NEW unit, NEW x \in Numbers(Shares), NEW total \in Nat, NEW max,
         UnitAccepted(unit, x, max)
  PROVE  UnitCount(unit, x, total) \in 0 .. total
<1>1. CASE x = Empty
  BY <1>1 DEF UnitCount
<1>2. CASE x # Empty
  <2>1. x \in Nat
    BY <1>2, SetupAssumption DEF Numbers, UnitAccepted
  <2>2. Rounded(total, x) \in Nat
    <3>1. 2 * total * x + 100 \in Nat
      BY <2>1
    <3>2. \A n \in Nat : n \div 200 \in Nat
      OBVIOUS
    <3> QED  BY <3>1, <3>2 DEF Rounded
  <2>3. x \div Hundred \in Nat
    BY <2>1 DEF Hundred
  <2>4. \A n \in Nat : Min({n, total}) \in 0 .. total
    <3> SUFFICES ASSUME NEW n \in Nat PROVE Min({n, total}) \in 0 .. total
      OBVIOUS
    <3>1. n \in Int /\ total \in Int
      OBVIOUS
    <3>2. Min({n, total}) \in {n, total} /\ Min({n, total}) <= total
      BY <3>1, MinOfTwo
    <3> QED  BY <3>2
  <2> QED  BY <2>2, <2>3, <2>4, <1>2 DEF UnitCount
<1> QED  BY <1>1, <1>2

-----------------------------------------------------------------------------
(* Setup: the inductive invariant *)

Phases == {"population", "elite", "keep", "tournament", "crossover", "mutation", "cases",
           "ready", "reopened", "refused"}
Setups ==
  [population_size : Nat, elite_count : Nat, tournament_size : Nat,
   crossover : Algorithms, mutation : Algorithms, pxvr : Algorithms, pmtn : Algorithms,
   cases_count : Nat]

\* The elite is never larger than the population, once it has been asked for.
EliteFits ==
  /\ phase # "population" => setup.population_size > 0
  /\ phase \notin {"population", "elite"} => setup.elite_count <= setup.population_size
\* There is a tournament whenever the crossover is asked for.
TournamentFits ==
  /\ phase = "crossover" =>
       setup.elite_count < setup.population_size /\ setup.tournament_size \in 1 .. TournamentMax
\* No crossover is made before it was asked for; then it is what the file
\* would make again, and likewise the mutation.
NotYetMade ==
  phase \in {"population", "elite", "keep", "tournament", "crossover"} => setup.pxvr = None
CrossoverMade ==
  phase \in {"mutation", "cases", "ready", "reopened", "refused"} =>
    /\ SelectionPossible
    /\ setup.pxvr = setup.crossover /\ setup.crossover = XvrInstance(setup.crossover)
    /\ setup.pxvr # None => AlgorithmUsable(setup.pxvr)
MutationMade ==
  phase \in {"cases", "ready", "reopened", "refused"} =>
    /\ setup.pmtn = setup.mutation /\ setup.mutation = MtnInstance(setup.mutation)
    /\ setup.pmtn # None /\ AlgorithmUsable(setup.pmtn)
CasesKnown ==
  phase \in {"ready", "reopened", "refused"} => setup.cases_count >= 1
RefusedOfElite ==
  phase = "refused" => setup.elite_count = setup.population_size

SetupInv ==
  /\ phase \in Phases /\ setup \in Setups
  /\ EliteFits /\ TournamentFits
  /\ NotYetMade /\ CrossoverMade /\ MutationMade
  /\ CasesKnown /\ RefusedOfElite

LEMMA SetupInitInv == ASSUME SetupInit PROVE SetupInv
<1>1. phase = "population" /\ setup = NewSetup
  BY DEF SetupInit
<1>2. None \in Algorithms
  <2>1. <<>> \in Seq(Int)
    OBVIOUS
  <2> QED  BY <2>1 DEF None, Algorithms
<1>3. phase \in Phases /\ setup \in Setups /\ setup.pxvr = None
  BY <1>1, <1>2 DEF NewSetup, Setups, Phases
<1> QED
  BY <1>1, <1>3 DEF SetupInv, EliteFits, TournamentFits, NotYetMade, CrossoverMade,
     MutationMade, CasesKnown, RefusedOfElite

\* A prompt that is repeated changes nothing.
LEMMA RepeatKeeps == ASSUME SetupInv, Repeat PROVE SetupInv'
  BY DEF Repeat, setupVars, SetupInv, EliteFits, TournamentFits, TournamentMax, NotYetMade,
     CrossoverMade, SelectionPossible, MutationMade, CasesKnown, RefusedOfElite

LEMMA AskPopulationKeeps ==
  ASSUME SetupInv, NEW reply, AskPopulation(reply) PROVE SetupInv'
<1> DEFINE max == Max(Populations)
           n == Converted(reply, 1, max, 1)
<1>1. CASE Convertible(reply, 1, max)
  <2>1. n \in 1 .. max /\ max \in Nat
    BY <1>1, ConvertedInRange, SetupAssumption
  <2>2. /\ setup \in Setups /\ phase = "population" /\ setup.pxvr = None /\ phase' = "elite"
        /\ setup' = [setup EXCEPT !.population_size = n]
    BY <1>1 DEF SetupInv, NotYetMade, AskPopulation
  <2> HIDE DEF n, max
  <2>3. setup' \in Setups /\ setup'.population_size = n /\ setup'.pxvr = None
    BY <2>1, <2>2 DEF Setups
  <2> QED
    BY <2>1, <2>2, <2>3 DEF SetupInv, Phases, EliteFits, TournamentFits, NotYetMade, CrossoverMade,
       MutationMade, CasesKnown, RefusedOfElite
<1>2. CASE ~Convertible(reply, 1, max)
  BY <1>2, RepeatKeeps DEF AskPopulation
<1> QED  BY <1>1, <1>2

LEMMA AskEliteKeeps ==
  ASSUME SetupInv, NEW unit, NEW x \in Numbers(Shares), AskElite(unit, x) PROVE SetupInv'
<1> DEFINE n == UnitCount(unit, x, setup.population_size)
<1>1. CASE UnitAccepted(unit, x, setup.population_size)
  <2>1. /\ setup \in Setups /\ phase = "elite" /\ setup.pxvr = None /\ setup.population_size > 0
        /\ setup' = [setup EXCEPT !.elite_count = n] /\ phase' \in {"keep", "tournament"}
    BY <1>1 DEF SetupInv, NotYetMade, EliteFits, AskElite
  <2>2. setup.population_size \in Nat
    BY <2>1 DEF Setups
  <2>3. n \in 0 .. setup.population_size
    BY <1>1, <2>2, CountInRange
  <2> HIDE DEF n
  <2>4. /\ setup' \in Setups /\ setup'.population_size = setup.population_size
        /\ setup'.elite_count = n /\ setup'.pxvr = None
    BY <2>1, <2>2, <2>3 DEF Setups
  <2> QED
    BY <2>1, <2>2, <2>3, <2>4 DEF SetupInv, Phases, EliteFits, TournamentFits, NotYetMade,
       CrossoverMade, MutationMade, CasesKnown, RefusedOfElite
<1>2. CASE ~UnitAccepted(unit, x, setup.population_size)
  BY <1>2, RepeatKeeps DEF AskElite
<1> QED  BY <1>1, <1>2

LEMMA AskKeepKeeps == ASSUME SetupInv, NEW yes \in BOOLEAN, AskKeep(yes) PROVE SetupInv'
<1>1. phase = "keep" /\ phase' \in {"tournament", "elite"} /\ setup' = setup
  BY DEF AskKeep
<1> QED
  BY <1>1 DEF SetupInv, Phases, EliteFits, TournamentFits, NotYetMade, CrossoverMade,
     MutationMade, CasesKnown, RefusedOfElite

LEMMA NoCrossoverIsMade == XvrInstance(None) = None
  BY DEF XvrInstance, QuickValidArgs, None, XvrAlias

\* What is left of the population decides whether a crossover is asked for.
LEMMA AskTournamentKeeps ==
  ASSUME SetupInv, NEW reply, AskTournament(reply) PROVE SetupInv'
<1>1. /\ setup \in Setups /\ phase = "tournament" /\ setup.pxvr = None
      /\ setup.population_size > 0 /\ setup.elite_count <= setup.population_size
  BY DEF SetupInv, NotYetMade, EliteFits, AskTournament
<1>2. setup.population_size \in Nat /\ setup.elite_count \in Nat /\ TournamentMax \in Nat
  BY <1>1 DEF Setups, TournamentMax
<1>3. CASE TournamentMax = 0 /\ SkipCrossover
  <2>1. /\ phase' = "mutation" /\ setup' = [setup EXCEPT !.crossover = None]
        /\ setup.elite_count = setup.population_size
    BY <1>2, <1>3 DEF SkipCrossover, TournamentMax
  <2>2. None \in Algorithms
    <3>1. <<>> \in Seq(Int)
      OBVIOUS
    <3> QED  BY <3>1 DEF None, Algorithms
  <2>3. /\ setup' \in Setups /\ setup'.population_size = setup.population_size
        /\ setup'.elite_count = setup.elite_count /\ setup'.pxvr = None /\ setup'.crossover = None
    BY <1>1, <2>1, <2>2 DEF Setups
  <2>4. CrossoverMade'
    BY <1>2, <2>1, <2>3, NoCrossoverIsMade DEF CrossoverMade, SelectionPossible
  <2> QED
    BY <1>1, <2>1, <2>3, <2>4 DEF SetupInv, Phases, EliteFits, TournamentFits, NotYetMade,
       MutationMade, CasesKnown, RefusedOfElite
<1>4. ASSUME phase' = "crossover", NEW n \in 1 .. TournamentMax,
             setup' = [setup EXCEPT !.tournament_size = n]
      PROVE  SetupInv'
  <2>1. /\ setup' \in Setups /\ setup'.population_size = setup.population_size
        /\ setup'.elite_count = setup.elite_count /\ setup'.pxvr = None
        /\ setup'.tournament_size = n
    BY <1>1, <1>2, <1>4 DEF Setups
  <2>2. setup.elite_count < setup.population_size
    BY <1>2, <1>4 DEF TournamentMax
  <2>3. TournamentMax' = TournamentMax
    BY <2>1 DEF TournamentMax
  <2>4. TournamentFits'
    BY <1>4, <2>1, <2>2, <2>3 DEF TournamentFits
  <2> QED
    BY <1>1, <1>4, <2>1, <2>4 DEF SetupInv, Phases, EliteFits, NotYetMade, CrossoverMade,
       MutationMade, CasesKnown, RefusedOfElite
<1>5. CASE /\ TournamentMax = 1 /\ phase' = "crossover"
           /\ setup' = [setup EXCEPT !.tournament_size = 1]
  BY <1>4, <1>5
<1>6. CASE /\ TournamentMax > 1 /\ Convertible(reply, 1, TournamentMax) /\ phase' = "crossover"
           /\ setup' = [setup EXCEPT !.tournament_size = Converted(reply, 1, TournamentMax, 1)]
  <2>1. Converted(reply, 1, TournamentMax, 1) \in 1 .. TournamentMax
    BY <1>2, <1>6, ConvertedInRange
  <2> QED  BY <1>4, <1>6, <2>1
<1>7. CASE Repeat
  BY <1>7, RepeatKeeps
<1> QED  BY <1>3, <1>5, <1>6, <1>7 DEF AskTournament

LEMMA AskCrossoverKeeps ==
  ASSUME SetupInv, NEW args \in Arguments, AskCrossover(args) PROVE SetupInv'
<1> DEFINE a == Validated(XvrAlias, args)
<1>1. /\ setup \in Setups /\ phase = "crossover" /\ setup.pxvr = None
      /\ setup.population_size > 0 /\ setup.elite_count < setup.population_size
      /\ setup.tournament_size \in 1 .. TournamentMax
  BY DEF SetupInv, NotYetMade, EliteFits, TournamentFits, AskCrossover
<1>2. CASE ValidArgs(XvrAlias, args)
  <2>1. XvrInstance(a) = a /\ a # None /\ AlgorithmUsable(a) /\ a \in Algorithms
    BY <1>2, CrossoverIsMade
  <2>2. /\ phase' = "mutation"
        /\ setup' = [setup EXCEPT !.crossover = a, !.pxvr = XvrInstance(a)]
    BY <1>2 DEF AskCrossover
  <2> HIDE DEF a
  <2>3. /\ setup' \in Setups /\ setup'.population_size = setup.population_size
        /\ setup'.elite_count = setup.elite_count
        /\ setup'.tournament_size = setup.tournament_size
        /\ setup'.pxvr = a /\ setup'.crossover = a
    BY <1>1, <2>1, <2>2 DEF Setups
  <2>4. TournamentMax' = TournamentMax
    BY <2>3 DEF TournamentMax
  <2>5. SelectionPossible'
    <3>1. setup.population_size \in Nat /\ setup.elite_count \in Nat
      BY <1>1 DEF Setups
    <3> QED  BY <3>1, <1>1, <2>1, <2>3, <2>4 DEF SelectionPossible
  <2>6. CrossoverMade'
    BY <2>1, <2>3, <2>5 DEF CrossoverMade
  <2>7. EliteFits'
    BY <2>3, <2>5, <1>1 DEF EliteFits, SelectionPossible
  <2> QED
    BY <2>2, <2>3, <2>6, <2>7 DEF SetupInv, Phases, TournamentFits, NotYetMade, MutationMade,
       CasesKnown, RefusedOfElite
<1>3. CASE ~ValidArgs(XvrAlias, args)
  <2>1. phase' = phase /\ setup' = [setup EXCEPT !.crossover = args]
    BY <1>3 DEF AskCrossover
  <2>2. args \in Algorithms
    BY SetupAssumption DEF Arguments, Algorithms
  <2>3. /\ setup' \in Setups /\ setup'.population_size = setup.population_size
        /\ setup'.elite_count = setup.elite_count
        /\ setup'.tournament_size = setup.tournament_size /\ setup'.pxvr = None
    BY <1>1, <2>1, <2>2 DEF Setups
  <2>4. TournamentFits'
    BY <1>1, <2>3 DEF TournamentFits, TournamentMax
  <2>5. EliteFits'
    BY <2>1, <2>3 DEF SetupInv, EliteFits
  <2> QED
    BY <1>1, <2>1, <2>3, <2>4, <2>5 DEF SetupInv, Phases, NotYetMade, CrossoverMade, MutationMade,
       CasesKnown, RefusedOfElite
<1> QED  BY <1>2, <1>3

\* What the later prompts leave as it is.
Kept ==
  /\ setup'.population_size = setup.population_size /\ setup'.elite_count = setup.elite_count
  /\ setup'.tournament_size = setup.tournament_size
  /\ setup'.crossover = setup.crossover /\ setup'.pxvr = setup.pxvr

LEMMA KeptCrossover ==
  ASSUME SetupInv, Kept, setup' \in Setups,
         phase \in {"mutation", "cases", "ready", "reopened"},
         phase' \in {"mutation", "cases", "ready", "reopened", "refused"}
  PROVE  phase' \in Phases /\ EliteFits' /\ TournamentFits' /\ NotYetMade' /\ CrossoverMade'
<1>1. EliteFits'
  BY DEF SetupInv, Kept, EliteFits
<1>2. TournamentMax' = TournamentMax
  BY DEF Kept, TournamentMax
<1>3. SelectionPossible'
  BY <1>2 DEF SetupInv, Kept, CrossoverMade, SelectionPossible
<1>4. CrossoverMade'
  BY <1>3 DEF SetupInv, Kept, CrossoverMade
<1> QED  BY <1>1, <1>4 DEF Phases, TournamentFits, NotYetMade

LEMMA AskMutationKeeps ==
  ASSUME SetupInv, NEW args \in Arguments, AskMutation(args) PROVE SetupInv'
<1> DEFINE a == Validated(MtnAlias, args)
<1>1. setup \in Setups /\ phase = "mutation"
  BY DEF SetupInv, AskMutation
<1>2. CASE ValidArgs(MtnAlias, args)
  <2>1. MtnInstance(a) = a /\ a # None /\ AlgorithmUsable(a) /\ a \in Algorithms
    BY <1>2, MutationIsMade
  <2>2. /\ phase' = "cases"
        /\ setup' = [setup EXCEPT !.mutation = a, !.pmtn = MtnInstance(a)]
    BY <1>2 DEF AskMutation
  <2> HIDE DEF a
  <2>3. /\ setup' \in Setups /\ Kept /\ setup'.pmtn = a /\ setup'.mutation = a
    BY <1>1, <2>1, <2>2 DEF Setups, Kept
  <2>4. MutationMade'
    BY <2>1, <2>3 DEF MutationMade
  <2> QED  BY <1>1, <2>2, <2>3, <2>4, KeptCrossover DEF SetupInv, CasesKnown, RefusedOfElite
<1>3. CASE ~ValidArgs(MtnAlias, args)
  <2>1. phase' = phase /\ setup' = [setup EXCEPT !.mutation = args]
    BY <1>3 DEF AskMutation
  <2>2. args \in Algorithms
    BY SetupAssumption DEF Arguments, Algorithms
  <2>3. setup' \in Setups /\ Kept
    BY <1>1, <2>1, <2>2 DEF Setups, Kept
  <2> QED  BY <1>1, <2>1, <2>3, KeptCrossover DEF SetupInv, MutationMade, CasesKnown, RefusedOfElite
<1> QED  BY <1>2, <1>3

LEMMA AskCasesKeeps ==
  ASSUME SetupInv, NEW predefined \in Predefined, NEW reply, AskCases(predefined, reply)
  PROVE  SetupInv'
<1> DEFINE hi == Max(Predefined) + 1
           n == Converted(reply, 1, hi, Max({predefined, 1}))
<1>1. CASE Convertible(reply, 1, hi)
  <2>1. /\ setup \in Setups /\ phase = "cases" /\ phase' = "ready"
        /\ setup' = [setup EXCEPT !.cases_count = n]
    BY <1>1 DEF SetupInv, AskCases
  <2>2. hi \in Nat /\ 1 <= hi /\ predefined \in Nat
    BY SetupAssumption
  <2>3. Max({predefined, 1}) \in Nat
    <3>1. predefined \in Int /\ 1 \in Int
      BY <2>2
    <3>2. Max({predefined, 1}) \in {predefined, 1}
      BY <3>1, MaxOfTwo
    <3> QED  BY <3>2, <2>2
  <2>4. n \in 1 .. hi
    BY <1>1, <2>2, <2>3, ConvertedInRange
  <2> HIDE DEF n, hi
  <2>5. setup' \in Setups /\ Kept /\ setup'.cases_count >= 1
        /\ setup'.pmtn = setup.pmtn /\ setup'.mutation = setup.mutation
    BY <2>1, <2>2, <2>4 DEF Setups, Kept
  <2>6. MutationMade'
    BY <2>1, <2>5 DEF SetupInv, MutationMade
  <2> QED  BY <2>1, <2>5, <2>6, KeptCrossover DEF SetupInv, CasesKnown, RefusedOfElite
<1>2. CASE ~Convertible(reply, 1, hi)
  BY <1>2, RepeatKeeps DEF AskCases
<1> QED  BY <1>1, <1>2

\* A start from the file makes what was made before, or finds no crossover.
LEMMA ReopenKeeps == ASSUME SetupInv, Reopen PROVE SetupInv'
<1> DEFINE x == XvrInstance(setup.crossover)
           m == MtnInstance(setup.mutation)
<1>1. /\ setup \in Setups /\ phase \in {"ready", "reopened"}
      /\ phase' = IF None \in {x, m} THEN "refused" ELSE "reopened"
      /\ setup' = [setup EXCEPT !.pxvr = x, !.pmtn = m]
  BY DEF SetupInv, Reopen
<1>2. /\ x = setup.crossover /\ setup.pxvr = setup.crossover
      /\ m = setup.mutation /\ setup.pmtn = setup.mutation /\ m # None
  BY <1>1 DEF SetupInv, CrossoverMade, MutationMade
<1> HIDE DEF x, m
<1>3. setup' = setup
  BY <1>1, <1>2 DEF Setups
<1>4. Kept /\ setup' \in Setups /\ phase' \in {"reopened", "refused"}
  BY <1>1, <1>3 DEF Kept
<1>5. MutationMade' /\ CasesKnown'
  BY <1>1, <1>3 DEF SetupInv, MutationMade, CasesKnown
<1>6. RefusedOfElite'
  <2> SUFFICES ASSUME phase' = "refused" PROVE setup.elite_count = setup.population_size
    BY <1>3 DEF RefusedOfElite
  <2>1. setup.pxvr = None
    BY <1>1, <1>2
  <2>2. SelectionPossible
    BY <1>1 DEF SetupInv, CrossoverMade
  <2> QED  BY <2>1, <2>2, <1>1 DEF SelectionPossible, Setups
<1> QED  BY <1>1, <1>4, <1>5, <1>6, KeptCrossover DEF SetupInv

LEMMA SetupStepKeeps == ASSUME SetupInv, [SetupNext]_setupVars PROVE SetupInv'
<1>1. CASE UNCHANGED setupVars
  BY <1>1, RepeatKeeps DEF Repeat
<1> QED
  BY <1>1, AskPopulationKeeps, AskEliteKeeps, AskKeepKeeps, AskTournamentKeeps, AskCrossoverKeeps,
     AskMutationKeeps, AskCasesKeeps, ReopenKeeps DEF SetupNext

\* The dialogue and the later starts from its file, for any replies: what is
\* set up so far can be gone on with (setup_population, do_init_from_file).
THEOREM SetupInvariance == SetupSpec => []SetupInv
<1>1. SetupInit => SetupInv
  BY SetupInitInv
<1>2. SetupInv /\ [SetupNext]_setupVars => SetupInv'
  BY SetupStepKeeps
<1> QED  BY <1>1, <1>2, PTL DEF SetupSpec

\* What the dialogue accepts can breed, and a later start makes the same of it
\* (read_algo, validate_args, instantiate), for any names, values and numbers.
THEOREM SetupsAreUsable == SetupSpec => []SetupUsable
<1>1. SetupInv => SetupUsable
  BY DEF SetupInv, CrossoverMade, MutationMade, CasesKnown, RefusedOfElite, SetupUsable
<1> QED  BY <1>1, SetupInvariance, PTL

-----------------------------------------------------------------------------
(* Codec: base64 on bytes, and digits before bytes *)

Bytes == 0 .. 255
Groups(src) == (Len(src) + 2) \div 3

LEMMA LeastNatural ==
  ASSUME NEW T \in SUBSET Nat, T # {}
  PROVE  \E x \in T : \A y \in T : x <= y
<1>1. \E x \in T : \A y \in T : <<y, x>> \notin OpToRel(<, Nat)
  BY NatLessThanWellFounded, WFMin
<1>2. \A x, y \in Nat : <<y, x>> \notin OpToRel(<, Nat) => x <= y
  BY DEF OpToRel
<1> QED  BY <1>1, <1>2

\* Every sextet has a character of its own, which is not the one that pads.
LEMMA CharactersInvert ==
  ASSUME NEW v \in 0 .. 63
  PROVE  to_char(v) \in Int /\ to_char(v) # Pad /\ from_char(to_char(v)) = v
<1>1. CASE v \in 0 .. 25   BY <1>1 DEF to_char, from_char, Pad
<1>2. CASE v \in 26 .. 51  BY <1>2 DEF to_char, from_char, Pad
<1>3. CASE v \in 52 .. 61  BY <1>3 DEF to_char, from_char, Pad
<1>4. CASE v = 62          BY <1>4 DEF to_char, from_char, Pad
<1>5. CASE v = 63          BY <1>5 DEF to_char, from_char, Pad
<1> QED  BY <1>1, <1>2, <1>3, <1>4, <1>5

LEMMA ByteTyped ==
  ASSUME NEW src \in Seq(Bytes), NEW n \in Nat \ {0}
  PROVE  ByteAt(src, n) \in 0 .. 255
<1>1. CASE n <= Len(src)
  <2>1. src[n] \in Bytes
    BY <1>1
  <2> QED  BY <1>1, <2>1 DEF ByteAt, Bytes
<1>2. CASE ~(n <= Len(src))
  BY <1>2 DEF ByteAt
<1> QED  BY <1>1, <1>2

\* The characters of a group of three bytes.
LEMMA SextetsOfGroup ==
  ASSUME NEW src \in Seq(Bytes), NEW g \in Nat
  PROVE  LET a == ByteAt(src, 3 * g + 1)  b == ByteAt(src, 3 * g + 2)  c == ByteAt(src, 3 * g + 3)
         IN  /\ Sextet(src, 4 * g + 1) = a \div 4
             /\ Sextet(src, 4 * g + 2) = (a % 4) * 16 + b \div 16
             /\ Sextet(src, 4 * g + 3) = (b % 16) * 4 + c \div 64
             /\ Sextet(src, 4 * g + 4) = c % 64
             /\ a \in 0 .. 255 /\ b \in 0 .. 255 /\ c \in 0 .. 255
<1> DEFINE a == ByteAt(src, 3 * g + 1)  b == ByteAt(src, 3 * g + 2)  c == ByteAt(src, 3 * g + 3)
<1>1. a \in 0 .. 255 /\ b \in 0 .. 255 /\ c \in 0 .. 255
  <2>1. 3 * g + 1 \in Nat \ {0} /\ 3 * g + 2 \in Nat \ {0} /\ 3 * g + 3 \in Nat \ {0}
    OBVIOUS
  <2> QED  BY <2>1, ByteTyped, SMTT(30)
<1>2. Sextet(src, 4 * g + 1) = a \div 4
  <2> DEFINE k == 4 * g + 1
  <2>1. (k - 1) \div 4 = g /\ k % 4 = 1
    OBVIOUS
  <2> HIDE DEF k
  <2>2. Sextet(src, k) = a \div 4
    BY <2>1 DEF Sextet
  <2> QED  BY <2>2 DEF k
<1>3. Sextet(src, 4 * g + 2) = (a % 4) * 16 + b \div 16
  <2> DEFINE k == 4 * g + 2
  <2>1. (k - 1) \div 4 = g /\ k % 4 = 2
    OBVIOUS
  <2> HIDE DEF k
  <2>2. Sextet(src, k) = (a % 4) * 16 + b \div 16
    BY <2>1 DEF Sextet
  <2> QED  BY <2>2 DEF k
<1>4. Sextet(src, 4 * g + 3) = (b % 16) * 4 + c \div 64
  <2> DEFINE k == 4 * g + 3
  <2>1. (k - 1) \div 4 = g /\ k % 4 = 3
    OBVIOUS
  <2> HIDE DEF k
  <2>2. Sextet(src, k) = (b % 16) * 4 + c \div 64
    BY <2>1 DEF Sextet
  <2> QED  BY <2>2 DEF k
<1>5. Sextet(src, 4 * g + 4) = c % 64
  <2> DEFINE k == 4 * g + 4
  <2>1. (k - 1) \div 4 = g /\ k % 4 = 0
    OBVIOUS
  <2> HIDE DEF k
  <2>2. Sextet(src, k) = c % 64
    BY <2>1 DEF Sextet
  <2> QED  BY <2>2 DEF k
<1> QED  BY <1>1, <1>2, <1>3, <1>4, <1>5

LEMMA SplitsIntoGroups ==
  ASSUME NEW k \in Nat \ {0}
  PROVE  \E g \in Nat : k \in {4 * g + 1, 4 * g + 2, 4 * g + 3, 4 * g + 4}
<1>1. (k - 1) \div 4 \in Nat /\ k \in 4 * ((k - 1) \div 4) + 1 .. 4 * ((k - 1) \div 4) + 4
  OBVIOUS
<1> QED  BY <1>1

LEMMA SextetTyped ==
  ASSUME NEW src \in Seq(Bytes), NEW k \in Nat \ {0}
  PROVE  Sextet(src, k) \in 0 .. 63
<1>1. PICK g \in Nat : k \in {4 * g + 1, 4 * g + 2, 4 * g + 3, 4 * g + 4}
  BY SplitsIntoGroups
<1> DEFINE a == ByteAt(src, 3 * g + 1)  b == ByteAt(src, 3 * g + 2)  c == ByteAt(src, 3 * g + 3)
           v == a \div 4  w == (a % 4) * 16 + b \div 16  x == (b % 16) * 4 + c \div 64  y == c % 64
<1>2. /\ Sextet(src, 4 * g + 1) = v /\ Sextet(src, 4 * g + 2) = w
      /\ Sextet(src, 4 * g + 3) = x /\ Sextet(src, 4 * g + 4) = y
      /\ a \in 0 .. 255 /\ b \in 0 .. 255 /\ c \in 0 .. 255
  BY SextetsOfGroup
<1> HIDE DEF a, b, c
<1>3. v \in 0 .. 63 /\ w \in 0 .. 63 /\ x \in 0 .. 63 /\ y \in 0 .. 63
  <2>1. a \in 0 .. 255 /\ b \in 0 .. 255 /\ c \in 0 .. 255
    BY <1>2
  <2>2. v \in 0 .. 63 /\ y \in 0 .. 63
    BY <2>1
  <2>3. w \in 0 .. 63
    BY <2>1
  <2>4. x \in 0 .. 63
    BY <2>1
  <2> QED  BY <2>2, <2>3, <2>4
<1> HIDE DEF v, w, x, y
<1> QED  BY <1>1, <1>2, <1>3

LEMMA EncodedText ==
  ASSUME NEW src \in Seq(Bytes)
  PROVE  /\ Encoded(src) \in Seq(Int)
         /\ Len(Encoded(src)) = 4 * Groups(src)
         /\ \A k \in 1 .. 4 * Groups(src) :
              Encoded(src)[k] = IF (k * 6) - 5 > Len(src) * 8 THEN Pad ELSE to_char(Sextet(src, k))
<1> DEFINE m == 4 * Groups(src)
           char(k) == IF (k * 6) - 5 > Len(src) * 8 THEN Pad ELSE to_char(Sextet(src, k))
<1>1. m \in Nat
  BY DEF Groups
<1>2. Encoded(src) = [k \in 1 .. m |-> char(k)]
  BY DEF Encoded, Groups
<1>3. \A k \in 1 .. m : char(k) \in Int
  <2>1. \A k \in 1 .. m : to_char(Sextet(src, k)) \in Int
    <3> TAKE k \in 1 .. m
    <3>1. k \in Nat \ {0}
      BY <1>1
    <3>2. Sextet(src, k) \in 0 .. 63
      BY <3>1, SextetTyped
    <3> QED  BY <3>2, CharactersInvert
  <2> QED  BY <2>1 DEF Pad
<1> HIDE DEF m, char
<1>4. Encoded(src) \in Seq(Int) /\ Len(Encoded(src)) = m
  BY <1>1, <1>2, <1>3
<1>5. \A k \in 1 .. m : Encoded(src)[k] = char(k)
  BY <1>2
<1> QED  BY <1>4, <1>5 DEF m, char

\* A character that pads stands for a sextet that is zero.
LEMMA SextetsComeBack ==
  ASSUME NEW src \in Seq(Bytes), NEW k \in 1 .. 4 * Groups(src)
  PROVE  SextetOf(Encoded(src), k) = Sextet(src, k)
<1>0. Groups(src) \in Nat
  BY DEF Groups
<1>1. CASE (k * 6) - 5 <= Len(src) * 8
  <2>1. Encoded(src)[k] = to_char(Sextet(src, k))
    BY <1>0, <1>1, EncodedText
  <2>2. k \in Nat \ {0}
    BY <1>0
  <2>3. Sextet(src, k) \in 0 .. 63
    BY <2>2, SextetTyped
  <2> QED  BY <2>1, <2>3, CharactersInvert DEF SextetOf
<1>2. CASE (k * 6) - 5 > Len(src) * 8
  <2>1. PICK g \in Nat : k \in {4 * g + 1, 4 * g + 2, 4 * g + 3, 4 * g + 4}
    <3>1. k \in Nat \ {0}
      BY <1>0
    <3> QED  BY <3>1, SplitsIntoGroups
  <2>2. /\ k = 4 * g + 3 \/ k = 4 * g + 4
        /\ 3 * g + 3 > Len(src)
        /\ k = 4 * g + 3 => 3 * g + 2 > Len(src)
    BY <2>1, <1>2, <1>0 DEF Groups
  <2>3. Sextet(src, k) = 0
    BY <2>2, SextetsOfGroup DEF ByteAt
  <2>4. Encoded(src)[k] = Pad
    BY <1>2, EncodedText
  <2> QED  BY <2>3, <2>4 DEF SextetOf
<1> QED  BY <1>0, <1>1, <1>2

\* The padding tells decode how many bytes there were.
LEMMA RequiredIsLength ==
  ASSUME NEW src \in Seq(Bytes), src # <<>>
  PROVE  /\ Required(Encoded(src)) = Len(src)
         /\ Stored(Encoded(src)) \in Len(src) .. 3 * Groups(src)
<1> DEFINE t == Encoded(src)  m == 4 * Groups(src)
<1>1. Len(src) \in Nat \ {0} /\ Groups(src) \in Nat \ {0} /\ Len(t) = m
  BY EncodedText DEF Groups
<1>2. \A k \in 1 .. m : (t[k] = Pad) <=> (k * 6) - 5 > Len(src) * 8
  <2>1. \A k \in 1 .. m : to_char(Sextet(src, k)) # Pad
    <3> TAKE k \in 1 .. m
    <3>1. k \in Nat \ {0}
      BY <1>1
    <3>2. Sextet(src, k) \in 0 .. 63
      BY <3>1, SextetTyped
    <3> QED  BY <3>2, CharactersInvert
  <2> QED  BY <2>1, EncodedText
<1>3. m - 1 \in 1 .. m /\ m \in 1 .. m
  BY <1>1
<1>4. /\ (t[m - 1] = Pad) <=> ((m - 1) * 6) - 5 > Len(src) * 8
      /\ (t[m] = Pad) <=> (m * 6) - 5 > Len(src) * 8
  BY <1>2, <1>3
<1>5. PadsOf(t) = 3 * Groups(src) - Len(src)
  <2>1. 3 * Groups(src) - Len(src) \in 0 .. 2
    BY <1>1 DEF Groups
  <2>2. /\ (t[m - 1] = Pad) <=> 3 * Groups(src) - Len(src) = 2
        /\ (t[m] = Pad) <=> 3 * Groups(src) - Len(src) > 0
    <3>1. /\ ((m - 1) * 6) - 5 > Len(src) * 8 <=> 3 * Groups(src) - Len(src) = 2
          /\ (m * 6) - 5 > Len(src) * 8 <=> 3 * Groups(src) - Len(src) > 0
      <4> DEFINE l == Len(src)  q == Groups(src)
      <4>1. l \in Int /\ q \in Int /\ 3 * q - l \in 0 .. 2
        BY <1>1, <2>1
      <4> HIDE DEF l, q
      <4>2. /\ ((4 * q - 1) * 6) - 5 > l * 8 <=> 3 * q - l = 2
            /\ (4 * q * 6) - 5 > l * 8 <=> 3 * q - l > 0
        BY <4>1
      <4> QED  BY <4>2 DEF l, q
    <3> QED  BY <1>4, <3>1
  <2> QED  BY <2>1, <2>2, <1>1 DEF PadsOf
<1> HIDE DEF t, m
<1>6. Required(t) = Len(src)
  <2>1. Len(t) \div 4 = Groups(src)
    BY <1>1 DEF m
  <2>2. Required(t) = Groups(src) * 3 - PadsOf(t)
    BY <2>1 DEF Required
  <2> QED  BY <2>2, <1>1, <1>5
<1>7. Stored(t) \in Len(src) .. 3 * Groups(src)
  BY <1>1, <1>5, <1>6 DEF Stored, Groups
<1> QED  BY <1>6, <1>7 DEF t

LEMMA OctetsComeBack ==
  ASSUME NEW src \in Seq(Bytes), NEW n \in 1 .. 3 * Groups(src)
  PROVE  Octet(Encoded(src), n) = ByteAt(src, n)
<1> DEFINE g == (n - 1) \div 3
           a == ByteAt(src, 3 * g + 1)  b == ByteAt(src, 3 * g + 2)  c == ByteAt(src, 3 * g + 3)
<1>1. g \in Nat /\ Groups(src) \in Nat /\ g + 1 <= Groups(src)
  BY DEF Groups
<1>2. n = 3 * g + 1 \/ n = 3 * g + 2 \/ n = 3 * g + 3
  OBVIOUS
<1> HIDE DEF g
<1>3. /\ Sextet(src, 4 * g + 1) = a \div 4
      /\ Sextet(src, 4 * g + 2) = (a % 4) * 16 + b \div 16
      /\ Sextet(src, 4 * g + 3) = (b % 16) * 4 + c \div 64
      /\ Sextet(src, 4 * g + 4) = c % 64
      /\ a \in 0 .. 255 /\ b \in 0 .. 255 /\ c \in 0 .. 255
  BY <1>1, SextetsOfGroup
<1>4. \A k \in {4 * g + 1, 4 * g + 2, 4 * g + 3, 4 * g + 4} : SextetOf(Encoded(src), k) = Sextet(src, k)
  BY <1>1, SextetsComeBack
<1> DEFINE v == a \div 4  w == (a % 4) * 16 + b \div 16  x == (b % 16) * 4 + c \div 64  y == c % 64
<1>8. /\ v * 4 + w \div 16 = a
      /\ (w % 16) * 16 + x \div 4 = b
      /\ (x % 4) * 64 + y = c
  <2>1. a \in 0 .. 255 /\ b \in 0 .. 255 /\ c \in 0 .. 255
    BY <1>3
  <2> HIDE DEF a, b, c
  <2>2. v * 4 + w \div 16 = a
    BY <2>1 DEF v, w
  <2>3. (w % 16) * 16 + x \div 4 = b
    BY <2>1 DEF w, x
  <2>4. (x % 4) * 64 + y = c
    BY <2>1 DEF x, y
  <2> QED  BY <2>2, <2>3, <2>4
<1>9. /\ SextetOf(Encoded(src), 4 * g + 1) = v /\ SextetOf(Encoded(src), 4 * g + 2) = w
      /\ SextetOf(Encoded(src), 4 * g + 3) = x /\ SextetOf(Encoded(src), 4 * g + 4) = y
  BY <1>3, <1>4
<1> HIDE DEF a, b, c, v, w, x, y
<1>5. CASE n = 3 * g + 1
  <2>1. n % 3 = 1 /\ 4 * ((n - 1) \div 3) + 1 + ((n - 1) % 3) = 4 * g + 1 /\ 4 * g + 1 + 1 = 4 * g + 2
    BY <1>1, <1>5
  <2>2. Octet(Encoded(src), n) = v * 4 + w \div 16
    <3>1. Octet(Encoded(src), n) = SextetOf(Encoded(src), 4 * g + 1) * 4 + SextetOf(Encoded(src), 4 * g + 2) \div 16
      BY <2>1, SMTT(30) DEF Octet
    <3> QED  BY <3>1, <1>9
  <2> QED  BY <2>2, <1>8, <1>5 DEF a
<1>6. CASE n = 3 * g + 2
  <2>1. n % 3 = 2 /\ 4 * ((n - 1) \div 3) + 1 + ((n - 1) % 3) = 4 * g + 2 /\ 4 * g + 2 + 1 = 4 * g + 3
    BY <1>1, <1>6
  <2>2. Octet(Encoded(src), n) = (w % 16) * 16 + x \div 4
    <3>1. Octet(Encoded(src), n) = (SextetOf(Encoded(src), 4 * g + 2) % 16) * 16 + SextetOf(Encoded(src), 4 * g + 3) \div 4
      BY <2>1, SMTT(30) DEF Octet
    <3> QED  BY <3>1, <1>9
  <2> QED  BY <2>2, <1>8, <1>6 DEF b
<1>7. CASE n = 3 * g + 3
  <2>1. n % 3 = 0 /\ 4 * ((n - 1) \div 3) + 1 + ((n - 1) % 3) = 4 * g + 3 /\ 4 * g + 3 + 1 = 4 * g + 4
    BY <1>1, <1>7
  <2>2. Octet(Encoded(src), n) = (x % 4) * 64 + y
    <3>1. Octet(Encoded(src), n) = (SextetOf(Encoded(src), 4 * g + 3) % 4) * 64 + SextetOf(Encoded(src), 4 * g + 4)
      BY <2>1 DEF Octet
    <3> QED  BY <3>1, <1>9
  <2> QED  BY <2>2, <1>8, <1>7 DEF c
<1> QED  BY <1>2, <1>5, <1>6, <1>7

LEMMA DecodeInverts ==
  ASSUME NEW src \in Seq(Bytes), src # <<>>
  PROVE  /\ Decoded(Encoded(src)).bytes = src
         /\ \A k \in DOMAIN Decoded(Encoded(src)).past : Decoded(Encoded(src)).past[k] = 0
<1> DEFINE t == Encoded(src)
<1>1. Required(t) = Len(src) /\ Len(src) \in Nat /\ Groups(src) \in Nat
  BY RequiredIsLength DEF Groups
<1>2. Stored(t) \in Int /\ Len(src) <= Stored(t) /\ Stored(t) <= 3 * Groups(src)
  BY <1>1, RequiredIsLength
<1>3. \A n \in 1 .. Stored(t) : Octet(t, n) = ByteAt(src, n)
  BY <1>1, <1>2, OctetsComeBack
<1> HIDE DEF t
<1>4. Decoded(t).bytes = [n \in 1 .. Len(src) |-> src[n]]
  BY <1>1, <1>2, <1>3 DEF Decoded, ByteAt
<1>5. \A k \in DOMAIN Decoded(t).past : Decoded(t).past[k] = 0
  BY <1>1, <1>2, <1>3 DEF Decoded, ByteAt
<1>6. src = [n \in 1 .. Len(src) |-> src[n]]
  OBVIOUS
<1> QED  BY <1>4, <1>5, <1>6 DEF t

\* The digits at the beginning are read to the last of them.
LEMMA DigitsReadToTheLast ==
  ASSUME NEW bytes \in Seq(Bytes)
  PROVE  /\ DigitsRead(bytes) \in 0 .. Len(bytes)
         /\ \A k \in 1 .. DigitsRead(bytes) : IsDigit(bytes[k])
         /\ DigitsRead(bytes) = Len(bytes) \/ ~IsDigit(bytes[DigitsRead(bytes) + 1])
<1> DEFINE StopsAt(d) == d = Len(bytes) \/ ~IsDigit(bytes[d + 1])
           T == {d \in 0 .. Len(bytes) : StopsAt(d)}
<1>1. T \in SUBSET Nat /\ T # {}
  <2>1. Len(bytes) \in T
    OBVIOUS
  <2> QED  BY <2>1
<1>2. PICK m \in T : \A d \in T : m <= d
  BY <1>1, LeastNatural
<1>3. ASSUME NEW k \in 1 .. m
      PROVE  IsDigit(bytes[k])
  <2>1. k - 1 \in 0 .. Len(bytes) /\ k - 1 < m /\ (k - 1) + 1 = k
    BY <1>2
  <2>2. k - 1 \notin T
    <3>1. k - 1 \in Nat /\ m \in Nat /\ ~(m <= k - 1)
      BY <2>1, <1>1
    <3> HIDE DEF T
    <3> QED  BY <3>1, <1>2
  <2> QED  BY <2>1, <2>2
<1>4. \E d \in 0 .. Len(bytes) :
        /\ \A k \in 1 .. d : IsDigit(bytes[k])
        /\ d = Len(bytes) \/ ~IsDigit(bytes[d + 1])
  BY <1>2, <1>3
<1> QED  BY <1>4 DEF DigitsRead

LEMMA DigitsOfNumber ==
  ASSUME NEW n \in 1 .. 99
  PROVE  /\ Digits(n) \in Seq(Bytes) /\ Len(Digits(n)) \in {1, 2}
         /\ \A k \in 1 .. Len(Digits(n)) : IsDigit(Digits(n)[k])
         /\ Len(Digits(n)) = 1 => Digits(n)[1] - Zero = n
         /\ Len(Digits(n)) = 2 => 10 * (Digits(n)[1] - Zero) + Digits(n)[2] - Zero = n
<1>1. CASE n < 10
  <2>1. Zero + n \in Bytes /\ IsDigit(Zero + n)
    BY <1>1 DEF Zero, Bytes, IsDigit
  <2>2. Digits(n) = <<Zero + n>>
    BY <1>1 DEF Digits
  <2> QED  BY <2>1, <2>2 DEF Zero
<1>2. CASE ~(n < 10)
  <2> DEFINE a == n \div 10  b == n % 10
  <2>1. a \in 0 .. 9 /\ b \in 0 .. 9 /\ 10 * a + b = n
    OBVIOUS
  <2>2. Digits(n) = <<Zero + a, Zero + b>>
    BY <1>2 DEF Digits
  <2> HIDE DEF a, b
  <2>3. Zero + a \in Bytes /\ IsDigit(Zero + a) /\ Zero + b \in Bytes /\ IsDigit(Zero + b)
    BY <2>1 DEF Zero, Bytes, IsDigit
  <2> QED  BY <2>1, <2>2, <2>3 DEF Zero
<1> QED  BY <1>1, <1>2

\* What the recursion of NumberRead comes to for one digit and for two.
LEMMA NumberOfDigits ==
  ASSUME NEW bytes \in Seq(Bytes), DigitsRead(bytes) \in {1, 2}, DigitsRead(bytes) <= Len(bytes)
  PROVE  /\ DigitsRead(bytes) = 1 => NumberRead(bytes) = bytes[1] - Zero
         /\ DigitsRead(bytes) = 2 => NumberRead(bytes) = 10 * (bytes[1] - Zero) + bytes[2] - Zero
<1> DEFINE d == DigitsRead(bytes)
           Step(f) == [k \in 0 .. d |-> IF k = 0 THEN 0 ELSE 10 * f[k - 1] + bytes[k] - Zero]
           number == CHOOSE f : f = Step(f)
           value(k) == IF k = 0 THEN 0 ELSE IF k = 1 THEN bytes[1] - Zero
                       ELSE 10 * (bytes[1] - Zero) + bytes[2] - Zero
           witness == [k \in 0 .. d |-> value(k)]
<1>1. NumberRead(bytes) = number[d]
  BY DEF NumberRead
<1>2. bytes[1] \in Int /\ (d = 2 => bytes[2] \in Int)
  <2>1. 1 \in 1 .. Len(bytes) /\ (d = 2 => 2 \in 1 .. Len(bytes))
    OBVIOUS
  <2>2. bytes[1] \in Bytes /\ (d = 2 => bytes[2] \in Bytes)
    BY <2>1
  <2>3. \A x \in Bytes : x \in Int
    BY DEF Bytes
  <2> HIDE DEF d
  <2> QED  BY <2>2, <2>3
<1>3. witness = Step(witness)
  <2> SUFFICES ASSUME NEW k \in 0 .. d
               PROVE  value(k) = IF k = 0 THEN 0 ELSE 10 * witness[k - 1] + bytes[k] - Zero
    OBVIOUS
  <2>1. CASE k = 0
    BY <2>1
  <2>2. CASE k = 1
    <3>1. witness[k - 1] = 0
      BY <2>2
    <3> QED  BY <3>1, <2>2, <1>2 DEF Zero
  <2>3. CASE k = 2
    <3>1. witness[k - 1] = bytes[1] - Zero
      BY <2>3
    <3> QED  BY <3>1, <2>3, <1>2 DEF Zero
  <2> QED  BY <2>1, <2>2, <2>3
<1>4. number = Step(number)
  <2> HIDE DEF Step, witness
  <2>1. \E f : f = Step(f)
    BY <1>3
  <2> QED  BY <2>1
<1> HIDE DEF number
<1>5. number[0] = 0
  BY <1>4
<1>6. number[1] = 10 * number[0] + bytes[1] - Zero
  BY <1>4
<1>7. number[1] = bytes[1] - Zero
  BY <1>5, <1>6, <1>2 DEF Zero
<1>8. d = 2 => number[2] = 10 * number[1] + bytes[2] - Zero
  BY <1>4
<1> QED  BY <1>1, <1>7, <1>8

-----------------------------------------------------------------------------
(* Codec: the inductive invariant *)

CodecInv ==
  /\ written.n \in 1 .. 99 /\ written.raw \in Seq(Bytes)
  /\ written = [n |-> written.n, raw |-> written.raw]
  /\ Len(written.raw) = written.n * PointSize + RestSize
  /\ text = <<>> \/ text = Encoded(Digits(written.n) \o written.raw)
  /\ StateComesBack

\* The bytes of a state: the digits of its count, then what is raw.
LEMMA Source ==
  ASSUME CodecInv
  PROVE  LET d == Len(Digits(written.n))  src == Digits(written.n) \o written.raw
         IN  /\ d \in {1, 2} /\ Len(written.raw) \in Nat \ {0}
             /\ src \in Seq(Bytes) /\ Len(src) = d + Len(written.raw)
             /\ \A k \in 1 .. d : src[k] = Digits(written.n)[k] /\ IsDigit(src[k])
             /\ src[d + 1] = written.raw[1]
             /\ SubSeq(src, d + 1, d + Len(written.raw)) = written.raw
<1> DEFINE digits == Digits(written.n)  d == Len(digits)  raw == written.raw  src == digits \o raw
<1>1. /\ digits \in Seq(Bytes) /\ d \in {1, 2} /\ raw \in Seq(Bytes)
      /\ \A k \in 1 .. d : IsDigit(digits[k])
  BY DigitsOfNumber DEF CodecInv
<1>2. Len(raw) \in Nat \ {0}
  <2>1. written.n \in Nat /\ PointSize \in Nat /\ RestSize \in Nat \ {0}
    <3>1. written.n \in 1 .. 99
      BY DEF CodecInv
    <3>2. PointSize \in Nat /\ RestSize \in Nat \ {0}
      BY CodecAssumption
    <3> QED  BY <3>1, <3>2
  <2>2. written.n * PointSize \in Nat
    BY <2>1
  <2> QED  BY <2>1, <2>2 DEF CodecInv
<1> HIDE DEF digits, raw
<1>3. src \in Seq(Bytes) /\ Len(src) = d + Len(raw)
  BY <1>1
<1>4. \A k \in 1 .. d : src[k] = digits[k]
  BY <1>1
<1>5. \A k \in 1 .. Len(raw) : src[d + k] = raw[k]
  BY <1>1
<1>6. src[d + 1] = raw[1]
  BY <1>2, <1>5
<1>7. SubSeq(src, d + 1, d + Len(raw)) = raw
  <2> HIDE DEF src, d
  <2>1. d + 1 \in 1 .. Len(src) + 1 /\ d + Len(raw) \in d .. Len(src)
    BY <1>1, <1>2, <1>3
  <2>2. /\ SubSeq(src, d + 1, d + Len(raw)) \in Seq(Bytes)
        /\ Len(SubSeq(src, d + 1, d + Len(raw))) = Len(raw)
    BY <1>1, <1>2, <1>3, <2>1
  <2>3. \A k \in 1 .. Len(raw) : SubSeq(src, d + 1, d + Len(raw))[k] = src[d + k]
    BY <1>1, <1>2, <1>3, <2>1
  <2> QED  BY <2>2, <2>3, <1>5, <1>1, SeqEqual
<1> QED  BY <1>1, <1>2, <1>3, <1>4, <1>6, <1>7 DEF digits, raw

LEMMA CodecInitInv == ASSUME CodecInit PROVE CodecInv
<1>1. PICK n \in SurfaceSizes : \E raw \in [1 .. n * PointSize + RestSize -> RawBytes] :
               written = [n |-> n, raw |-> raw]
  BY DEF CodecInit
<1>2. PICK raw \in [1 .. n * PointSize + RestSize -> RawBytes] : written = [n |-> n, raw |-> raw]
  BY <1>1
<1>3. n \in 1 .. 99 /\ PointSize \in Nat /\ RestSize \in Nat
  BY CodecAssumption
<1>4. n * PointSize + RestSize \in Nat
  <2>1. n * PointSize \in Nat
    BY <1>3
  <2> QED  BY <2>1, <1>3
<1>5. raw \in Seq(Bytes) /\ Len(raw) = n * PointSize + RestSize
  <2> DEFINE m == n * PointSize + RestSize
  <2>1. RawBytes \subseteq Bytes
    BY CodecAssumption DEF Bytes
  <2>2. raw \in [1 .. m -> Bytes]
    BY <1>2, <2>1
  <2>3. m \in Nat
    BY <1>4
  <2> HIDE DEF m
  <2>4. raw \in Seq(Bytes) /\ Len(raw) = m
    BY <2>2, <2>3
  <2> QED  BY <2>4 DEF m
<1>6. StateComesBack
  BY DEF CodecInit, StateComesBack
<1> QED  BY <1>2, <1>3, <1>5, <1>6 DEF CodecInv, CodecInit

LEMMA ToBase64Keeps == ASSUME CodecInv, ToBase64 PROVE CodecInv'
BY DEF CodecInv, ToBase64, StateComesBack

LEMMA FromBase64Keeps == ASSUME CodecInv, FromBase64 PROVE CodecInv'
<1> DEFINE digits == Digits(written.n)  d == Len(digits)  raw == written.raw  src == digits \o raw
           from == DigitsRead(src)  n == NumberRead(src)  size == n * PointSize + RestSize
<1>1. /\ d \in {1, 2} /\ Len(raw) \in Nat \ {0}
      /\ src \in Seq(Bytes) /\ Len(src) = d + Len(raw)
      /\ \A k \in 1 .. d : src[k] = digits[k] /\ IsDigit(src[k])
      /\ src[d + 1] = raw[1]
      /\ SubSeq(src, d + 1, d + Len(raw)) = raw
  BY Source
<1>2. src # <<>> /\ text = Encoded(src)
  BY <1>1 DEF CodecInv, FromBase64
<1>3. Decoded(text).bytes = src /\ \A k \in DOMAIN Decoded(text).past : Decoded(text).past[k] = 0
  BY <1>1, <1>2, DecodeInverts
<1>4. readback' = [n |-> n, past |-> Decoded(text).past,
        raw |-> IF from + size <= Len(src) THEN SubSeq(src, from + 1, from + size)
                ELSE SubSeq(src, from + 1, Len(src))]
  BY <1>3 DEF FromBase64
<1>5. /\ from \in 0 .. Len(src) /\ \A k \in 1 .. from : IsDigit(src[k])
      /\ from = Len(src) \/ ~IsDigit(src[from + 1])
  BY <1>1, DigitsReadToTheLast
<1>6. Len(raw) = written.n * PointSize + RestSize /\ written = [n |-> written.n, raw |-> raw]
  BY DEF CodecInv
<1>7. /\ d = 1 => digits[1] - Zero = written.n
      /\ d = 2 => 10 * (digits[1] - Zero) + digits[2] - Zero = written.n
  BY DigitsOfNumber DEF CodecInv
<1> HIDE DEF digits, d, raw, src, from, n, size
<1>8. from >= d
  <2>1. ASSUME from < d PROVE FALSE
    <3>1. from + 1 \in 1 .. d /\ from # Len(src)
      BY <2>1, <1>1, <1>5
    <3> QED  BY <3>1, <1>1, <1>5
  <2> QED  BY <2>1, <1>1, <1>5
<1>9. ASSUME ~IsDigit(raw[1])
      PROVE  readback'.n = written.n /\ readback'.raw = raw
  <2>1. from = d
    <3>1. ASSUME from > d PROVE FALSE
      <4>1. d + 1 \in 1 .. from
        BY <3>1, <1>1, <1>5
      <4> QED  BY <4>1, <1>1, <1>5, <1>9
    <3> QED  BY <3>1, <1>1, <1>5, <1>8
  <2>2. n = written.n
    <3>1. /\ from = 1 => n = src[1] - Zero
          /\ from = 2 => n = 10 * (src[1] - Zero) + src[2] - Zero
      BY <2>1, <1>1, <1>5, NumberOfDigits DEF from, n
    <3>2. src[1] = digits[1] /\ (d = 2 => src[2] = digits[2])
      BY <1>1
    <3> QED  BY <3>1, <3>2, <2>1, <1>1, <1>7
  <2>3. size = Len(raw)
    BY <2>2, <1>6 DEF size
  <2>4. from + size <= Len(src)
    BY <2>1, <2>3, <1>1
  <2> QED  BY <2>1, <2>2, <2>3, <2>4, <1>1, <1>4
<1>10. ASSUME IsDigit(raw[1]), readback'.n = written.n
       PROVE  readback'.raw # raw
  <2>1. from > d
    <3>1. ASSUME from = d PROVE FALSE
      <4>1. from # Len(src) /\ src[from + 1] = raw[1]
        BY <3>1, <1>1
      <4> QED  BY <4>1, <1>5, <1>10
    <3> QED  BY <3>1, <1>1, <1>5, <1>8
  <2>2. size = Len(raw)
    BY <1>4, <1>6, <1>10 DEF size
  <2>3. readback'.raw = SubSeq(src, from + 1, Len(src))
    BY <2>1, <2>2, <1>1, <1>4, <1>5
  <2>4. Len(SubSeq(src, from + 1, Len(src))) = Len(src) - from
    BY <1>1, <1>5
  <2> QED  BY <2>1, <2>3, <2>4, <1>1, <1>5
<1>11. StateComesBack'
  <2>1. \A k \in DOMAIN readback'.past : readback'.past[k] = 0
    BY <1>3, <1>4
  <2>2. written' = written
    BY DEF FromBase64
  <2>3. ([n |-> readback'.n, raw |-> readback'.raw] = written) <=> ~IsDigit(raw[1])
    <3>1. ([n |-> readback'.n, raw |-> readback'.raw] = written)
             <=> readback'.n = written.n /\ readback'.raw = raw
      BY <1>6
    <3> QED  BY <3>1, <1>9, <1>10
  <2> QED  BY <2>1, <2>2, <2>3 DEF StateComesBack, raw
<1> QED  BY <1>11 DEF CodecInv, FromBase64

\* The invariant holds in every state.
THEOREM CodecInvariance == CodecSpec => []CodecInv
<1>1. CodecInit => CodecInv
  BY CodecInitInv
<1>2. CodecInv /\ [CodecNext]_codecVars => CodecInv'
  <2> SUFFICES ASSUME CodecInv, [CodecNext]_codecVars PROVE CodecInv'
    OBVIOUS
  <2>1. CASE CodecNext
    BY <2>1, ToBase64Keeps, FromBase64Keeps DEF CodecNext
  <2>2. CASE UNCHANGED codecVars
    BY <2>2 DEF codecVars, CodecInv, StateComesBack
  <2> QED  BY <2>1, <2>2
<1> QED  BY <1>1, <1>2, PTL DEF CodecSpec

\* What from_base64 reads is what to_base64 wrote, for every surface and every
\* byte, exactly when the first raw byte is no digit; and what decode writes
\* behind its result is zero.
THEOREM StatesComeBack == CodecSpec => []StateComesBack
<1>1. CodecInv => StateComesBack
  BY DEF CodecInv
<1> QED  BY <1>1, CodecInvariance, PTL

-----------------------------------------------------------------------------
(* Breeding: the operators on genes *)

Genes == Low .. High

LEMMA GeneBounds ==
  \A g : g \in Genes <=> g \in Int /\ Low <= g /\ g <= High
BY BreedingAssumption DEF Genes

\* A point between two others, in steps of 1/One, is not beyond them.
LEMMA LerpStaysBetween ==
  ASSUME NEW x \in Int, NEW y \in Int, NEW t \in 0 .. One
  PROVE  /\ Lerp(x, y, t) \in Int
         /\ x <= y => x <= Lerp(x, y, t) /\ Lerp(x, y, t) <= y
         /\ y <= x => y <= Lerp(x, y, t) /\ Lerp(x, y, t) <= x
<1>1. t = 0 \/ t = 1 \/ t = 2 \/ t = 3 \/ t = 4
  BY DEF One
<1>2. \A d \in Int : /\ (0 * d) \div 4 = 0 /\ (4 * d) \div 4 = d
                     /\ d >= 0 => /\ 0 <= (1 * d) \div 4 /\ (1 * d) \div 4 <= d
                                  /\ 0 <= (2 * d) \div 4 /\ (2 * d) \div 4 <= d
                                  /\ 0 <= (3 * d) \div 4 /\ (3 * d) \div 4 <= d
                     /\ d <= 0 => /\ 0 >= (1 * d) \div 4 /\ (1 * d) \div 4 >= d
                                  /\ 0 >= (2 * d) \div 4 /\ (2 * d) \div 4 >= d
                                  /\ 0 >= (3 * d) \div 4 /\ (3 * d) \div 4 >= d
  OBVIOUS
<1> DEFINE d == y - x  e == (t * d) \div 4
<1>3. d \in Int /\ e \in Int
  OBVIOUS
<1>4. (d >= 0 => 0 <= e /\ e <= d) /\ (d <= 0 => 0 >= e /\ e >= d)
  <2> HIDE DEF d
  <2> QED  BY <1>1, <1>2, <1>3
<1>5. Lerp(x, y, t) = x + e
  BY DEF Lerp, One
<1> HIDE DEF e
<1> QED  BY <1>3, <1>4, <1>5

\* The children of two genes: as many as Growth says, and none beyond its
\* parents but for Laplace's.
LEMMA OffspringTyped ==
  ASSUME NEW xvr \in {"heuristic", "intermediate", "laplace", "scattered"},
         NEW a \in Genes, NEW b \in Genes, NEW genes \in Offspring(xvr, a, b)
  PROVE  /\ Growth[xvr] \in {1, 2}
         /\ \A k \in 1 .. Growth[xvr] : genes[k] \in Int
         /\ xvr # "laplace" => \A k \in 1 .. Growth[xvr] : genes[k] \in Genes
<1>0. Low \in Int /\ High \in Int /\ a \in Int /\ b \in Int
  BY BreedingAssumption DEF Genes
<1>1. CASE xvr = "heuristic"
  <2>1. genes = <<Lerp(b, a, One)>> /\ Growth[xvr] = 1
    BY <1>1 DEF Offspring, crossover_heuristic, Growth
  <2>2. One \in 0 .. One
    BY DEF One
  <2>3. Lerp(b, a, One) \in Genes
    <3>1. Low <= a /\ a <= High /\ Low <= b /\ b <= High
      BY GeneBounds
    <3>2. /\ Lerp(b, a, One) \in Int
          /\ b <= a => b <= Lerp(b, a, One) /\ Lerp(b, a, One) <= a
          /\ a <= b => a <= Lerp(b, a, One) /\ Lerp(b, a, One) <= b
      BY <1>0, <2>2, LerpStaysBetween
    <3>3. Low <= Lerp(b, a, One) /\ Lerp(b, a, One) <= High
      BY <1>0, <3>1, <3>2
    <3> QED  BY <3>2, <3>3, GeneBounds
  <2> QED  BY <1>0, <2>1, <2>3 DEF Genes
<1>2. CASE xvr = "intermediate"
  <2>1. Growth[xvr] = 1
    BY <1>2 DEF Growth
  <2>2. PICK t \in 0 .. One : genes = <<Lerp(a, b, t)>>
    BY <1>2 DEF Offspring, crossover_intermediate
  <2>3. Lerp(a, b, t) \in Genes
    <3>1. Low <= a /\ a <= High /\ Low <= b /\ b <= High
      BY GeneBounds
    <3>2. /\ Lerp(a, b, t) \in Int
          /\ a <= b => a <= Lerp(a, b, t) /\ Lerp(a, b, t) <= b
          /\ b <= a => b <= Lerp(a, b, t) /\ Lerp(a, b, t) <= a
      BY <1>0, LerpStaysBetween
    <3>3. Low <= Lerp(a, b, t) /\ Lerp(a, b, t) <= High
      BY <1>0, <3>1, <3>2
    <3> QED  BY <3>2, <3>3, GeneBounds
  <2> QED  BY <1>0, <2>1, <2>2, <2>3 DEF Genes
<1>3. CASE xvr = "laplace"
  <2>1. Growth[xvr] = 2
    BY <1>3 DEF Growth
  <2>2. PICK k \in -1 .. 1 : genes = <<a + k * (a - b), b + k * (a - b)>>
    BY <1>3 DEF Offspring, crossover_Laplace
  <2>3. a + k * (a - b) \in Int /\ b + k * (a - b) \in Int
    BY <1>0
  <2> QED  BY <1>3, <2>1, <2>2, <2>3
<1>4. CASE xvr = "scattered"
  <2>1. Growth[xvr] = 1
    BY <1>4 DEF Growth
  <2>2. genes = <<a>> \/ genes = <<b>>
    BY <1>4 DEF Offspring, crossover_scattered
  <2> QED  BY <1>0, <2>1, <2>2
<1> QED  BY <1>1, <1>2, <1>3, <1>4

\* A mutation keeps inside the bounds but for the one by Gauss.
LEMMA MutationTyped ==
  ASSUME NEW mtn \in {"gaussian", "power", "uniform", "disabled"},
         NEW u \in Int, NEW gene \in Mutations(mtn, u)
  PROVE  /\ gene \in Int
         /\ mtn # "gaussian" /\ u \in Genes => gene \in Genes
<1>0. Low \in Int /\ High \in Int
  BY BreedingAssumption
<1>1. CASE mtn = "gaussian"
  BY <1>1 DEF Mutations, mutation_Gaussian, One
<1>2. CASE mtn = "power"
  <2>1. PICK k \in 0 .. One, r \in 0 .. One :
          gene = u + (k * ((IF AtLeast(u - Low, High - u, r) THEN High - u ELSE 0)
                         - (IF Below(u - Low, High - u, r) THEN u - Low ELSE 0))) \div One
    BY <1>2 DEF Mutations, mutation_power
  <2> DEFINE step == (IF AtLeast(u - Low, High - u, r) THEN High - u ELSE 0)
                       - (IF Below(u - Low, High - u, r) THEN u - Low ELSE 0)
  <2>2. \/ step = 0 \/ step = High - u
        \/ step = 0 - (u - Low) \/ step = (High - u) - (u - Low)
    <3> DEFINE up == AtLeast(u - Low, High - u, r)  down == Below(u - Low, High - u, r)
    <3>1. step = (IF up THEN High - u ELSE 0) - (IF down THEN u - Low ELSE 0)
      OBVIOUS
    <3> HIDE DEF step, up, down
    <3> QED  BY <3>1, <1>0
  <2> HIDE DEF step
  <2>3. u + step \in Int /\ step = (u + step) - u
    BY <1>0, <2>2
  <2>4. gene = Lerp(u, u + step, k)
    BY <2>1, <2>3 DEF step, Lerp
  <2>5. Low <= u /\ u <= High => Low <= u + step /\ u + step <= High
    BY <1>0, <2>2
  <2>6. /\ gene \in Int
        /\ u <= u + step => u <= gene /\ gene <= u + step
        /\ u + step <= u => u + step <= gene /\ gene <= u
    BY <2>3, <2>4, LerpStaysBetween
  <2>7. Low <= u /\ u <= High => Low <= gene /\ gene <= High
    BY <1>0, <2>3, <2>5, <2>6
  <2> QED  BY <2>6, <2>7, GeneBounds
<1>3. CASE mtn = "uniform"
  <2>1. gene = u \/ \E k \in 0 .. One : gene = Lerp(Low, High, k)
    BY <1>3 DEF Mutations, mutation_uniform, Lerp
  <2>2. \A k \in 0 .. One : Lerp(Low, High, k) \in Int /\ (Low <= High => Lerp(Low, High, k) \in Genes)
    BY <1>0, LerpStaysBetween, GeneBounds
  <2>3. u \in Genes => Low <= High
    BY <1>0, GeneBounds
  <2> QED  BY <2>1, <2>2, <2>3
<1>4. CASE mtn = "disabled"
  BY <1>4 DEF Mutations
<1> QED  BY <1>1, <1>2, <1>3, <1>4

\* Room is made for whole turns of the loop, and for all children.
LEMMA AlignedFits ==
  ASSUME NEW n \in Nat, NEW growth \in {1, 2}
  PROVE  /\ Aligned(n, growth) \in Nat /\ n <= Aligned(n, growth)
         /\ growth = 2 => Aligned(n, growth) % 2 = 0
<1>1. CASE growth = 1
  BY <1>1 DEF Aligned
<1>2. CASE growth = 2
  <2>1. Aligned(n, growth) = ((n + 1) \div 2) * 2
    BY <1>2 DEF Aligned
  <2> QED  BY <2>1
<1> QED  BY <1>1, <1>2

\* A turn for two children has room for both, and leaves room for whole turns.
LEMMA TurnFits ==
  ASSUME NEW a \in Nat, NEW b \in Nat, a < b, (b - a) % 2 = 0
  PROVE  a + 2 <= b /\ (b - (a + 2)) % 2 = 0
OBVIOUS

\* A tournament is won by a row behind the elite.
LEMMA WinnerIsDrawn ==
  ASSUME NEW ses, ses.elite \in 0 .. BreedSize - 1, ses.tournament \in Nat \ {0},
         NEW x \in Winners(ses)
  PROVE  x \in ses.elite .. BreedSize - 1
<1>1. PICK draw \in [1 .. ses.tournament -> ses.elite .. BreedSize - 1] :
        x = Min({draw[n] : n \in 1 .. ses.tournament})
  BY DEF Winners
<1> DEFINE drawn == {draw[n] : n \in 1 .. ses.tournament}
<1>2. drawn \subseteq ses.elite .. BreedSize - 1 /\ draw[1] \in drawn
  BY <1>1
<1> HIDE DEF drawn
<1>3. drawn \in SUBSET Nat /\ drawn # {}
  BY <1>2, BreedingAssumption
<1>4. \E m \in drawn : \A y \in drawn : m <= y
  BY <1>3, LeastNatural
<1>5. Min(drawn) \in drawn
  BY <1>4 DEF Min
<1> QED  BY <1>1, <1>2, <1>5 DEF drawn

LEMMA ParentsInOrder ==
  ASSUME NEW xvr, NEW x1 \in Int, NEW x2 \in Int
  PROVE  LET p == Parents(xvr, x1, x2)
         IN  /\ (p[1] = x1 /\ p[2] = x2) \/ (p[1] = x2 /\ p[2] = x1)
             /\ xvr \in Compares => p[1] <= p[2]
BY DEF Parents

LEMMA ScoreOfOne ==
  ASSUME NEW e, NEW row \in [{0} -> Nat]
  PROVE  Core(e)!Score(row) = row[0]
<1> DEFINE first(t) == CHOOSE k \in t : TRUE
           Sum(f) == [t \in SUBSET {0} |-> IF t = {} THEN 0 ELSE row[first(t)] + f[t \ {first(t)}]]
           sum == CHOOSE f : f = Sum(f)
           witness == [t \in SUBSET {0} |-> IF t = {} THEN 0 ELSE row[0]]
<1>1. Core(e)!Score(row) = sum[{0}]
  BY DEF Core!Score, Core!MapThenSumSet, Core!MapThenFoldSet
<1>2. \A t \in SUBSET {0} : t = {} \/ t = {0}
  OBVIOUS
<1>3. first({0}) = 0
  OBVIOUS
<1>4. {0} \ {first({0})} = {} /\ {} \in SUBSET {0} /\ {0} \in SUBSET {0} /\ {0} # {}
  BY <1>3
<1> HIDE DEF first
<1>5. witness = Sum(witness)
  <2>1. witness[{}] = 0
    OBVIOUS
  <2>2. row[first({0})] + witness[{0} \ {first({0})}] = row[0]
    BY <1>3, <1>4, <2>1
  <2> SUFFICES ASSUME NEW t \in SUBSET {0}
               PROVE  (IF t = {} THEN 0 ELSE row[0])
                        = IF t = {} THEN 0 ELSE row[first(t)] + witness[t \ {first(t)}]
    OBVIOUS
  <2> QED  BY <2>2, <1>2
<1>6. sum = Sum(sum)
  <2> HIDE DEF Sum, witness
  <2>1. \E f : f = Sum(f)
    BY <1>5
  <2> QED  BY <2>1
<1> HIDE DEF sum
<1>7. sum[{}] = 0
  BY <1>6, <1>4
<1>8. sum[{0}] = row[first({0})] + sum[{0} \ {first({0})}]
  BY <1>6, <1>4
<1> QED  BY <1>1, <1>3, <1>4, <1>7, <1>8

-----------------------------------------------------------------------------
(* Breeding: the inductive invariant *)

Slots == [id : Nat, gene : Int, parents : {<<>>} \cup (BreedRows \X BreedRows), row : -1 .. BreedSize - 1]
Breedings == [at : {"crossover", "mutate", "done"}, ses : BreedSessions, score : BreedScores,
              inds : [BreedRows -> BreedRows], cursor : Nat, uids : Nat]

Elite == breeding.ses.elite
KidSlots == Elite + 1 .. Len(new_pop)
MovedOver(n) == [id |-> breeding.inds[n - 1] + 1, gene |-> OldGenes[breeding.inds[n - 1]],
             parents |-> <<>>, row |-> breeding.inds[n - 1]]
Bounded == breeding.ses.xvr # "laplace" /\ breeding.ses.mtn # "gaussian"

\* A child that is bred has two parents behind the elite.
Born(slot) ==
  /\ \E i, j \in Elite .. BreedSize - 1 :
       /\ slot.parents = <<breeding.inds[i], breeding.inds[j]>>
       /\ breeding.ses.xvr \in Compares => i <= j
  /\ Bounded => slot.gene \in Genes

SlotsFit ==
  /\ breeding \in Breedings /\ breeding.inds \in Orders(breeding.score)
  /\ new_pop \in Seq(Slots) /\ BreedSize <= Len(new_pop)
  /\ \A n \in 1 .. Elite : new_pop[n] = MovedOver(n)
  /\ \A n \in KidSlots : new_pop[n].row = -1 /\ (new_pop[n].parents # <<>> => Born(new_pop[n]))
\* The loop takes whole turns, and no child has an id before it ends.
InLoop ==
  breeding.at = "crossover" =>
    /\ Elite <= breeding.cursor /\ breeding.cursor <= Len(new_pop)
    /\ Growth[breeding.ses.xvr] = 2 => (Len(new_pop) - breeding.cursor) % 2 = 0
    /\ breeding.uids = BreedSize
    /\ \A n \in KidSlots : new_pop[n].id = 0 /\ (n <= breeding.cursor => new_pop[n].parents # <<>>)
\* Behind the loop each id that was drawn is the id of one child.
WithIds == {n \in KidSlots : new_pop[n].id # 0}
BehindLoop ==
  breeding.at \in {"mutate", "done"} =>
    /\ Len(new_pop) = BreedSize
    /\ \A n \in KidSlots : new_pop[n].parents # <<>>
    /\ \A n \in WithIds : BreedSize < new_pop[n].id /\ new_pop[n].id <= breeding.uids
    /\ \A m, n \in WithIds : m # n => new_pop[m].id # new_pop[n].id
    /\ breeding.uids = BreedSize + Cardinality(WithIds)
    /\ breeding.at = "done" => WithIds = KidSlots

BreedInv ==
  \/ breeding = Idle /\ new_pop = <<>>
  \/ SlotsFit /\ InLoop /\ BehindLoop

LEMMA FrameFacts ==
  ASSUME SlotsFit
  PROVE  /\ Elite \in 0 .. BreedSize - 1 /\ BreedSize \in Nat \ {0}
         /\ breeding.ses \in BreedSessions /\ breeding.score \in BreedScores
         /\ breeding.ses.tournament \in Nat \ {0}
         /\ breeding.ses.xvr \in {"heuristic", "intermediate", "laplace", "scattered"}
         /\ breeding.ses.mtn \in {"gaussian", "power", "uniform", "disabled"}
         /\ breeding.cursor \in Nat /\ breeding.uids \in Nat
         /\ breeding.inds \in [BreedRows -> BreedRows] /\ breeding.score \in [BreedRows -> Nat]
         /\ \A i, j \in BreedRows : i # j => breeding.inds[i] # breeding.inds[j]
         /\ \A i, j \in BreedRows :
              i <= j => breeding.score[breeding.inds[i]] <= breeding.score[breeding.inds[j]]
         /\ Len(new_pop) \in Nat /\ DOMAIN new_pop = 1 .. Len(new_pop)
         /\ \A n \in 1 .. Len(new_pop) : new_pop[n] \in Slots
<1>1. breeding \in Breedings /\ breeding.inds \in Orders(breeding.score) /\ new_pop \in Seq(Slots)
  BY DEF SlotsFit
<1>2. /\ breeding.ses \in BreedSessions /\ breeding.score \in BreedScores
      /\ breeding.cursor \in Nat /\ breeding.uids \in Nat
      /\ breeding.inds \in [BreedRows -> BreedRows]
  BY <1>1 DEF Breedings
<1>3. /\ Elite \in 0 .. BreedSize - 1 /\ BreedSize \in Nat \ {0}
      /\ breeding.ses.tournament \in Nat \ {0}
      /\ breeding.ses.xvr \in {"heuristic", "intermediate", "laplace", "scattered"}
      /\ breeding.ses.mtn \in {"gaussian", "power", "uniform", "disabled"}
  BY <1>2, BreedingAssumption DEF Elite
<1>4. breeding.score \in [BreedRows -> Nat]
  BY <1>2, BreedingAssumption
<1>5. \A i, j \in BreedRows : i # j => breeding.inds[i] # breeding.inds[j]
  BY <1>1 DEF Orders
<1>6. \A i, j \in BreedRows :
        i < j => breeding.score[breeding.inds[i]] <= breeding.score[breeding.inds[j]]
  BY <1>1 DEF Orders
<1>7. ASSUME NEW i \in BreedRows, NEW j \in BreedRows, i <= j
      PROVE  breeding.score[breeding.inds[i]] <= breeding.score[breeding.inds[j]]
  <2>1. i \in Int /\ j \in Int
    BY <1>3 DEF BreedRows
  <2>2. CASE i < j
    BY <2>2, <1>6
  <2>3. CASE i = j
    <3>1. breeding.score[breeding.inds[j]] \in Nat
      BY <1>2, <1>4
    <3> QED  BY <2>3, <3>1
  <2> QED  BY <2>1, <2>2, <2>3, <1>7
<1>8. Len(new_pop) \in Nat /\ DOMAIN new_pop = 1 .. Len(new_pop) /\ \A n \in 1 .. Len(new_pop) : new_pop[n] \in Slots
  BY <1>1
<1> QED  BY <1>2, <1>3, <1>4, <1>5, <1>7, <1>8

\* What is said of slots depends on the session and on the order only.
LEMMA SameSession ==
  ASSUME breeding'.ses = breeding.ses, breeding'.inds = breeding.inds
  PROVE  /\ Elite' = Elite
         /\ \A n : MovedOver(n)' = MovedOver(n)
         /\ \A slot : Born(slot)' <=> Born(slot)
<1>1. Elite' = Elite
  BY DEF Elite
<1>2. Bounded' <=> Bounded
  BY DEF Bounded
<1> QED  BY <1>1, <1>2 DEF MovedOver, Born

LEMMA MovedIs ==
  ASSUME SlotsFit, NEW n \in 1 .. Elite
  PROVE  /\ new_pop[n].id = breeding.inds[n - 1] + 1 /\ new_pop[n].row = breeding.inds[n - 1]
         /\ new_pop[n].gene = OldGenes[breeding.inds[n - 1]] /\ new_pop[n].parents = <<>>
<1>1. new_pop[n] = MovedOver(n)
  BY DEF SlotsFit
<1> QED  BY <1>1 DEF MovedOver

\* What is filled into a slot, field by field.
LEMMA FilledBlank ==
  ASSUME NEW i, NEW r, NEW g
  PROVE  [Blank EXCEPT !.id = i, !.row = r, !.gene = g] = [id |-> i, gene |-> g, parents |-> <<>>, row |-> r]
<1> DEFINE w == [Blank EXCEPT !.id = i, !.row = r, !.gene = g]
<1>1. w \in [id : {i}, gene : {g}, parents : {<<>>}, row : {r}]
  BY DEF Blank
<1>2. w.id = i /\ w.gene = g /\ w.parents = <<>> /\ w.row = r
  BY DEF Blank
<1> HIDE DEF w
<1>3. w = [id |-> w.id, gene |-> w.gene, parents |-> w.parents, row |-> w.row]
  BY <1>1
<1>4. w = [id |-> i, gene |-> g, parents |-> <<>>, row |-> r]
  BY <1>2, <1>3
<1> QED  BY <1>4 DEF w

LEMMA SelectKeeps ==
  ASSUME NEW ses \in BreedSessions, NEW score \in BreedScores, NEW order \in Orders(score),
         Select(ses, score, order)
  PROVE  BreedInv'
<1> DEFINE e == ses.elite  growth == Growth[ses.xvr]  len == e + Aligned(BreedSize - e, growth)
           taken(n) == [id |-> order[n - 1] + 1, gene |-> OldGenes[order[n - 1]], parents |-> <<>>, row |-> order[n - 1]]
<1>1. /\ e \in 0 .. BreedSize - 1 /\ BreedSize \in Nat \ {0}
      /\ ses.xvr \in {"heuristic", "intermediate", "laplace", "scattered"}
  BY BreedingAssumption
<1>2. growth \in {1, 2}
  BY <1>1 DEF Growth
<1>3. order \in [BreedRows -> BreedRows]
  BY DEF Orders
<1>4. breeding' = [at |-> "crossover", ses |-> ses, score |-> score, inds |-> order,
                   cursor |-> e, uids |-> BreedSize]
  BY DEF Select
<1>5. Elite' = e /\ \A n : MovedOver(n)' = taken(n)
  BY <1>4 DEF Elite, MovedOver
<1>6. new_pop' = [n \in 1 .. len |-> IF n <= e THEN taken(n) ELSE Blank]
  <2>1. \A n : [Blank EXCEPT !.id = order[n - 1] + 1, !.row = order[n - 1], !.gene = OldGenes[order[n - 1]]] = taken(n)
    <3> TAKE n
    <3> QED  BY FilledBlank
  <2>2. new_pop' = [n \in 1 .. len |->
          IF n <= e
          THEN [Blank EXCEPT !.id = order[n - 1] + 1, !.row = order[n - 1], !.gene = OldGenes[order[n - 1]]]
          ELSE Blank]
    BY DEF Select
  <2> HIDE DEF taken, len, e
  <2> QED  BY <2>1, <2>2
<1> HIDE DEF growth
<1>7. len \in Nat /\ BreedSize <= len /\ (growth = 2 => (len - e) % 2 = 0)
  <2>1. BreedSize - e \in Nat
    BY <1>1
  <2>2. /\ Aligned(BreedSize - e, growth) \in Nat /\ BreedSize - e <= Aligned(BreedSize - e, growth)
        /\ growth = 2 => Aligned(BreedSize - e, growth) % 2 = 0
    BY <2>1, <1>2, AlignedFits
  <2> DEFINE l == Aligned(BreedSize - e, growth)
  <2> HIDE DEF l
  <2>3. len = e + l
    BY DEF l
  <2>4. l \in Nat /\ BreedSize - e <= l /\ (growth = 2 => l % 2 = 0)
    BY <2>2 DEF l
  <2>5. (e + l) - e = l
    BY <1>1, <2>4
  <2> QED  BY <1>1, <2>3, <2>4, <2>5
<1> HIDE DEF e, len
<1>8. \A n \in 1 .. len : n <= e => taken(n) \in Slots
  <2> SUFFICES ASSUME NEW n \in 1 .. len, n <= e PROVE taken(n) \in Slots
    OBVIOUS
  <2>1. n - 1 \in BreedRows
    BY <1>1, <1>7 DEF BreedRows
  <2>2. order[n - 1] \in 0 .. BreedSize - 1 /\ OldGenes[order[n - 1]] \in Int
    <3>1. order[n - 1] \in BreedRows
      BY <2>1, <1>3
    <3>2. OldGenes[order[n - 1]] \in Low .. High
      BY <3>1, BreedingAssumption
    <3>3. OldGenes[order[n - 1]] \in Int
      BY <3>2, GeneBounds DEF Genes
    <3> QED  BY <3>1, <3>3 DEF BreedRows
  <2>3. order[n - 1] + 1 \in Nat /\ order[n - 1] \in -1 .. BreedSize - 1
    BY <2>2, <1>1
  <2> QED  BY <2>2, <2>3 DEF Slots
<1>9. Blank \in Slots
  BY <1>1 DEF Blank, Slots
<1> HIDE DEF taken
<1>10. new_pop' \in Seq(Slots) /\ Len(new_pop') = len
  BY <1>6, <1>7, <1>8, <1>9
<1>11. /\ \A n \in 1 .. e : new_pop'[n] = taken(n)
       /\ \A n \in e + 1 .. len : new_pop'[n] = Blank
  BY <1>6, <1>1, <1>7
<1>12. SlotsFit'
  <2>1. breeding' \in Breedings
    BY <1>4, <1>1, <1>3 DEF Breedings
  <2>2. breeding'.inds \in Orders(breeding'.score)
    BY <1>4
  <2>3. \A n \in 1 .. e : new_pop'[n] = MovedOver(n)'
    BY <1>5, <1>11
  <2>4. \A n \in e + 1 .. len : new_pop'[n].row = -1 /\ new_pop'[n].parents = <<>>
    BY <1>11 DEF Blank
  <2> QED  BY <2>1, <2>2, <2>3, <2>4, <1>5, <1>7, <1>10 DEF SlotsFit, KidSlots
<1>13. InLoop'
  <2>1. \A n \in e + 1 .. len : new_pop'[n].id = 0 /\ ~(n <= e)
    BY <1>11, <1>1, <1>7 DEF Blank
  <2>2. e <= e /\ e <= len
    BY <1>1, <1>7
  <2>3. breeding'.cursor = e /\ breeding'.uids = BreedSize /\ Growth[breeding'.ses.xvr] = growth
    BY <1>4 DEF e, growth
  <2> QED  BY <2>1, <2>2, <2>3, <1>5, <1>7, <1>10 DEF InLoop, KidSlots
<1>14. BehindLoop'
  BY <1>4 DEF BehindLoop
<1> QED  BY <1>12, <1>13, <1>14 DEF BreedInv

LEMMA CrossoverKeeps ==
  ASSUME SlotsFit, InLoop, NEW x1 \in Winners(breeding.ses), NEW x2 \in Winners(breeding.ses),
         Crossover(x1, x2)
  PROVE  BreedInv'
<1>0. /\ breeding.at = "crossover"
      /\ breeding.cursor < Len(new_pop)
      /\ breeding' = [breeding EXCEPT !.cursor = @ + Growth[breeding.ses.xvr]]
  BY Zenon DEF Crossover
<1> DEFINE ses == breeding.ses  order == breeding.inds  c == breeding.cursor
           p == Parents(ses.xvr, x1, x2)  growth == Growth[ses.xvr]  len == Len(new_pop)
           pair == <<order[p[1]], order[p[2]]>>
<1>1. /\ breeding.at = "crossover" /\ c < len
      /\ breeding' = [breeding EXCEPT !.cursor = c + growth]
  BY <1>0
<1>2. PICK genes \in Offspring(ses.xvr, OldGenes[order[p[1]]], OldGenes[order[p[2]]]) :
        new_pop' = [n \in DOMAIN new_pop |->
          IF n - c \in 1 .. growth
          THEN [Blank EXCEPT !.gene = genes[n - c], !.parents = pair]
          ELSE new_pop[n]]
  BY Zenon DEF Crossover
<1>3. p[1] \in Elite .. BreedSize - 1 /\ p[2] \in Elite .. BreedSize - 1
      /\ (ses.xvr \in Compares => p[1] <= p[2])
  <2>1. x1 \in Elite .. BreedSize - 1 /\ x2 \in Elite .. BreedSize - 1
    BY FrameFacts, WinnerIsDrawn, SMTT(30) DEF Elite
  <2>2. x1 \in Int /\ x2 \in Int
    BY <2>1, FrameFacts
  <2> HIDE DEF p
  <2> QED  BY <2>1, <2>2, ParentsInOrder, SMTT(30) DEF p
<1> HIDE DEF p
<1>4. pair \in BreedRows \X BreedRows
  <2>1. p[1] \in BreedRows /\ p[2] \in BreedRows
    <3>1. Elite \in 0 .. BreedSize - 1 /\ BreedSize \in Nat
      BY FrameFacts
    <3>2. \A i \in Elite .. BreedSize - 1 : i \in BreedRows
      BY <3>1 DEF BreedRows
    <3> QED  BY <1>3, <3>2
  <2>2. order[p[1]] \in BreedRows /\ order[p[2]] \in BreedRows
    BY <2>1, FrameFacts
  <2> QED  BY <2>2
<1>5. /\ growth \in {1, 2}
      /\ \A k \in 1 .. growth : genes[k] \in Int
      /\ ses.xvr # "laplace" => \A k \in 1 .. growth : genes[k] \in Genes
  <2>1. OldGenes[order[p[1]]] \in Genes /\ OldGenes[order[p[2]]] \in Genes
    BY <1>4, BreedingAssumption DEF Genes
  <2>2. ses.xvr \in {"heuristic", "intermediate", "laplace", "scattered"}
    BY FrameFacts
  <2> HIDE DEF growth, ses, order, pair
  <2> QED  BY <2>1, <2>2, OffspringTyped DEF growth
<1>6. /\ breeding'.ses = ses /\ breeding'.inds = order /\ breeding'.score = breeding.score
      /\ breeding'.at = "crossover" /\ breeding'.uids = breeding.uids /\ breeding'.cursor = c + growth
      /\ breeding' \in Breedings
  <2>1. breeding \in Breedings
    BY DEF SlotsFit
  <2>2. c + growth \in Nat
    <3>1. c \in Nat
      BY FrameFacts
    <3> HIDE DEF c, growth
    <3> QED  BY <3>1, <1>5
  <2> HIDE DEF growth
  <2> QED  BY <1>1, <2>1, <2>2 DEF Breedings
<1>7. Elite' = Elite /\ (\A n : MovedOver(n)' = MovedOver(n)) /\ (\A slot : Born(slot)' <=> Born(slot))
  BY <1>6, SameSession
<1>8. /\ c \in Nat /\ len \in Nat /\ Elite \in Nat /\ Elite <= c
      /\ DOMAIN new_pop = 1 .. len
  BY <1>1, FrameFacts DEF InLoop
<1>even. growth = 2 => (len - c) % 2 = 0
  BY <1>1 DEF InLoop
<1>9. c + growth <= len /\ (growth = 2 => (len - (c + growth)) % 2 = 0)
  <2> HIDE DEF c, growth, len
  <2>1. CASE growth = 1
    BY <2>1, <1>1, <1>8
  <2>2. CASE growth = 2
    <3>1. (len - c) % 2 = 0
      BY <2>2, <1>even
    <3>2. c + 2 <= len /\ (len - (c + 2)) % 2 = 0
      BY <3>1, <1>1, <1>8, TurnFits, SMTT(30)
    <3> QED  BY <3>2, <2>2
  <2> QED  BY <2>1, <2>2, <1>5
<1> DEFINE child(n) == [id |-> 0, gene |-> genes[n - c], parents |-> pair, row |-> -1]
<1>10. /\ DOMAIN new_pop' = 1 .. len
       /\ \A n \in 1 .. len : n - c \in 1 .. growth => new_pop'[n] = child(n)
       /\ \A n \in 1 .. len : n - c \notin 1 .. growth => new_pop'[n] = new_pop[n]
  BY <1>2, <1>8 DEF Blank
<1>11. \A n \in 1 .. len : n - c \in 1 .. growth => child(n) \in Slots
  <2> SUFFICES ASSUME NEW n \in 1 .. len, n - c \in 1 .. growth PROVE child(n) \in Slots
    OBVIOUS
  <2>1. genes[n - c] \in Int
    BY <1>5
  <2>2. -1 \in -1 .. BreedSize - 1
    BY FrameFacts
  <2> HIDE DEF pair
  <2> QED  BY <1>4, <2>1, <2>2 DEF Slots
<1> HIDE DEF child
<1>12. new_pop' \in Seq(Slots) /\ Len(new_pop') = len
  <2>1. \A n \in 1 .. len : new_pop'[n] \in Slots
    BY <1>10, <1>11, FrameFacts
  <2>2. new_pop' = [n \in 1 .. len |-> new_pop'[n]]
    BY <1>2, <1>8
  <2>3. len \in Nat
    BY <1>8
  <2> HIDE DEF len
  <2>4. new_pop' \in [1 .. len -> Slots]
    BY <2>1, <2>2
  <2> QED  BY <2>3, <2>4
<1>13. \A n \in 1 .. len : n - c \in 1 .. growth <=> n > c /\ n <= c + growth
  <2> HIDE DEF c, growth, len
  <2> QED  BY <1>5, <1>8
<1>14. \A n \in 1 .. len : n - c \in 1 .. growth => Born(child(n))
  <2> SUFFICES ASSUME NEW n \in 1 .. len, n - c \in 1 .. growth PROVE Born(child(n))
    OBVIOUS
  <2>1. child(n).parents = <<order[p[1]], order[p[2]]>> /\ child(n).gene = genes[n - c]
    BY DEF child
  <2>2. Bounded => genes[n - c] \in Genes
    BY <1>5 DEF Bounded
  <2> QED  BY <2>1, <2>2, <1>3 DEF Born
<1>15. SlotsFit'
  <2>1. \A n \in 1 .. Elite : new_pop'[n] = MovedOver(n)
    <3>1. \A n \in 1 .. Elite : n \in 1 .. len /\ ~(n > c)
      BY <1>8, <1>1
    <3> QED  BY <3>1, <1>10, <1>13 DEF SlotsFit
  <2>2. \A n \in Elite + 1 .. len : new_pop'[n].row = -1 /\ (new_pop'[n].parents # <<>> => Born(new_pop'[n]))
    <3> SUFFICES ASSUME NEW n \in Elite + 1 .. len
                 PROVE  new_pop'[n].row = -1 /\ (new_pop'[n].parents # <<>> => Born(new_pop'[n]))
      OBVIOUS
    <3>0. n \in 1 .. len
      BY <1>8
    <3>1. CASE n - c \in 1 .. growth
      BY <3>0, <3>1, <1>10, <1>14 DEF child
    <3>2. CASE n - c \notin 1 .. growth
      <4>1. new_pop'[n] = new_pop[n]
        BY <3>0, <3>2, <1>10
      <4> QED  BY <4>1 DEF SlotsFit, KidSlots
    <3> QED  BY <3>1, <3>2
  <2>3. breeding'.inds \in Orders(breeding'.score) /\ BreedSize <= len
    BY <1>6 DEF SlotsFit
  <2> QED  BY <2>1, <2>2, <2>3, <1>6, <1>7, <1>12 DEF SlotsFit, KidSlots
<1>16. InLoop'
  <2>1. Elite <= c + growth
    BY <1>5, <1>8
  <2>2. breeding.uids = BreedSize
    BY <1>1 DEF InLoop
  <2>3. \A n \in Elite + 1 .. len :
          new_pop'[n].id = 0 /\ (n <= c + growth => new_pop'[n].parents # <<>>)
    <3> SUFFICES ASSUME NEW n \in Elite + 1 .. len
                 PROVE  new_pop'[n].id = 0 /\ (n <= c + growth => new_pop'[n].parents # <<>>)
      OBVIOUS
    <3>0. n \in 1 .. len /\ n \in Int
      BY <1>8
    <3>1. CASE n - c \in 1 .. growth
      <4>1. new_pop'[n] = child(n)
        BY <3>0, <3>1, <1>10
      <4>2. pair # <<>>
        OBVIOUS
      <4> QED  BY <4>1, <4>2 DEF child
    <3>2. CASE n - c \notin 1 .. growth
      <4>1. new_pop'[n] = new_pop[n]
        BY <3>0, <3>2, <1>10
      <4>2. n <= c + growth => n <= c
        BY <3>0, <3>2, <1>13, <1>5, <1>8
      <4>3. new_pop[n].id = 0 /\ (n <= c => new_pop[n].parents # <<>>)
        BY <1>1 DEF InLoop, KidSlots
      <4> QED  BY <4>1, <4>2, <4>3
    <3> QED  BY <3>1, <3>2
  <2> QED  BY <2>1, <2>2, <2>3, <1>6, <1>7, <1>9, <1>12 DEF InLoop, KidSlots
<1>17. BehindLoop'
  BY <1>6 DEF BehindLoop
<1> HIDE DEF ses, order, c, growth, len, pair
<1> QED  BY <1>15, <1>16, <1>17 DEF BreedInv

LEMMA CutOffKeeps == ASSUME SlotsFit, InLoop, CutOff PROVE BreedInv'
<1>1. /\ breeding.at = "crossover" /\ breeding.cursor = Len(new_pop)
      /\ new_pop' = SubSeq(new_pop, 1, BreedSize)
      /\ breeding' = [breeding EXCEPT !.at = "mutate"]
  BY DEF CutOff
<1>2. /\ breeding'.ses = breeding.ses /\ breeding'.inds = breeding.inds /\ breeding'.score = breeding.score
      /\ breeding'.at = "mutate" /\ breeding'.uids = breeding.uids
      /\ breeding' \in Breedings
  BY <1>1 DEF SlotsFit, Breedings
<1>3. Elite' = Elite /\ (\A n : MovedOver(n)' = MovedOver(n)) /\ (\A slot : Born(slot)' <=> Born(slot))
  BY <1>2, SameSession
<1>4. /\ BreedSize \in Nat \ {0} /\ Elite \in Nat /\ Elite < BreedSize
      /\ Len(new_pop) \in Nat /\ BreedSize <= Len(new_pop)
  BY FrameFacts DEF SlotsFit
<1>5. /\ new_pop' \in Seq(Slots) /\ Len(new_pop') = BreedSize
      /\ \A n \in 1 .. BreedSize : new_pop'[n] = new_pop[n]
  <2>1. \A i \in 1 .. BreedSize : new_pop[i] \in Slots
    BY <1>4, FrameFacts
  <2> QED  BY <2>1, <1>1, <1>4, SubSeqProperties
<1>6. /\ \A n \in 1 .. Elite : n \in 1 .. BreedSize
      /\ \A n \in Elite + 1 .. BreedSize : n \in 1 .. BreedSize /\ n \in KidSlots /\ n <= Len(new_pop)
  BY <1>4 DEF KidSlots
<1>7. KidSlots' = Elite + 1 .. BreedSize
  BY <1>3, <1>5 DEF KidSlots
<1>8. SlotsFit'
  <2>1. \A n \in 1 .. Elite : new_pop'[n] = MovedOver(n)
    BY <1>5, <1>6 DEF SlotsFit
  <2>2. \A n \in Elite + 1 .. BreedSize : new_pop'[n].row = -1 /\ (new_pop'[n].parents # <<>> => Born(new_pop'[n]))
    BY <1>5, <1>6 DEF SlotsFit
  <2>3. breeding'.inds \in Orders(breeding'.score) /\ BreedSize <= BreedSize
    BY <1>2, <1>4 DEF SlotsFit
  <2> QED  BY <2>1, <2>2, <2>3, <1>2, <1>3, <1>5, <1>7 DEF SlotsFit
<1>9. \A n \in Elite + 1 .. BreedSize : new_pop'[n].id = 0 /\ new_pop'[n].parents # <<>>
  BY <1>1, <1>5, <1>6 DEF InLoop
<1>10. WithIds' = {}
  BY <1>7, <1>9 DEF WithIds
<1>11. BehindLoop'
  <2>1. breeding'.uids = BreedSize + Cardinality(WithIds')
    BY <1>1, <1>2, <1>4, <1>10, FS_EmptySet DEF InLoop
  <2> QED  BY <2>1, <1>2, <1>5, <1>7, <1>9, <1>10 DEF BehindLoop
<1>12. InLoop'
  BY <1>2 DEF InLoop
<1> QED  BY <1>8, <1>11, <1>12 DEF BreedInv

LEMMA MutateKeeps ==
  ASSUME SlotsFit, BehindLoop, NEW n \in DOMAIN new_pop, Mutate(n)
  PROVE  BreedInv'
<1> DEFINE uid == breeding.uids + 1
<1>1. /\ breeding.at = "mutate" /\ new_pop[n].id = 0
      /\ breeding' = [breeding EXCEPT !.uids = uid]
  BY DEF Mutate
<1>2. PICK gene \in Mutations(breeding.ses.mtn, new_pop[n].gene) :
        new_pop' = [new_pop EXCEPT ![n].gene = gene, ![n].id = uid]
  BY DEF Mutate
<1>3. /\ Elite \in Nat /\ Elite < BreedSize /\ BreedSize \in Nat \ {0}
      /\ Len(new_pop) = BreedSize /\ DOMAIN new_pop = 1 .. BreedSize
      /\ breeding.uids \in Nat /\ uid \in Nat
      /\ \A m \in 1 .. BreedSize : new_pop[m] \in Slots
  BY <1>1, FrameFacts DEF BehindLoop
<1>4. /\ breeding'.ses = breeding.ses /\ breeding'.inds = breeding.inds /\ breeding'.score = breeding.score
      /\ breeding'.at = "mutate" /\ breeding'.uids = uid
      /\ breeding' \in Breedings
  BY <1>1, <1>3 DEF SlotsFit, Breedings
<1>5. Elite' = Elite /\ (\A m : MovedOver(m)' = MovedOver(m)) /\ (\A slot : Born(slot)' <=> Born(slot))
  BY <1>4, SameSession
<1>6. n \in KidSlots
  <2>1. ASSUME n <= Elite PROVE FALSE
    <3>1. n \in 1 .. Elite
      BY <1>3, <2>1
    <3>2. new_pop[n].id = breeding.inds[n - 1] + 1
      BY <3>1, MovedIs
    <3>3. n - 1 \in BreedRows
      BY <3>1, <1>3 DEF BreedRows
    <3>4. breeding.inds[n - 1] \in 0 .. BreedSize - 1
      BY <3>3, FrameFacts DEF BreedRows
    <3> QED  BY <3>2, <3>4, <1>1, <1>3
  <2> QED  BY <2>1, <1>3 DEF KidSlots
<1>7. new_pop[n].parents # <<>> /\ new_pop[n].row = -1 /\ Born(new_pop[n])
  BY <1>1, <1>6 DEF BehindLoop, SlotsFit
<1>8. gene \in Int /\ (Bounded => gene \in Genes)
  <2>1. new_pop[n].gene \in Int /\ (Bounded => new_pop[n].gene \in Genes)
    BY <1>3, <1>7 DEF Slots, Born
  <2>2. breeding.ses.mtn \in {"gaussian", "power", "uniform", "disabled"}
    BY FrameFacts
  <2>3. Bounded => breeding.ses.mtn # "gaussian"
    BY DEF Bounded
  <2> QED  BY <2>1, <2>2, <2>3, MutationTyped
<1> DEFINE child == [id |-> uid, gene |-> gene, parents |-> new_pop[n].parents, row |-> new_pop[n].row]
<1>9. child \in Slots
  BY <1>3, <1>8 DEF Slots
<1>10. /\ new_pop' = [new_pop EXCEPT ![n] = child]
       /\ new_pop'[n] = child
       /\ \A m \in 1 .. BreedSize : m # n => new_pop'[m] = new_pop[m]
  <2>1. new_pop[n] = [id |-> new_pop[n].id, gene |-> new_pop[n].gene,
                      parents |-> new_pop[n].parents, row |-> new_pop[n].row]
    BY <1>3 DEF Slots
  <2>2. new_pop' = [new_pop EXCEPT ![n] = child]
    <3>1. new_pop' = [new_pop EXCEPT ![n] = [[new_pop[n] EXCEPT !.gene = gene] EXCEPT !.id = uid]]
      BY <1>2, <1>3
    <3> DEFINE old == new_pop[n]  grown == [[old EXCEPT !.gene = gene] EXCEPT !.id = uid]
    <3>2. /\ grown \in [id : {uid}, gene : {gene}, parents : {old.parents}, row : {old.row}]
          /\ grown.id = uid /\ grown.gene = gene /\ grown.parents = old.parents /\ grown.row = old.row
      <4> HIDE DEF old, uid
      <4> QED  BY <2>1 DEF old
    <3> HIDE DEF grown
    <3>3. grown = [id |-> grown.id, gene |-> grown.gene, parents |-> grown.parents, row |-> grown.row]
      BY <3>2
    <3>4. grown = child
      BY <3>2, <3>3
    <3>5. new_pop' = [new_pop EXCEPT ![n] = grown]
      BY <3>1 DEF grown
    <3> HIDE DEF child
    <3> QED  BY <3>4, <3>5
  <2> QED  BY <2>2, <1>3
<1>11. new_pop' \in Seq(Slots) /\ Len(new_pop') = BreedSize
  BY <1>3, <1>9, <1>10 DEF SlotsFit
<1>12. child.id = uid /\ child.gene = gene /\ child.parents = new_pop[n].parents /\ child.row = -1
  BY <1>7
<1>13. Born(child)
  BY <1>7, <1>8, <1>12 DEF Born
<1> HIDE DEF child
<1>14. KidSlots' = KidSlots /\ KidSlots = Elite + 1 .. BreedSize
  BY <1>3, <1>5, <1>11 DEF KidSlots
<1>15. \A m \in KidSlots : m \in 1 .. BreedSize
  BY <1>3, <1>14
<1>16. SlotsFit'
  <2>1. \A m \in 1 .. Elite : new_pop'[m] = MovedOver(m)
    <3>1. \A m \in 1 .. Elite : m \in 1 .. BreedSize /\ m # n
      BY <1>3, <1>6, <1>14
    <3> QED  BY <3>1, <1>10 DEF SlotsFit
  <2>2. \A m \in KidSlots : new_pop'[m].row = -1 /\ (new_pop'[m].parents # <<>> => Born(new_pop'[m]))
    <3> SUFFICES ASSUME NEW m \in KidSlots
                 PROVE  new_pop'[m].row = -1 /\ (new_pop'[m].parents # <<>> => Born(new_pop'[m]))
      OBVIOUS
    <3>1. CASE m = n
      BY <3>1, <1>10, <1>12, <1>13
    <3>2. CASE m # n
      <4>1. new_pop'[m] = new_pop[m]
        BY <3>2, <1>10, <1>15
      <4> QED  BY <4>1 DEF SlotsFit
    <3> QED  BY <3>1, <3>2
  <2>3. breeding'.inds \in Orders(breeding'.score) /\ BreedSize <= Len(new_pop')
    BY <1>3, <1>4, <1>11 DEF SlotsFit
  <2> QED  BY <2>1, <2>2, <2>3, <1>4, <1>5, <1>11, <1>14 DEF SlotsFit
<1>17. WithIds' = WithIds \cup {n} /\ n \notin WithIds
  <2>1. uid # 0
    BY <1>3
  <2>2. \A m \in KidSlots : new_pop'[m].id # 0 <=> m = n \/ new_pop[m].id # 0
    BY <2>1, <1>10, <1>12, <1>15
  <2> QED  BY <2>2, <1>1, <1>6, <1>14 DEF WithIds
<1>18. IsFiniteSet(WithIds) /\ Cardinality(WithIds') = Cardinality(WithIds) + 1
  <2>1. IsFiniteSet(KidSlots)
    <3>1. Elite + 1 \in Int /\ BreedSize \in Int
      BY <1>3
    <3> QED  BY <3>1, <1>14, FS_Interval
  <2>2. WithIds \in SUBSET KidSlots
    BY DEF WithIds
  <2>3. IsFiniteSet(WithIds)
    BY <2>1, <2>2, FS_Subset
  <2> QED  BY <2>3, <1>17, FS_AddElement
<1>19. BehindLoop'
  <2>1. \A m \in KidSlots : new_pop'[m].parents # <<>>
    BY <1>1, <1>7, <1>10, <1>12, <1>15 DEF BehindLoop
  <2>2. \A m \in WithIds : /\ m # n /\ new_pop'[m] = new_pop[m]
                         /\ BreedSize < new_pop[m].id /\ new_pop[m].id <= breeding.uids /\ new_pop[m].id \in Nat
    <3>1. \A m \in WithIds : m \in KidSlots /\ m # n
      BY <1>17 DEF WithIds
    <3>2. \A m \in WithIds : m \in 1 .. BreedSize
      BY <3>1, <1>15
    <3>3. \A m \in WithIds : new_pop[m].id \in Nat
      BY <3>2, <1>3 DEF Slots
    <3> QED  BY <3>1, <3>2, <3>3, <1>1, <1>10 DEF BehindLoop
  <2>3. Cardinality(WithIds) \in Nat /\ breeding.uids = BreedSize + Cardinality(WithIds)
    BY <1>1, <1>18, FS_CardinalityType DEF BehindLoop
  <2>4. BreedSize < uid /\ uid <= uid
    BY <2>3, <1>3
  <2>5. \A m \in WithIds' : BreedSize < new_pop'[m].id /\ new_pop'[m].id <= uid
    <3> SUFFICES ASSUME NEW m \in WithIds' PROVE BreedSize < new_pop'[m].id /\ new_pop'[m].id <= uid
      OBVIOUS
    <3>1. CASE m = n
      BY <3>1, <2>4, <1>10, <1>12
    <3>2. CASE m \in WithIds
      BY <3>2, <2>2, <1>3
    <3> QED  BY <3>1, <3>2, <1>17
  <2>6. \A k, m \in WithIds' : k # m => new_pop'[k].id # new_pop'[m].id
    <3>1. \A m \in WithIds : new_pop'[m].id # uid
      BY <2>2, <1>3
    <3>2. \A k, m \in WithIds : k # m => new_pop'[k].id # new_pop'[m].id
      BY <2>2, <1>1 DEF BehindLoop
    <3>3. new_pop'[n].id = uid
      BY <1>10, <1>12
    <3> QED  BY <3>1, <3>2, <3>3, <1>17
  <2>7. uid = BreedSize + Cardinality(WithIds')
    BY <2>3, <1>3, <1>18
  <2> QED  BY <2>1, <2>5, <2>6, <2>7, <1>4, <1>11, <1>14 DEF BehindLoop
<1>20. InLoop'
  BY <1>4 DEF InLoop
<1> QED  BY <1>16, <1>19, <1>20 DEF BreedInv

LEMMA ReplaceKeeps == ASSUME SlotsFit, BehindLoop, Replace PROVE BreedInv'
<1>1. /\ breeding.at = "mutate" /\ \A n \in DOMAIN new_pop : new_pop[n].id # 0
      /\ breeding' = [breeding EXCEPT !.at = "done"] /\ new_pop' = new_pop
  BY DEF Replace
<1>2. /\ breeding'.ses = breeding.ses /\ breeding'.inds = breeding.inds /\ breeding'.score = breeding.score
      /\ breeding'.at = "done" /\ breeding'.uids = breeding.uids
      /\ breeding' \in Breedings
  BY <1>1 DEF SlotsFit, Breedings
<1>3. Elite' = Elite /\ (\A n : MovedOver(n)' = MovedOver(n)) /\ (\A slot : Born(slot)' <=> Born(slot))
  BY <1>2, SameSession
<1>4. KidSlots' = KidSlots /\ WithIds' = WithIds
  BY <1>1, <1>3 DEF KidSlots, WithIds
<1>5. WithIds = KidSlots
  <2>1. \A n \in KidSlots : n \in DOMAIN new_pop
    BY FrameFacts DEF KidSlots
  <2> QED  BY <2>1, <1>1 DEF WithIds
<1>6. SlotsFit'
  BY <1>1, <1>2, <1>3, <1>4 DEF SlotsFit
<1>7. InLoop' /\ BehindLoop'
  BY <1>1, <1>2, <1>4, <1>5 DEF InLoop, BehindLoop
<1> QED  BY <1>6, <1>7 DEF BreedInv

\* What the invariant says of a step that does nothing.
LEMMA BreedRests == ASSUME BreedInv, UNCHANGED breedVars PROVE BreedInv'
<1>1. breeding' = breeding /\ new_pop' = new_pop
  BY DEF breedVars
<1>2. Elite' = Elite /\ (\A n : MovedOver(n)' = MovedOver(n)) /\ (\A slot : Born(slot)' <=> Born(slot))
  BY <1>1, SameSession
<1>3. KidSlots' = KidSlots /\ WithIds' = WithIds
  BY <1>1, <1>2 DEF KidSlots, WithIds
<1>4. SlotsFit => SlotsFit'
  BY <1>1, <1>2, <1>3 DEF SlotsFit
<1>5. (InLoop => InLoop') /\ (BehindLoop => BehindLoop')
  BY <1>1, <1>2, <1>3 DEF InLoop, BehindLoop
<1> QED  BY <1>1, <1>4, <1>5 DEF BreedInv, Idle

\* The invariant holds in every state of a breeding.
THEOREM BreedInvariance == BreedSpec => []BreedInv
<1>1. BreedInit => BreedInv
  BY DEF BreedInit, BreedInv
<1>2. BreedInv /\ [BreedNext]_breedVars => BreedInv'
  <2> SUFFICES ASSUME BreedInv, [BreedNext]_breedVars PROVE BreedInv'
    OBVIOUS
  <2>1. CASE UNCHANGED breedVars
    BY <2>1, BreedRests
  <2>2. ASSUME NEW ses \in BreedSessions, NEW score \in BreedScores,
               NEW order \in Orders(score), Select(ses, score, order)
        PROVE  BreedInv'
    BY <2>2, SelectKeeps
  <2>3. ASSUME breeding.at # "idle"
        PROVE  SlotsFit /\ InLoop /\ BehindLoop
    BY <2>3 DEF BreedInv, Idle
  <2>4. ASSUME breeding.at = "crossover",
               NEW x1 \in Winners(breeding.ses), NEW x2 \in Winners(breeding.ses), Crossover(x1, x2)
        PROVE  BreedInv'
    BY <2>3, <2>4, CrossoverKeeps
  <2>5. CASE CutOff
    <3>1. breeding.at = "crossover"
      BY <2>5 DEF CutOff
    <3> QED  BY <3>1, <2>3, <2>5, CutOffKeeps
  <2>6. ASSUME NEW n \in DOMAIN new_pop, Mutate(n)
        PROVE  BreedInv'
    <3>1. breeding.at = "mutate"
      BY <2>6 DEF Mutate
    <3> QED  BY <3>1, <2>3, <2>6, MutateKeeps
  <2>7. CASE Replace
    <3>1. breeding.at = "mutate"
      BY <2>7 DEF Replace
    <3> QED  BY <3>1, <2>3, <2>7, ReplaceKeeps
  <2> QED  BY <2>1, <2>2, <2>4, <2>5, <2>6, <2>7 DEF BreedNext
<1> QED  BY <1>1, <1>2, PTL DEF BreedSpec

\* Where next_generation ends, the generation is one of those Trainer allows.
LEMMA DoneIsNextGeneration ==
  ASSUME SlotsFit, BehindLoop, breeding.at = "done", NEW e \in 0 .. BreedSize - 1, e = Elite
  PROVE  IsNextGeneration(e)
<1> DEFINE order == breeding.inds  uids == breeding.uids
           kids == [i \in e .. BreedSize - 1 |-> Grown(new_pop[i + 1])]
           fit(i) == [k \in {0} |-> breeding.score[i]]
<1>1. /\ e \in 0 .. BreedSize - 1 /\ BreedSize \in Nat \ {0} /\ e \in Nat /\ uids \in Nat
      /\ order \in [BreedRows -> BreedRows] /\ breeding.score \in [BreedRows -> Nat]
      /\ Len(new_pop) = BreedSize /\ \A n \in 1 .. BreedSize : new_pop[n] \in Slots
  BY FrameFacts DEF BehindLoop
<1>2. /\ KidSlots = e + 1 .. BreedSize /\ WithIds = KidSlots
      /\ uids = BreedSize + Cardinality(WithIds)
  BY <1>1 DEF BehindLoop, KidSlots
<1>3. uids = BreedSize + BreedSize - e
  <2>1. e + 1 \in Int /\ BreedSize \in Int /\ ~(e + 1 > BreedSize)
    BY <1>1
  <2>2. Cardinality(e + 1 .. BreedSize) = BreedSize - (e + 1) + 1
    BY <2>1, FS_Interval
  <2> QED  BY <2>2, <1>1, <1>2
<1>4. /\ Before.generation = 0 /\ Before.uids = BreedSize
      /\ \A i \in BreedRows : Before.population[i] = [id |-> i + 1, fit |-> fit(i)]
      /\ \A i \in BreedRows : Before.results[i] = fit(i)
  BY DEF Before
<1>5. order \in Core(e)!Sorted(Before)
  <2>1. Core(e)!Rows = BreedRows
    BY DEF Core!Rows, BreedRows
  <2>2. \A i \in BreedRows : Core(e)!Score(Before.results[i]) = breeding.score[i]
    <3> SUFFICES ASSUME NEW i \in BreedRows PROVE Core(e)!Score(fit(i)) = breeding.score[i]
      BY <1>4
    <3>1. fit(i) \in [{0} -> Nat] /\ fit(i)[0] = breeding.score[i]
      BY <1>1
    <3> HIDE DEF fit
    <3> QED  BY <3>1, ScoreOfOne
  <2>3. \A i \in BreedRows : order[i] \in BreedRows
    BY <1>1
  <2>4. \A i, j \in BreedRows : i < j =>
          Core(e)!Score(Before.results[order[i]]) <= Core(e)!Score(Before.results[order[j]])
    BY <2>2, <2>3, FrameFacts DEF SlotsFit, Orders
  <2>5. \A i, j \in BreedRows : i # j => order[i] # order[j]
    BY FrameFacts
  <2> HIDE DEF order
  <2> QED  BY <2>1, <2>4, <2>5, <1>1 DEF Core!Sorted
<1>6. \A i \in e .. BreedSize - 1 :
        /\ i + 1 \in KidSlots /\ i \in BreedRows
        /\ Grown(new_pop[i + 1]) = [id |-> new_pop[i + 1].id, fit |-> [k \in {0} |-> -1]]
        /\ new_pop[i + 1].id \in BreedSize + 1 .. uids
  <2> SUFFICES ASSUME NEW i \in e .. BreedSize - 1
               PROVE  /\ i + 1 \in KidSlots /\ i \in BreedRows
                      /\ Grown(new_pop[i + 1]) = [id |-> new_pop[i + 1].id, fit |-> [k \in {0} |-> -1]]
                      /\ new_pop[i + 1].id \in BreedSize + 1 .. uids
    OBVIOUS
  <2>1. i + 1 \in KidSlots /\ i \in BreedRows /\ i + 1 \in 1 .. BreedSize
    BY <1>1, <1>2 DEF BreedRows
  <2>2. new_pop[i + 1].row = -1
    BY <2>1 DEF SlotsFit
  <2>3. Grown(new_pop[i + 1]) = [id |-> new_pop[i + 1].id, fit |-> [k \in {0} |-> -1]]
    BY <2>2 DEF Grown
  <2>4. new_pop[i + 1].id \in Nat
    BY <2>1, <1>1 DEF Slots
  <2>5. BreedSize < new_pop[i + 1].id /\ new_pop[i + 1].id <= uids
    BY <2>1, <1>2 DEF BehindLoop
  <2> QED  BY <2>1, <2>3, <2>4, <2>5, <1>1
<1>7. kids \in Core(e)!Children(Before)
  <2>1. Core(e)!ChildRows = e .. BreedSize - 1
    BY DEF Core!ChildRows
  <2>2. Before.uids + BreedSize - e = uids /\ Before.uids + 1 = BreedSize + 1
    BY <1>1, <1>3, <1>4
  <2>3. kids \in [e .. BreedSize - 1 -> [id : BreedSize + 1 .. uids, fit : [{0} -> (0 .. BreedSize) \cup {-1}]]]
    <3>1. \A i \in e .. BreedSize - 1 :
            Grown(new_pop[i + 1]) \in [id : BreedSize + 1 .. uids, fit : [{0} -> (0 .. BreedSize) \cup {-1}]]
      <4> SUFFICES ASSUME NEW i \in e .. BreedSize - 1
                   PROVE  Grown(new_pop[i + 1])
                            \in [id : BreedSize + 1 .. uids, fit : [{0} -> (0 .. BreedSize) \cup {-1}]]
        OBVIOUS
      <4>1. /\ Grown(new_pop[i + 1]) = [id |-> new_pop[i + 1].id, fit |-> [k \in {0} |-> -1]]
            /\ new_pop[i + 1].id \in BreedSize + 1 .. uids
        BY <1>6
      <4>2. [k \in {0} |-> -1] \in [{0} -> (0 .. BreedSize) \cup {-1}]
        OBVIOUS
      <4> HIDE DEF uids
      <4> QED  BY <4>1, <4>2
    <3> HIDE DEF uids
    <3> QED  BY <3>1
  <2>4. \A i, j \in e .. BreedSize - 1 : i # j => kids[i].id # kids[j].id
    <3> SUFFICES ASSUME NEW a \in e .. BreedSize - 1, NEW b \in e .. BreedSize - 1, a # b
                 PROVE  new_pop[a + 1].id # new_pop[b + 1].id
      <4>1. \A i \in e .. BreedSize - 1 : kids[i] = Grown(new_pop[i + 1])
        OBVIOUS
      <4>2. ASSUME NEW i \in e .. BreedSize - 1 PROVE Grown(new_pop[i + 1]).id = new_pop[i + 1].id
        BY DEF Grown
      <4>3. \A i \in e .. BreedSize - 1 : kids[i].id = new_pop[i + 1].id
        BY <4>1, <4>2
      <4> HIDE DEF kids
      <4> QED  BY <4>3
    <3>1. a + 1 \in WithIds /\ b + 1 \in WithIds /\ a + 1 # b + 1
      BY <1>1, <1>2, <1>6
    <3> QED  BY <3>1 DEF BehindLoop
  <2> HIDE DEF kids, uids
  <2> QED  BY <2>1, <2>2, <2>3, <2>4 DEF Core!Children
<1>8. After = Core(e)!Bred(Before, order, kids)
  <2>1. /\ Core(e)!Rows = BreedRows /\ Core(e)!EliteRows = 0 .. e - 1
    BY DEF Core!Rows, Core!EliteRows, BreedRows
  <2>2. \A i \in BreedRows :
          Grown(new_pop[i + 1]) = IF i \in 0 .. e - 1 THEN Before.population[order[i]] ELSE kids[i]
    <3> SUFFICES ASSUME NEW i \in BreedRows
                 PROVE  Grown(new_pop[i + 1]) = IF i \in 0 .. e - 1 THEN Before.population[order[i]] ELSE kids[i]
      OBVIOUS
    <3>1. CASE i \in 0 .. e - 1
      <4>1. i + 1 \in 1 .. e /\ (i + 1) - 1 = i
        BY <3>1, <1>1
      <4>2. new_pop[i + 1] = MovedOver(i + 1)
        BY <4>1 DEF SlotsFit
      <4>3. new_pop[i + 1].id = order[i] + 1 /\ new_pop[i + 1].row = order[i]
        BY <4>1, <4>2 DEF MovedOver
      <4>4. order[i] \in BreedRows /\ order[i] >= 0
        BY <1>1 DEF BreedRows
      <4>5. Before.population[order[i]] = [id |-> order[i] + 1, fit |-> fit(order[i])]
        BY <4>4, <1>4
      <4>6. Grown(new_pop[i + 1]) = [id |-> order[i] + 1, fit |-> Before.population[order[i]].fit]
        BY <4>3, <4>4 DEF Grown
      <4> QED  BY <3>1, <4>5, <4>6
    <3>2. CASE i \notin 0 .. e - 1
      <4>1. i \in e .. BreedSize - 1
        BY <3>2, <1>1 DEF BreedRows
      <4> QED  BY <3>2, <4>1
    <3> QED  BY <3>1, <3>2
  <2>3. uids = Before.uids + BreedSize - e /\ Before.generation + 1 = 1
    BY <1>1, <1>3, <1>4
  <2>4. After = [Before EXCEPT !.population = [i \in BreedRows |->
                                   IF i \in 0 .. e - 1 THEN Before.population[order[i]] ELSE kids[i]],
                               !.uids = Before.uids + BreedSize - e,
                               !.generation = Before.generation + 1]
    BY <2>2, <2>3 DEF After, Before
  <2> HIDE DEF kids, order
  <2> QED  BY <2>1, <2>4 DEF Core!Bred
<1> QED  BY <1>5, <1>7, <1>8 DEF IsNextGeneration

\* What next_generation makes is a generation Trainer allows, its children have
\* whole parents in order, and their weights keep inside the bounds, for any
\* size, elite, crossover, mutation, scores, draws and order of the mutations.
THEOREM BreedingIsSound == BreedSpec => []BreedingSound
<1>1. BreedInv => BreedingSound
  <2> SUFFICES ASSUME BreedInv PROVE BreedingSound
    OBVIOUS
  <2>1. CASE breeding.at = "idle"
    BY <2>1 DEF BreedingSound, ImplementsNextGeneration, ParentsAreWhole, GenesStayInside
  <2>2. CASE breeding.at # "idle"
    <3>1. SlotsFit /\ InLoop /\ BehindLoop
      BY <2>2 DEF BreedInv, Idle
    <3>2. ImplementsNextGeneration
      <4> SUFFICES ASSUME breeding.at = "done"
                   PROVE  /\ Len(new_pop) = BreedSize
                          /\ \E elite \in 0 .. BreedSize - 1 :
                               elite = breeding.ses.elite /\ IsNextGeneration(elite)
        BY DEF ImplementsNextGeneration
      <4>1. Len(new_pop) = BreedSize
        BY <3>1 DEF BehindLoop
      <4>2. PICK e \in 0 .. BreedSize - 1 : e = breeding.ses.elite
        BY <3>1, FrameFacts DEF Elite
      <4>3. IsNextGeneration(e)
        BY <3>1, <4>2, DoneIsNextGeneration DEF Elite
      <4> QED  BY <4>1, <4>2, <4>3
    <3>3. ParentsAreWhole
      <4> SUFFICES ASSUME NEW n \in DOMAIN new_pop, new_pop[n].parents # <<>>
                   PROVE  LET p == new_pop[n].parents
                          IN  /\ \A m \in 1 .. Elite : new_pop[m].row \notin {p[1], p[2]}
                              /\ breeding.ses.xvr \in Compares => breeding.score[p[1]] <= breeding.score[p[2]]
        BY DEF ParentsAreWhole, Elite
      <4>1. n \in 1 .. Len(new_pop) /\ Elite \in 0 .. BreedSize - 1 /\ BreedSize \in Nat /\ Len(new_pop) \in Nat
        BY <3>1, FrameFacts
      <4>2. n \in KidSlots
        <5>1. ASSUME n <= Elite PROVE FALSE
          <6>1. n \in 1 .. Elite
            BY <5>1, <4>1
          <6> QED  BY <6>1, <3>1, MovedIs
        <5> QED  BY <5>1, <4>1 DEF KidSlots
      <4>3. Born(new_pop[n])
        BY <4>2, <3>1 DEF SlotsFit
      <4>4. PICK i, j \in Elite .. BreedSize - 1 :
              /\ new_pop[n].parents = <<breeding.inds[i], breeding.inds[j]>>
              /\ breeding.ses.xvr \in Compares => i <= j
        BY <4>3 DEF Born
      <4>5. i \in BreedRows /\ j \in BreedRows
        BY <4>1 DEF BreedRows
      <4>6. \A m \in 1 .. Elite : new_pop[m].row \notin {breeding.inds[i], breeding.inds[j]}
        <5> SUFFICES ASSUME NEW m \in 1 .. Elite
                     PROVE  new_pop[m].row # breeding.inds[i] /\ new_pop[m].row # breeding.inds[j]
          OBVIOUS
        <5>1. new_pop[m].row = breeding.inds[m - 1]
          BY <3>1, MovedIs
        <5>2. m - 1 \in BreedRows /\ m - 1 # i /\ m - 1 # j
          BY <4>1 DEF BreedRows
        <5> QED  BY <5>1, <5>2, <4>5, <3>1, FrameFacts
      <4>7. breeding.ses.xvr \in Compares => breeding.score[breeding.inds[i]] <= breeding.score[breeding.inds[j]]
        BY <4>4, <4>5, <3>1, FrameFacts
      <4> QED  BY <4>4, <4>6, <4>7
    <3>4. GenesStayInside
      <4> SUFFICES ASSUME breeding.at = "done", Bounded, NEW n \in DOMAIN new_pop
                   PROVE  new_pop[n].gene \in Genes
        BY DEF GenesStayInside, Bounded, Genes
      <4>1. n \in 1 .. Len(new_pop) /\ Elite \in 0 .. BreedSize - 1 /\ BreedSize \in Nat /\ Len(new_pop) \in Nat
        BY <3>1, FrameFacts
      <4>2. CASE n <= Elite
        <5>1. n \in 1 .. Elite /\ n - 1 \in BreedRows
          BY <4>1, <4>2 DEF BreedRows
        <5>2. new_pop[n].gene = OldGenes[breeding.inds[n - 1]]
          BY <5>1, <3>1, MovedIs
        <5>3. breeding.inds[n - 1] \in BreedRows
          BY <5>1, <3>1, FrameFacts
        <5> QED  BY <5>2, <5>3, BreedingAssumption DEF Genes
      <4>3. CASE ~(n <= Elite)
        <5>1. n \in KidSlots
          BY <4>1, <4>3 DEF KidSlots
        <5>2. Born(new_pop[n])
          BY <5>1, <3>1 DEF SlotsFit, BehindLoop
        <5> QED  BY <5>2 DEF Born
      <4> QED  BY <4>2, <4>3
    <3> QED  BY <3>2, <3>3, <3>4 DEF BreedingSound
  <2> QED  BY <2>1, <2>2
<1> QED  BY <1>1, BreedInvariance, PTL

-----------------------------------------------------------------------------
(* Framing: sequences put together piece by piece *)

\* A set of numbers that goes on with each number up to n has them all.  It is
\* instantiated with the set of the numbers a fact holds for.
LEMMA UpToLast ==
  ASSUME NEW n \in Nat, NEW T, 0 \in T, \A i \in 0 .. n : i \in T /\ i < n => i + 1 \in T
  PROVE  \A i \in 0 .. n : i \in T
<1> DEFINE missing == {i \in 0 .. n : i \notin T}
<1> SUFFICES ASSUME missing # {} PROVE FALSE
  OBVIOUS
<1>1. missing \in SUBSET Nat
  OBVIOUS
<1>2. PICK x \in missing : \A y \in missing : x <= y
  BY <1>1, LeastNatural
<1>3. x \in 0 .. n /\ x \notin T /\ x # 0
  BY <1>2
<1>4. x - 1 \in 0 .. n /\ x - 1 < n /\ (x - 1) + 1 = x /\ ~(x <= x - 1)
  BY <1>3
<1>5. x - 1 \in T
  BY <1>2, <1>4
<1> QED  BY <1>3, <1>4, <1>5

\* The first n elements of a sequence.
LEMMA FirstElements ==
  ASSUME NEW S, NEW s \in Seq(S), NEW n \in 0 .. Len(s)
  PROVE  /\ SubSeq(s, 1, n) \in Seq(S) /\ Len(SubSeq(s, 1, n)) = n
         /\ \A k \in 1 .. n : SubSeq(s, 1, n)[k] = s[k]
<1>1. n \in Int /\ n \in Nat /\ n <= Len(s) /\ Len(s) \in Nat
  OBVIOUS
<1>2. \A k \in 1 .. n : s[k] \in S
  BY <1>1
<1>3. /\ SubSeq(s, 1, n) \in Seq(S) /\ Len(SubSeq(s, 1, n)) = IF 1 <= n THEN n - 1 + 1 ELSE 0
      /\ \A k \in 1 .. n - 1 + 1 : SubSeq(s, 1, n)[k] = s[1 + k - 1]
  BY <1>1, <1>2, SubSeqProperties
<1>4. n - 1 + 1 = n /\ (~(1 <= n) => n = 0) /\ \A k \in 1 .. n : 1 + k - 1 = k
  BY <1>1
<1> QED  BY <1>3, <1>4

\* A sequence of m elements with another behind it.
LEMMA Joined ==
  ASSUME NEW S, NEW s \in Seq(S), NEW t \in Seq(S)
  PROVE  \A m, l : Len(s) = m /\ Len(t) = l =>
           /\ s \o t \in Seq(S) /\ Len(s \o t) = m + l
           /\ \A k \in 1 .. m + l : (s \o t)[k] = IF k <= m THEN s[k] ELSE t[k - m]
<1>1. /\ s \o t \in Seq(S) /\ Len(s \o t) = Len(s) + Len(t)
      /\ \A k \in 1 .. Len(s) + Len(t) : (s \o t)[k] = IF k <= Len(s) THEN s[k] ELSE t[k - Len(s)]
  BY ConcatProperties
<1> QED  BY <1>1, Zenon

\* FlattenSeq has a function of the beginnings to speak of.
Beginnings(seqs, n, f) ==
  f = [i \in 1 .. n |-> IF i = 1 THEN seqs[i] ELSE f[i - 1] \o seqs[i]]

\* Such a function exists: one more piece goes behind what there is.
LEMMA BeginningsExist ==
  ASSUME NEW seqs, NEW n \in Nat
  PROVE  \E f : Beginnings(seqs, n, f)
<1> DEFINE T == {m \in Nat : \E f : Beginnings(seqs, m, f)}
<1>1. 0 \in T
  <2>1. Beginnings(seqs, 0, [i \in {} |-> 0])
    BY DEF Beginnings
  <2> QED  BY <2>1
<1>2. ASSUME NEW m \in 0 .. n, m \in T, m < n PROVE m + 1 \in T
  <2>1. PICK f : Beginnings(seqs, m, f)
    BY <1>2
  <2> DEFINE piece(i, b) == IF i = 1 THEN seqs[i] ELSE b \o seqs[i]
             g == [i \in 1 .. m + 1 |-> IF i \in 1 .. m THEN f[i] ELSE piece(i, f[i - 1])]
  <2>2. ASSUME NEW i \in 1 .. m + 1 PROVE g[i] = IF i = 1 THEN seqs[i] ELSE g[i - 1] \o seqs[i]
    <3> HIDE DEF piece
    <3>1. i # 1 => i - 1 \in 1 .. m
      OBVIOUS
    <3>2. i # 1 => g[i - 1] = f[i - 1]
      BY <3>1
    <3>3. i = 1 => piece(i, f[i - 1]) = piece(i, g[i - 1])
      BY DEF piece
    <3>4. piece(i, f[i - 1]) = piece(i, g[i - 1])
      BY <3>2, <3>3
    <3>5. i \in 1 .. m => f[i] = piece(i, f[i - 1])
      BY <2>1 DEF Beginnings, piece
    <3>6. g[i] = piece(i, g[i - 1])
      BY <3>4, <3>5
    <3> QED  BY <3>6 DEF piece
  <2>3. Beginnings(seqs, m + 1, g)
    <3>1. g = [i \in 1 .. m + 1 |-> g[i]]
      OBVIOUS
    <3> HIDE DEF g
    <3>2. [i \in 1 .. m + 1 |-> g[i]] = [i \in 1 .. m + 1 |-> IF i = 1 THEN seqs[i] ELSE g[i - 1] \o seqs[i]]
      BY <2>2
    <3> QED  BY <3>1, <3>2 DEF Beginnings
  <2> QED  BY <2>3
<1>3. \A m \in 0 .. n : m \in T
  <2> HIDE DEF T
  <2> QED  BY <1>1, <1>2, UpToLast
<1> QED  BY <1>3

\* Where the pieces of a sequence put together by FlattenSeq end.
PiecesEnd(seqs, N, S, ends) ==
  /\ ends \in [0 .. N -> Nat]
  /\ ends[0] = 0 /\ FlattenSeq(seqs) \in Seq(S) /\ Len(FlattenSeq(seqs)) = ends[N]
  /\ \A n \in 1 .. N : ends[n] = ends[n - 1] + Len(seqs[n]) /\ ends[n] <= ends[N]
  /\ \A n \in 1 .. N : \A k \in 1 .. Len(seqs[n]) : FlattenSeq(seqs)[ends[n - 1] + k] = seqs[n][k]

\* FlattenSeq lays the pieces one behind the other and leaves nothing between.
LEMMA FlattenLayout ==
  ASSUME NEW S, NEW N \in Nat \ {0}, NEW seqs \in [1 .. N -> Seq(S)]
  PROVE  \E ends : PiecesEnd(seqs, N, S, ends)
<1> DEFINE flat == CHOOSE f : Beginnings(seqs, N, f)
<1>1. Len(seqs) = N
  OBVIOUS
<1>2. FlattenSeq(seqs) = flat[N]
  BY <1>1 DEF FlattenSeq, Beginnings
<1>3. Beginnings(seqs, N, flat)
  BY BeginningsExist
<1> HIDE DEF flat
<1>4. /\ flat[1] = seqs[1]
      /\ \A n \in 1 .. N : n # 1 => flat[n] = flat[n - 1] \o seqs[n]
  <2>1. \A n \in 1 .. N : flat[n] = IF n = 1 THEN seqs[n] ELSE flat[n - 1] \o seqs[n]
    BY <1>3, Zenon DEF Beginnings
  <2>2. 1 \in 1 .. N
    OBVIOUS
  <2> QED  BY <2>1, <2>2, Zenon
<1> DEFINE begun == [n \in 0 .. N |-> IF n = 0 THEN <<>> ELSE flat[n]]
           Typed == {n \in Nat : n <= N => begun[n] \in Seq(S)}
<1>5. begun[0] = <<>> /\ begun[N] = flat[N]
  OBVIOUS
<1>6. ASSUME NEW n \in 1 .. N, begun[n - 1] \in Seq(S) PROVE begun[n] = begun[n - 1] \o seqs[n]
  <2>1. CASE n = 1
    <3>1. begun[n - 1] = <<>> /\ begun[n] = seqs[1] /\ seqs[1] \in Seq(S)
      BY <2>1, <1>4
    <3> QED  BY <3>1, <2>1, ConcatEmptySeq
  <2>2. CASE n # 1
    <3>1. begun[n] = flat[n] /\ begun[n - 1] = flat[n - 1]
      BY <2>2
    <3> QED  BY <3>1, <2>2, <1>4
  <2> QED  BY <2>1, <2>2
<1> HIDE DEF begun
<1>7. \A n \in 0 .. N : begun[n] \in Seq(S)
  <2>1. 0 \in Typed
    <3>1. <<>> \in Seq(S) /\ 0 \in Nat
      OBVIOUS
    <3> QED  BY <3>1, <1>5
  <2>2. ASSUME NEW n \in 0 .. N, n \in Typed, n < N PROVE n + 1 \in Typed
    <3>1. n + 1 \in 1 .. N /\ (n + 1) - 1 = n /\ begun[n] \in Seq(S)
      BY <2>2
    <3>2. begun[n + 1] = begun[n] \o seqs[n + 1]
      BY <3>1, <1>6
    <3>3. begun[n + 1] \in Seq(S)
      BY <3>1, <3>2, ConcatProperties
    <3> QED  BY <3>3
  <2>3. \A n \in 0 .. N : n \in Typed
    <3> HIDE DEF Typed
    <3> QED  BY <2>1, <2>2, UpToLast
  <2> QED  BY <2>3
<1>8. \A n \in 1 .. N : begun[n] = begun[n - 1] \o seqs[n]
  <2> SUFFICES ASSUME NEW n \in 1 .. N PROVE begun[n] = begun[n - 1] \o seqs[n]
    OBVIOUS
  <2>1. n - 1 \in 0 .. N
    OBVIOUS
  <2> QED  BY <2>1, <1>6, <1>7
<1> DEFINE ends == [n \in 0 .. N |-> Len(begun[n])]
<1>9. \A n \in 0 .. N : ends[n] = Len(begun[n]) /\ ends[n] \in Nat
  BY <1>7, LenProperties
<1>10. ends \in [0 .. N -> Nat] /\ ends[0] = 0
  <2>1. Len(begun[0]) = 0
    BY <1>5
  <2> QED  BY <1>9, <2>1
<1> HIDE DEF ends
<1>11. ASSUME NEW n \in 1 .. N
       PROVE  /\ n - 1 \in 0 .. N /\ n \in 0 .. N /\ ends[n - 1] \in Nat /\ ends[n] \in Nat
              /\ Len(seqs[n]) \in Nat
              /\ ends[n] = ends[n - 1] + Len(seqs[n])
              /\ \A k \in 1 .. Len(begun[n - 1]) : begun[n][k] = begun[n - 1][k]
              /\ \A k \in 1 .. Len(seqs[n]) : begun[n][ends[n - 1] + k] = seqs[n][k]
  <2>1. n - 1 \in 0 .. N /\ n \in 0 .. N
    OBVIOUS
  <2>2. begun[n - 1] \in Seq(S) /\ seqs[n] \in Seq(S)
    BY <2>1, <1>7
  <2>3. begun[n] = begun[n - 1] \o seqs[n] /\ ends[n - 1] = Len(begun[n - 1]) /\ ends[n] = Len(begun[n])
    BY <2>1, <1>8, <1>9
  <2>4. /\ Len(begun[n - 1]) \in Nat /\ Len(seqs[n]) \in Nat
        /\ Len(begun[n - 1] \o seqs[n]) = Len(begun[n - 1]) + Len(seqs[n])
        /\ \A k \in 1 .. Len(begun[n - 1]) + Len(seqs[n]) :
             (begun[n - 1] \o seqs[n])[k] = IF k <= Len(begun[n - 1]) THEN begun[n - 1][k]
                                            ELSE seqs[n][k - Len(begun[n - 1])]
    BY <2>2, ConcatProperties, LenProperties
  <2> DEFINE a == Len(begun[n - 1])  b == Len(seqs[n])
  <2>5. ASSUME NEW k \in 1 .. a PROVE begun[n][k] = begun[n - 1][k]
    <3>1. k \in 1 .. a + b /\ k <= a
      BY <2>4
    <3> QED  BY <3>1, <2>3, <2>4
  <2>6. ASSUME NEW k \in 1 .. b PROVE begun[n][a + k] = seqs[n][k]
    <3>1. a + k \in 1 .. a + b /\ ~(a + k <= a) /\ (a + k) - a = k
      BY <2>4
    <3> QED  BY <3>1, <2>3, <2>4
  <2>7. \A k \in 1 .. Len(seqs[n]) : begun[n][ends[n - 1] + k] = seqs[n][k]
    BY <2>3, <2>6
  <2>8. ends[n] = ends[n - 1] + Len(seqs[n]) /\ ends[n - 1] \in Nat /\ ends[n] \in Nat
    BY <2>3, <2>4
  <2> QED  BY <2>1, <2>4, <2>5, <2>7, <2>8
<1> DEFINE Laid == {m \in Nat : m <= N =>
                      \A n \in 1 .. m : /\ ends[n] <= ends[m]
                                        /\ \A k \in 1 .. Len(seqs[n]) : begun[m][ends[n - 1] + k] = seqs[n][k]}
<1>12. 0 \in Laid
  OBVIOUS
<1>13. ASSUME NEW m \in 0 .. N, m \in Laid, m < N PROVE m + 1 \in Laid
  <2>1. /\ m + 1 \in 1 .. N /\ (m + 1) - 1 = m /\ m + 1 \in Nat
        /\ \A n \in 1 .. m : /\ ends[n] <= ends[m]
                             /\ \A k \in 1 .. Len(seqs[n]) : begun[m][ends[n - 1] + k] = seqs[n][k]
    <3>1. m + 1 \in 1 .. N /\ (m + 1) - 1 = m /\ m + 1 \in Nat /\ m <= N
      <4> HIDE DEF Laid
      <4> QED  BY <1>13
    <3> QED  BY <1>13, <3>1
  <2>2. /\ ends[m] \in Nat /\ ends[m + 1] \in Nat /\ Len(seqs[m + 1]) \in Nat
        /\ ends[m + 1] = ends[m] + Len(seqs[m + 1])
        /\ \A k \in 1 .. Len(begun[m]) : begun[m + 1][k] = begun[m][k]
        /\ \A k \in 1 .. Len(seqs[m + 1]) : begun[m + 1][ends[m] + k] = seqs[m + 1][k]
    <3>1. /\ ends[(m + 1) - 1] \in Nat /\ ends[m + 1] \in Nat /\ Len(seqs[m + 1]) \in Nat
          /\ ends[m + 1] = ends[(m + 1) - 1] + Len(seqs[m + 1])
          /\ \A k \in 1 .. Len(begun[(m + 1) - 1]) : begun[m + 1][k] = begun[(m + 1) - 1][k]
          /\ \A k \in 1 .. Len(seqs[m + 1]) : begun[m + 1][ends[(m + 1) - 1] + k] = seqs[m + 1][k]
      BY <2>1, <1>11, Zenon
    <3>2. (m + 1) - 1 = m
      BY <2>1
    <3> QED  BY <3>1, <3>2, Zenon
  <2>3. ASSUME NEW n \in 1 .. m + 1
        PROVE  /\ ends[n] <= ends[m + 1]
               /\ \A k \in 1 .. Len(seqs[n]) : begun[m + 1][ends[n - 1] + k] = seqs[n][k]
    <3>1. CASE n = m + 1
      BY <3>1, <2>1, <2>2
    <3>2. CASE n # m + 1
      <4>1. n \in 1 .. m /\ n \in 1 .. N
        BY <3>2, <2>1
      <4>2. /\ ends[n - 1] \in Nat /\ ends[n] \in Nat /\ Len(seqs[n]) \in Nat
            /\ ends[n] = ends[n - 1] + Len(seqs[n]) /\ ends[n] <= ends[m]
        BY <4>1, <1>11, <2>1
      <4>3. ends[m] = Len(begun[m])
        BY <1>9
      <4>4. ASSUME NEW k \in 1 .. Len(seqs[n]) PROVE begun[m + 1][ends[n - 1] + k] = seqs[n][k]
        <5>1. ends[n - 1] + k \in 1 .. Len(begun[m])
          <6>1. ends[m] \in Nat
            BY <2>2
          <6> DEFINE a == ends[n - 1]  b == ends[n]  c == ends[m]  size == Len(seqs[n])
          <6>2. a \in Nat /\ size \in Nat /\ b = a + size /\ b <= c /\ c \in Nat /\ k \in 1 .. size
            BY <4>2, <6>1
          <6> HIDE DEF a, b, c, size
          <6>3. a + k \in 1 .. c
            BY <6>2
          <6> QED  BY <6>3, <4>3 DEF a, c
        <5> QED  BY <5>1, <4>1, <2>1, <2>2
      <4>5. ends[n] <= ends[m + 1]
        <5> DEFINE b == ends[n]  c == ends[m]  d == ends[m + 1]  size == Len(seqs[m + 1])
        <5>1. b \in Nat /\ c \in Nat /\ size \in Nat /\ b <= c /\ d = c + size
          BY <4>2, <2>2
        <5> HIDE DEF b, c, d, size
        <5>2. b <= d
          BY <5>1
        <5> QED  BY <5>2 DEF b, d
      <4> QED  BY <4>4, <4>5
    <3> QED  BY <3>1, <3>2
  <2> QED  BY <2>1, <2>3
<1>14. N \in Laid
  <2> HIDE DEF Laid
  <2>1. \A m \in 0 .. N : m \in Laid
    BY <1>12, <1>13, UpToLast
  <2> QED  BY <2>1
<1>15. FlattenSeq(seqs) = begun[N] /\ begun[N] \in Seq(S) /\ Len(begun[N]) = ends[N]
  <2>1. N \in 0 .. N
    OBVIOUS
  <2> QED  BY <2>1, <1>2, <1>5, <1>7, <1>9
<1>16. /\ \A n \in 1 .. N : ends[n] = ends[n - 1] + Len(seqs[n]) /\ ends[n] <= ends[N]
       /\ \A n \in 1 .. N : \A k \in 1 .. Len(seqs[n]) : FlattenSeq(seqs)[ends[n - 1] + k] = seqs[n][k]
  BY <1>11, <1>14, <1>15
<1>17. PiecesEnd(seqs, N, S, ends)
  BY <1>10, <1>15, <1>16 DEF PiecesEnd
<1> QED  BY <1>17

-----------------------------------------------------------------------------
(* Framing: the layout of a packet *)

Messages == [id : message_ids, fields : Seq(Fields)]
Tokens == [kind : {"count"}, n : Nat] \cup [kind : {"header"}, id : message_ids, size : Nat]
            \cup [kind : {"field"}, value : Fields]

\* Where the header of each message stands, and the end behind the last.
Layout(msgs, starts) ==
  /\ starts \in [1 .. Len(msgs) + 1 -> Nat] /\ starts[1] = 2
  /\ Framed(msgs) \in Seq(Tokens) /\ Len(Framed(msgs)) = starts[Len(msgs) + 1] - 1
  /\ Framed(msgs)[1] = CountToken(Len(msgs))
  /\ \A n \in 1 .. Len(msgs) :
       /\ starts[n] >= 2 /\ starts[n + 1] = starts[n] + 1 + Len(msgs[n].fields)
       /\ starts[n + 1] <= starts[Len(msgs) + 1]
       /\ Framed(msgs)[starts[n]] = HeaderToken(msgs[n].id, Len(msgs[n].fields))
       /\ \A k \in 1 .. Len(msgs[n].fields) : Framed(msgs)[starts[n] + k] = FieldToken(msgs[n].fields[k])

\* Some function tells the starts, for every packet.
LEMMA PacketsAreLaidOut ==
  ASSUME NEW msgs \in Seq(Messages), msgs # <<>>
  PROVE  \E starts : Layout(msgs, starts)
<1> DEFINE N == Len(msgs)
           tail(n) == [k \in DOMAIN msgs[n].fields |-> FieldToken(msgs[n].fields[k])]
           piece(n) == <<HeaderToken(msgs[n].id, Len(msgs[n].fields))>> \o tail(n)
           pieces == [n \in DOMAIN msgs |-> piece(n)]
           rest == FlattenSeq(pieces)
<1>1. N \in Nat \ {0} /\ DOMAIN msgs = 1 .. N /\ \A n \in 1 .. N : msgs[n] \in Messages
  BY EmptySeq
<1>2. ASSUME NEW n \in 1 .. N
      PROVE  /\ piece(n) \in Seq(Tokens)
             /\ Len(msgs[n].fields) \in Nat
             /\ Len(piece(n)) = 1 + Len(msgs[n].fields)
             /\ piece(n)[1] = HeaderToken(msgs[n].id, Len(msgs[n].fields))
             /\ \A k \in 1 .. Len(msgs[n].fields) : piece(n)[1 + k] = FieldToken(msgs[n].fields[k])
  <2> DEFINE fields == msgs[n].fields  header == HeaderToken(msgs[n].id, Len(fields))  size == Len(fields)
  <2>1. msgs[n].id \in message_ids /\ fields \in Seq(Fields)
    BY <1>1 DEF Messages
  <2> HIDE DEF fields
  <2>2. size \in Nat /\ DOMAIN fields = 1 .. size /\ \A k \in 1 .. size : fields[k] \in Fields
    BY <2>1
  <2>3. header \in Tokens
    BY <2>1, <2>2 DEF Tokens, HeaderToken
  <2>4. \A k \in 1 .. size : FieldToken(fields[k]) \in Tokens
    BY <2>2 DEF Tokens, FieldToken
  <2> DEFINE values == [k \in 1 .. size |-> FieldToken(fields[k])]
  <2>5. values \in Seq(Tokens) /\ Len(values) = size /\ \A k \in 1 .. size : values[k] = FieldToken(fields[k])
    BY <2>2, <2>4
  <2>6. piece(n) = <<header>> \o values
    BY <2>2 DEF fields
  <2> HIDE DEF header, values, size
  <2>7. <<header>> \in Seq(Tokens) /\ Len(<<header>>) = 1 /\ <<header>>[1] = header
    BY <2>3
  <2> HIDE DEF piece
  <2>8. /\ piece(n) \in Seq(Tokens) /\ Len(piece(n)) = 1 + size
        /\ \A k \in 1 .. 1 + size : piece(n)[k] = IF k <= 1 THEN header ELSE values[k - 1]
    <3>1. \A m, l : Len(<<header>>) = m /\ Len(values) = l =>
            /\ <<header>> \o values \in Seq(Tokens) /\ Len(<<header>> \o values) = m + l
            /\ \A k \in 1 .. m + l : (<<header>> \o values)[k] = IF k <= m THEN <<header>>[k] ELSE values[k - m]
      BY <2>5, <2>7, Joined
    <3>2. \A k \in 1 .. 1 + size : k <= 1 => k = 1
      BY <2>2
    <3> QED  BY <3>1, <3>2, <2>5, <2>6, <2>7
  <2>9. piece(n)[1] = header /\ \A k \in 1 .. size : piece(n)[1 + k] = values[k]
    BY <2>2, <2>8
  <2> QED  BY <2>2, <2>5, <2>8, <2>9 DEF header, size, fields
<1> HIDE DEF piece
<1>3. pieces \in [1 .. N -> Seq(Tokens)] /\ \A n \in 1 .. N : pieces[n] = piece(n)
  BY <1>1, <1>2
<1> HIDE DEF pieces
<1>4. PICK ends :
        /\ ends \in [0 .. N -> Nat]
        /\ ends[0] = 0 /\ rest \in Seq(Tokens) /\ Len(rest) = ends[N]
        /\ \A n \in 1 .. N : ends[n] = ends[n - 1] + Len(pieces[n]) /\ ends[n] <= ends[N]
        /\ \A n \in 1 .. N : \A k \in 1 .. Len(pieces[n]) : rest[ends[n - 1] + k] = pieces[n][k]
  <2> HIDE DEF N
  <2>1. \E ends : PiecesEnd(pieces, N, Tokens, ends)
    BY <1>1, <1>3, FlattenLayout
  <2> QED  BY <2>1 DEF PiecesEnd
<1>5. Framed(msgs) = <<CountToken(N)>> \o rest
  BY DEF Framed, pieces, piece
<1>6. CountToken(N) \in Tokens
  BY <1>1 DEF CountToken, Tokens
<1> HIDE DEF rest, N
<1>7. /\ Framed(msgs) \in Seq(Tokens) /\ Len(Framed(msgs)) = 1 + ends[N]
      /\ Framed(msgs)[1] = CountToken(N)
      /\ \A k \in 1 .. ends[N] : Framed(msgs)[1 + k] = rest[k]
  <2> DEFINE head == <<CountToken(N)>>
  <2>1. head \in Seq(Tokens) /\ Len(head) = 1 /\ head[1] = CountToken(N) /\ ends[N] \in Nat
    BY <1>1, <1>4, <1>6
  <2> HIDE DEF head
  <2>2. /\ head \o rest \in Seq(Tokens) /\ Len(head \o rest) = 1 + ends[N]
        /\ \A k \in 1 .. 1 + ends[N] : (head \o rest)[k] = IF k <= 1 THEN head[k] ELSE rest[k - 1]
    <3>1. rest \in Seq(Tokens) /\ Len(rest) = ends[N]
      BY <1>4
    <3>2. \A m, l : Len(head) = m /\ Len(rest) = l =>
            /\ head \o rest \in Seq(Tokens) /\ Len(head \o rest) = m + l
            /\ \A k \in 1 .. m + l : (head \o rest)[k] = IF k <= m THEN head[k] ELSE rest[k - m]
      BY <2>1, <3>1, Joined
    <3>3. Len(head) = 1 /\ Len(rest) = ends[N]
      BY <2>1, <3>1
    <3> QED  BY <3>2, <3>3, Zenon
  <2>3. Framed(msgs) = head \o rest
    BY <1>5 DEF head
  <2>4. 1 \in 1 .. 1 + ends[N] /\ \A k \in 1 .. ends[N] : 1 + k \in 1 .. 1 + ends[N] /\ ~(1 + k <= 1) /\ (1 + k) - 1 = k
    BY <2>1
  <2>5. (head \o rest)[1] = head[1] /\ \A k \in 1 .. ends[N] : (head \o rest)[1 + k] = rest[k]
    <3>1. \A k \in 1 .. 1 + ends[N] : (head \o rest)[k] = IF k <= 1 THEN head[k] ELSE rest[k - 1]
      BY <2>2
    <3>2. ASSUME NEW k \in 1 .. ends[N] PROVE (head \o rest)[1 + k] = rest[k]
      <4>1. 1 + k \in 1 .. 1 + ends[N] /\ ~(1 + k <= 1) /\ (1 + k) - 1 = k
        BY <2>4
      <4>2. (head \o rest)[1 + k] = rest[(1 + k) - 1]
        BY <3>1, <4>1, Zenon
      <4> QED  BY <4>1, <4>2
    <3>3. 1 <= 1
      OBVIOUS
    <3> QED  BY <3>1, <3>2, <3>3, <2>4, Zenon
  <2> QED  BY <2>1, <2>2, <2>3, <2>5
<1> DEFINE starts == [n \in 1 .. N + 1 |-> ends[n - 1] + 2]
<1>8. /\ starts \in [1 .. N + 1 -> Nat] /\ starts[1] = 2 /\ starts[N + 1] = ends[N] + 2
      /\ \A n \in 1 .. N : starts[n] = ends[n - 1] + 2 /\ starts[n + 1] = ends[n] + 2
  <2>1. \A n \in 1 .. N + 1 : n - 1 \in 0 .. N
    BY <1>1
  <2>2. \A n \in 1 .. N + 1 : ends[n - 1] \in Nat
    BY <2>1, <1>4
  <2>3. starts \in [1 .. N + 1 -> Nat]
    BY <2>2
  <2>4. 1 \in 1 .. N + 1 /\ N + 1 \in 1 .. N + 1 /\ (N + 1) - 1 = N
    BY <1>1
  <2>5. starts[1] = 2 /\ starts[N + 1] = ends[N] + 2
    BY <2>4, <1>4
  <2>6. \A n \in 1 .. N : n \in 1 .. N + 1 /\ n + 1 \in 1 .. N + 1 /\ (n + 1) - 1 = n
    BY <1>1
  <2>7. \A n \in 1 .. N : starts[n] = ends[n - 1] + 2 /\ starts[n + 1] = ends[n] + 2
    BY <2>6
  <2> QED  BY <2>3, <2>5, <2>7
<1> HIDE DEF starts
<1>9. ASSUME NEW n \in 1 .. N
      PROVE  /\ starts[n] >= 2 /\ starts[n + 1] = starts[n] + 1 + Len(msgs[n].fields)
             /\ starts[n + 1] <= starts[N + 1]
             /\ Framed(msgs)[starts[n]] = HeaderToken(msgs[n].id, Len(msgs[n].fields))
             /\ \A k \in 1 .. Len(msgs[n].fields) : Framed(msgs)[starts[n] + k] = FieldToken(msgs[n].fields[k])
  <2> DEFINE a == ends[n - 1]  size == Len(msgs[n].fields)  last == ends[N]
  <2>1. n - 1 \in 0 .. N /\ n \in 0 .. N /\ N \in 0 .. N
    BY <1>1
  <2>2. a \in Nat /\ size \in Nat /\ last \in Nat /\ starts[n] = a + 2
    BY <2>1, <1>4, <1>2, <1>8
  <2>3. ends[n] = a + 1 + size /\ ends[n] <= last /\ Len(pieces[n]) = 1 + size
    <3>1. Len(pieces[n]) = 1 + size
      BY <1>2, <1>3
    <3>2. ends[n] = a + Len(pieces[n]) /\ ends[n] <= last
      BY <1>4
    <3> HIDE DEF a, size, last
    <3> QED  BY <2>2, <3>1, <3>2
  <2>4. starts[n + 1] = a + 1 + size + 2 /\ starts[N + 1] = last + 2
    BY <2>2, <2>3, <1>8
  <2>5. \A k \in 1 .. 1 + size : rest[a + k] = piece(n)[k]
    BY <2>3, <1>3, <1>4
  <2> HIDE DEF a, size, last
  <2>6. \A k \in 1 .. 1 + size : a + k \in 1 .. last /\ 1 + (a + k) = a + 1 + k
    BY <2>2, <2>3
  <2>7. \A k \in 1 .. 1 + size : Framed(msgs)[a + 1 + k] = piece(n)[k]
    <3>1. \A k \in 1 .. last : Framed(msgs)[1 + k] = rest[k]
      BY <1>7 DEF last
    <3> QED  BY <3>1, <2>5, <2>6
  <2>8. 1 \in 1 .. 1 + size /\ a + 1 + 1 = a + 2
    BY <2>2
  <2>9. Framed(msgs)[a + 2] = piece(n)[1]
    BY <2>7, <2>8
  <2>10. \A k \in 1 .. size : 1 + k \in 1 .. 1 + size /\ a + 1 + (1 + k) = (a + 2) + k
    BY <2>2
  <2>11. \A k \in 1 .. size : Framed(msgs)[(a + 2) + k] = piece(n)[1 + k]
    BY <2>7, <2>10
  <2>12. piece(n)[1] = HeaderToken(msgs[n].id, size) /\ \A k \in 1 .. size : piece(n)[1 + k] = FieldToken(msgs[n].fields[k])
    BY <1>2 DEF size
  <2>13. starts[n] >= 2 /\ starts[n + 1] = starts[n] + 1 + size /\ starts[n + 1] <= starts[N + 1]
    BY <2>2, <2>3, <2>4
  <2> QED  BY <2>2, <2>9, <2>11, <2>12, <2>13 DEF size
<1>10. Len(Framed(msgs)) = starts[N + 1] - 1
  <2>1. N \in 0 .. N
    BY <1>1
  <2>2. ends[N] \in Nat
    BY <2>1, <1>4
  <2> QED  BY <2>2, <1>7, <1>8
<1>11. Layout(msgs, starts)
  BY <1>7, <1>8, <1>9, <1>10 DEF Layout, N
<1> QED  BY <1>11

-----------------------------------------------------------------------------
(* Framing: reading what is left of a packet *)

Arrivals == Tokens \cup {TornField}

\* Each token that arrived is the one that was sent, or the last and a part of it.
Arrived ==
  /\ packet \in Seq(Messages) /\ packet # <<>>
  /\ stream \in Seq(Arrivals) /\ Len(stream) <= Len(Framed(packet))
  /\ \A i \in 1 .. Len(stream) :
       stream[i] = Framed(packet)[i] \/ (i = Len(stream) /\ stream[i] \in PartsOf(Framed(packet)[i]))

\* Behind the end of the stream there is no message.
LEMMA EndIsNoticed ==
  ASSUME NEW i \in Nat, i > Len(stream), Len(stream) \in Nat
  PROVE  ReadAny(i).error # "none"
<1>1. HeaderAt(i) = HeaderToken(0, 0)
  BY DEF HeaderAt
<1>2. HeaderAt(i).kind = "header" /\ HeaderAt(i).id = 0
  BY <1>1 DEF HeaderToken
<1>3. 0 \notin message_ids
  BY FramingAssumption
<1>4. ReadAny(i) = [error |-> "out_of_range"]
  BY <1>2, <1>3 DEF ReadAny
<1> QED  BY <1>4

\* A message as it may be read: whole, or short of its last fields where the
\* stream ends.
ReadShort(m, sent, at) ==
  /\ m.id = sent.id /\ m.fields \in Seq(Fields) /\ Len(m.fields) <= Len(sent.fields)
  /\ \A k \in 1 .. Len(m.fields) : m.fields[k] = sent.fields[k]
  /\ m.next = at + 1 + Len(m.fields)
  /\ Len(m.fields) = Len(sent.fields) \/ m.next > Len(stream)

\* Where a message's header is expected, it is there, but perhaps without its
\* size, and then the stream ends with it.
LEMMA HeaderArrives ==
  ASSUME Arrived, NEW starts, Layout(packet, starts), NEW n \in 1 .. Len(packet),
         starts[n] <= Len(stream)
  PROVE  LET at == starts[n]  sent == packet[n]  size == HeaderAt(at).size
         IN  /\ at \in Nat /\ at >= 2 /\ Len(stream) \in Nat /\ Len(sent.fields) \in Nat
             /\ sent \in Messages /\ at + Len(sent.fields) <= Len(Framed(packet))
             /\ HeaderAt(at).kind = "header" /\ HeaderAt(at).id = sent.id
             /\ size = Len(sent.fields) \/ (size = 0 /\ at = Len(stream) /\ stream # Framed(packet))
<1> DEFINE at == starts[n]  sent == packet[n]  size == Len(sent.fields)  F == Framed(packet)  N == Len(packet)
<1>1. N \in Nat /\ sent \in Messages /\ Len(stream) \in Nat
  BY DEF Arrived
<1>2. size \in Nat
  BY <1>1 DEF Messages
<1>3. /\ at >= 2 /\ starts[n + 1] = at + 1 + size /\ starts[n + 1] <= starts[N + 1]
      /\ F[at] = HeaderToken(sent.id, size) /\ Len(F) = starts[N + 1] - 1
      /\ starts \in [1 .. N + 1 -> Nat]
  BY DEF Layout
<1>4. at \in Nat /\ starts[N + 1] \in Nat
  <2>1. n \in 1 .. N + 1 /\ N + 1 \in 1 .. N + 1
    BY <1>1
  <2> QED  BY <2>1, <1>3
<1> HIDE DEF at, size, F
<1>5. at + size <= Len(F) /\ at \in 1 .. Len(stream)
  <2>1. at <= Len(stream)
    BY DEF at
  <2>2. at + size <= Len(F)
    <3> DEFINE e == starts[n + 1]  last == starts[N + 1]
    <3>1. e = at + 1 + size /\ e <= last /\ Len(F) = last - 1 /\ last \in Nat
      BY <1>3, <1>4
    <3> HIDE DEF e, last
    <3> QED  BY <3>1, <1>2, <1>4
  <2> QED  BY <2>1, <2>2, <1>1, <1>3, <1>4
<1>6. HeaderAt(at) = stream[at]
  BY <1>1, <1>4, <1>5 DEF HeaderAt
<1>7. stream[at] = F[at] \/ (at = Len(stream) /\ stream[at] \in PartsOf(F[at]))
  BY <1>5 DEF Arrived, F
<1>8. PartsOf(F[at]) = {HeaderToken(sent.id, size), HeaderToken(sent.id, 0)}
  BY <1>3 DEF PartsOf, HeaderToken
<1>9. stream[at] = HeaderToken(sent.id, size) \/ (at = Len(stream) /\ stream[at] = HeaderToken(sent.id, 0))
  BY <1>3, <1>7, <1>8
<1>10. HeaderAt(at).kind = "header" /\ HeaderAt(at).id = sent.id
  BY <1>6, <1>9 DEF HeaderToken
<1>11. HeaderAt(at).size = size \/ (HeaderAt(at).size = 0 /\ at = Len(stream) /\ stream # F)
  <2>1. CASE stream[at] = F[at]
    BY <2>1, <1>3, <1>6 DEF HeaderToken
  <2>2. CASE stream[at] # F[at]
    BY <2>2, <1>3, <1>6, <1>9 DEF HeaderToken
  <2> QED  BY <2>1, <2>2
<1> QED  BY <1>1, <1>2, <1>3, <1>4, <1>5, <1>10, <1>11 DEF at, size, F

\* read_any of a message whose header arrived: an exception, or the message but
\* for the fields behind the end; without a cut the whole message.
LEMMA MessageRead ==
  ASSUME Arrived, NEW starts, Layout(packet, starts), NEW n \in 1 .. Len(packet),
         starts[n] <= Len(stream)
  PROVE  /\ ReadAny(starts[n]).error = "none" => ReadShort(ReadAny(starts[n]), packet[n], starts[n])
         /\ stream = Framed(packet) => /\ ReadAny(starts[n]).error = "none"
                                       /\ Len(ReadAny(starts[n]).fields) = Len(packet[n].fields)
<1> DEFINE at == starts[n]  sent == packet[n]  size == Len(sent.fields)  F == Framed(packet)  L == Len(stream)
           z == HeaderAt(at).size  limit == LimitOf(at)  read == SubSeq(stream, at + 1, limit)
           r == limit - at
           fields == [k \in DOMAIN read |-> read[k].value]
<1>1. /\ at \in Nat /\ at >= 2 /\ L \in Nat /\ size \in Nat /\ sent \in Messages /\ at + size <= Len(F)
      /\ HeaderAt(at).kind = "header" /\ HeaderAt(at).id = sent.id
      /\ z = size \/ (z = 0 /\ at = L /\ stream # F)
  BY HeaderArrives
<1>2. at <= L /\ stream \in Seq(Arrivals) /\ L <= Len(F)
  BY DEF Arrived
<1>3. sent.id \in message_ids /\ sent.fields \in Seq(Fields)
  BY <1>1 DEF Messages
<1>4. limit = IF at + z <= L THEN at + z ELSE L
  BY DEF LimitOf, LowerOf
<1> HIDE DEF at, size, F, L, z, limit
<1>5. /\ limit \in Nat /\ at <= limit /\ limit <= L /\ limit <= at + size
      /\ limit = at + size \/ limit = L
      /\ stream = F => limit = at + size
  <2>1. stream = F => L = Len(F)
    BY DEF L
  <2>2. CASE z = size
    BY <2>1, <2>2, <1>1, <1>2, <1>4
  <2>3. CASE z = 0 /\ at = L /\ stream # F
    BY <2>3, <1>1, <1>2, <1>4
  <2> QED  BY <2>2, <2>3, <1>1
<1>6. /\ r \in Nat /\ r <= size /\ at + r = limit
      /\ r = size \/ at + r = L
      /\ stream = F => r = size
  BY <1>1, <1>5
<1>7. /\ Len(read) = r /\ DOMAIN read = 1 .. r
      /\ \A k \in 1 .. r : read[k] = stream[at + k]
  <2>1. limit \in 0 .. L /\ at + 1 \in 1 .. limit + 1 /\ limit - (at + 1) + 1 = r
    <3>1. r = limit - at
      OBVIOUS
    <3>2. at \in Nat /\ limit \in Nat /\ L \in Nat /\ at <= limit /\ limit <= L
      BY <1>1, <1>5
    <3> HIDE DEF read, r
    <3> QED  BY <3>1, <3>2
  <2>2. /\ Len(read) = limit - (at + 1) + 1
        /\ \A k \in 1 .. limit - (at + 1) + 1 : read[k] = stream[(at + 1) + k - 1]
        /\ read \in Seq(Arrivals)
    <3>1. at + 1 \in 1 .. Len(stream) + 1 /\ limit \in at .. Len(stream)
      BY <1>1, <1>5 DEF L
    <3> HIDE DEF read, r
    <3>2. ASSUME NEW a \in 1 .. Len(stream) + 1, NEW b \in a - 1 .. Len(stream)
          PROVE  /\ SubSeq(stream, a, b) \in Seq(Arrivals) /\ Len(SubSeq(stream, a, b)) = b - a + 1
                 /\ \A k \in 1 .. b - a + 1 : SubSeq(stream, a, b)[k] = stream[a + k - 1]
      BY <1>2, SubSeqProperties
    <3> QED  BY <3>1, <3>2, <1>1 DEF read
  <2>3. \A k \in 1 .. r : (at + 1) + k - 1 = at + k
    BY <1>1, <1>6
  <2> HIDE DEF read, r
  <2>4. Len(read) = r /\ DOMAIN read = 1 .. r
    BY <2>1, <2>2
  <2>5. ASSUME NEW k \in 1 .. r PROVE read[k] = stream[at + k]
    <3>1. read[k] = stream[(at + 1) + k - 1]
      BY <2>1, <2>2
    <3> QED  BY <3>1, <2>3
  <2> QED  BY <2>4, <2>5
<1> HIDE DEF read, r
<1>8. ASSUME NEW k \in 1 .. r
      PROVE  /\ k \in 1 .. size
             /\ read[k] = FieldToken(sent.fields[k]) \/ (read[k].kind # "field" /\ stream # F)
  <2>1. k \in 1 .. size /\ at + k \in 1 .. L
    BY <1>1, <1>5, <1>6
  <2>2. F[at + k] = FieldToken(sent.fields[k])
    BY <2>1 DEF Layout, F, at, size
  <2>3. stream[at + k] = F[at + k] \/ stream[at + k] \in PartsOf(F[at + k])
    BY <2>1 DEF Arrived, F, L
  <2>4. PartsOf(F[at + k]) = {TornField}
    BY <2>2 DEF PartsOf, FieldToken
  <2>5. CASE stream[at + k] = F[at + k]
    BY <2>1, <2>2, <2>5, <1>7
  <2>6. CASE stream[at + k] # F[at + k]
    <3>1. read[k] = TornField /\ stream # F
      BY <2>3, <2>4, <2>6, <1>7
    <3> QED  BY <2>1, <3>1 DEF TornField
  <2> QED  BY <2>5, <2>6
<1> DEFINE torn == \E k \in DOMAIN read : read[k].kind # "field"
           m == ReadAny(at)
<1>9. m = IF torn THEN [error |-> "transfer_error"]
          ELSE [error |-> "none", id |-> HeaderAt(at).id, fields |-> fields, next |-> at + 1 + Len(read)]
  BY <1>1, <1>3 DEF ReadAny, read, limit
<1>10. stream = F => ~torn
  BY <1>7, <1>8 DEF FieldToken
<1>11. ASSUME ~torn
       PROVE  ReadShort(m, sent, at) /\ m.error = "none" /\ Len(m.fields) = r
  <2>1. m.error = "none" /\ m.id = sent.id /\ m.fields = fields /\ m.next = at + 1 + r
    BY <1>1, <1>7, <1>9, <1>11
  <2>2. \A k \in 1 .. r : k \in 1 .. size /\ read[k] = FieldToken(sent.fields[k])
    BY <1>7, <1>8, <1>11
  <2>3. \A k \in 1 .. r : read[k].value = sent.fields[k] /\ sent.fields[k] \in Fields
    <3>1. \A k \in 1 .. size : sent.fields[k] \in Fields
      BY <1>3 DEF size
    <3>2. \A k \in 1 .. r : FieldToken(sent.fields[k]).value = sent.fields[k]
      BY DEF FieldToken
    <3> QED  BY <2>2, <3>1, <3>2, Zenon
  <2>4. fields = [k \in 1 .. r |-> sent.fields[k]]
    BY <2>3, <1>7
  <2> HIDE DEF fields
  <2>5. fields \in Seq(Fields) /\ Len(fields) = r /\ \A k \in 1 .. r : fields[k] = sent.fields[k]
    BY <2>3, <2>4, <1>6
  <2>6. r = size \/ at + 1 + r > L
    BY <1>1, <1>6
  <2> HIDE DEF m, torn
  <2> QED  BY <2>1, <2>5, <2>6, <1>6 DEF ReadShort, size, L
<1>12. m.error = "none" => ~torn
  BY <1>9
<1>13. (m.error = "none" => ReadShort(m, sent, at)) /\ (stream = F => m.error = "none" /\ Len(m.fields) = size)
  <2> HIDE DEF m, torn
  <2> QED  BY <1>6, <1>10, <1>11, <1>12
<1> QED  BY <1>13 DEF at, F, size

-----------------------------------------------------------------------------
(* Framing: message after message *)

\* One turn of read's loop, and what its turns leave behind.
NextMessage(before) ==
  LET m == ReadAny(before.next)
  IN  IF before.error # "none" THEN before
      ELSE IF m.error # "none" THEN [error |-> m.error, msgs |-> <<>>, next |-> 0]
      ELSE [error |-> "none", next |-> m.next,
            msgs |-> Append(before.msgs, [id |-> m.id, fields |-> m.fields])]
LoopOf(c, f) ==
  f = [n \in 0 .. c |-> IF n = 0 THEN [error |-> "none", msgs |-> <<>>, next |-> 2]
                        ELSE NextMessage(f[n - 1])]

\* Such a function exists: one more turn goes behind those there are.
LEMMA LoopExists ==
  ASSUME NEW c \in Nat
  PROVE  \E f : LoopOf(c, f)
<1> DEFINE T == {m \in Nat : \E f : LoopOf(m, f)}
           first == [error |-> "none", msgs |-> <<>>, next |-> 2]
<1>1. 0 \in T
  <2> DEFINE f == [n \in 0 .. 0 |-> first]
  <2>1. f = [n \in 0 .. 0 |-> IF n = 0 THEN first ELSE NextMessage(f[n - 1])]
    <3>1. \A n \in 0 .. 0 : n = 0
      OBVIOUS
    <3> QED  BY <3>1
  <2>2. LoopOf(0, f)
    BY <2>1 DEF LoopOf
  <2> QED  BY <2>2
<1>2. ASSUME NEW m \in 0 .. c, m \in T, m < c PROVE m + 1 \in T
  <2>1. PICK f : LoopOf(m, f)
    BY <1>2
  <2> DEFINE g == [n \in 0 .. m + 1 |-> IF n \in 0 .. m THEN f[n] ELSE NextMessage(f[m])]
  <2>2. ASSUME NEW n \in 0 .. m + 1 PROVE g[n] = IF n = 0 THEN first ELSE NextMessage(g[n - 1])
    <3>1. \A k \in 0 .. m : f[k] = IF k = 0 THEN first ELSE NextMessage(f[k - 1])
      BY <2>1, Zenon DEF LoopOf
    <3>2. \A k \in 0 .. m : g[k] = f[k]
      BY <2>1
    <3>3. g[m + 1] = NextMessage(f[m])
      BY <2>1
    <3> HIDE DEF g, first
    <3>4. CASE n = m + 1
      <4>1. n - 1 = m /\ n # 0 /\ m \in 0 .. m
        BY <3>4
      <4> QED  BY <4>1, <3>2, <3>3, <3>4
    <3>5. CASE n \in 0 .. m
      <4>1. n # 0 => n - 1 \in 0 .. m
        BY <3>5
      <4>2. n # 0 => g[n - 1] = f[n - 1]
        BY <4>1, <3>2
      <4> QED  BY <3>1, <3>2, <3>5, <4>2
    <3> QED  BY <3>4, <3>5
  <2>3. LoopOf(m + 1, g)
    <3>1. g = [n \in 0 .. m + 1 |-> g[n]]
      OBVIOUS
    <3> HIDE DEF g
    <3>2. [n \in 0 .. m + 1 |-> g[n]] = [n \in 0 .. m + 1 |-> IF n = 0 THEN first ELSE NextMessage(g[n - 1])]
      BY <2>2
    <3> QED  BY <3>1, <3>2 DEF LoopOf
  <2> QED  BY <2>3
<1>3. \A m \in 0 .. c : m \in T
  <2> HIDE DEF T
  <2> QED  BY <1>1, <1>2, UpToLast
<1> QED  BY <1>3

\* read's loop is one.
LEMMA LoopTurns ==
  ASSUME MessagesCount \in Nat
  PROVE  /\ ReadUpTo[0] = [error |-> "none", msgs |-> <<>>, next |-> 2]
         /\ \A n \in 1 .. MessagesCount : ReadUpTo[n] = NextMessage(ReadUpTo[n - 1])
<1> DEFINE c == MessagesCount
           first == [error |-> "none", msgs |-> <<>>, next |-> 2]
<1>1. ReadUpTo = CHOOSE f : LoopOf(c, f)
  BY DEF ReadUpTo, LoopOf, NextMessage
<1> HIDE DEF c
<1>2. LoopOf(c, ReadUpTo)
  BY <1>1, LoopExists DEF c
<1>3. \A n \in 0 .. c : ReadUpTo[n] = IF n = 0 THEN first ELSE NextMessage(ReadUpTo[n - 1])
  <2> HIDE DEF ReadUpTo
  <2> QED  BY <1>2, Zenon DEF LoopOf
<1>4. 0 \in 0 .. c /\ \A n \in 1 .. c : n \in 0 .. c /\ n # 0
  BY DEF c
<1> HIDE DEF first
<1>5. ReadUpTo[0] = first /\ \A n \in 1 .. c : ReadUpTo[n] = NextMessage(ReadUpTo[n - 1])
  BY <1>3, <1>4, Zenon
<1> QED  BY <1>5 DEF c, first

\* What the loop holds after n messages without an exception.
Whole(msgs, n) == \A i \in 1 .. n : msgs[i] = packet[i]
SoFar(starts, n, r) ==
  /\ r.msgs \in Seq(Messages) /\ Len(r.msgs) = n /\ r.next \in Nat
  /\ Whole(r.msgs, n - 1)
  /\ n > 0 => r.msgs[n].id = packet[n].id /\ IsPrefix(r.msgs[n].fields, packet[n].fields)
  /\ (r.next = starts[n + 1] /\ Whole(r.msgs, n)) \/ r.next > Len(stream)
ReadSoFar(starts, n) ==
  LET r == ReadUpTo[n]
  IN  /\ r.error = "none" => SoFar(starts, n, r)
      /\ stream = Framed(packet) => r.error = "none" /\ r.next = starts[n + 1] /\ Whole(r.msgs, n)

\* One more turn, from where the last message ended or behind the end of the
\* stream, keeps what the loop holds, or throws.
LEMMA NextMessageRead ==
  ASSUME Arrived, NEW starts, Layout(packet, starts), NEW n \in 0 .. Len(packet) - 1, NEW r,
         r.error = "none", SoFar(starts, n, r),
         stream = Framed(packet) => r.next = starts[n + 1] /\ Whole(r.msgs, n)
  PROVE  LET s == NextMessage(r)
         IN  /\ s.error = "none" => SoFar(starts, n + 1, s)
             /\ stream = Framed(packet) => s.error = "none" /\ s.next = starts[n + 2] /\ Whole(s.msgs, n + 1)
<1> DEFINE m == ReadAny(r.next)  s == NextMessage(r)  at == starts[n + 1]  sent == packet[n + 1]
           msg == [id |-> m.id, fields |-> m.fields]  L == Len(stream)  N == Len(packet)
<1>1. /\ N \in Nat /\ L \in Nat /\ n \in Nat /\ n + 1 \in 1 .. N /\ sent \in Messages
      /\ n + 1 \in 1 .. N + 1 /\ n + 2 \in 1 .. N + 1 /\ N + 1 \in 1 .. N + 1 /\ (n + 1) + 1 = n + 2
  <2>1. N \in Nat /\ L \in Nat /\ packet \in Seq(Messages)
    BY DEF Arrived
  <2>2. n \in Nat /\ n + 1 \in 1 .. N
    BY <2>1
  <2> QED  BY <2>1, <2>2
<1>2. sent = [id |-> sent.id, fields |-> sent.fields] /\ sent.id \in message_ids /\ sent.fields \in Seq(Fields)
      /\ Len(sent.fields) \in Nat /\ DOMAIN sent.fields = 1 .. Len(sent.fields)
  BY <1>1 DEF Messages
<1>3. /\ at \in Nat /\ starts[n + 2] = at + 1 + Len(sent.fields)
      /\ at <= Len(Framed(packet)) /\ Len(Framed(packet)) \in Nat
  <2>1. at \in Nat /\ starts[N + 1] \in Nat
    BY <1>1 DEF Layout
  <2>2. starts[n + 2] = at + 1 + Len(sent.fields) /\ starts[n + 2] <= starts[N + 1] /\ Len(Framed(packet)) = starts[N + 1] - 1
    BY <1>1 DEF Layout
  <2>3. Len(Framed(packet)) \in Nat
    <3>1. Framed(packet) \in Seq(Tokens)
      BY DEF Layout
    <3> QED  BY <3>1
  <2> HIDE DEF at, sent, N
  <2> QED  BY <2>1, <2>2, <2>3, <1>2
<1>4. /\ r.next \in Nat /\ r.msgs \in Seq(Messages) /\ Len(r.msgs) = n
      /\ (r.next = at /\ Whole(r.msgs, n)) \/ r.next > L
  BY DEF SoFar
<1>5. s = IF m.error # "none" THEN [error |-> m.error, msgs |-> <<>>, next |-> 0]
          ELSE [error |-> "none", next |-> m.next, msgs |-> Append(r.msgs, msg)]
  BY DEF NextMessage
<1> HIDE DEF m, s, at, sent, L, msg, N
<1>6. stream = Framed(packet) => r.next = at /\ r.next <= L /\ Whole(r.msgs, n)
  BY <1>3 DEF at, L
<1>7. CASE r.next > L
  <2>1. m.error # "none"
    <3>1. r.next \in Nat /\ r.next > Len(stream) /\ Len(stream) \in Nat
      BY <1>1, <1>4, <1>7 DEF L
    <3>2. ReadAny(r.next).error # "none"
      BY <3>1, EndIsNoticed
    <3> QED  BY <3>2 DEF m
  <2>2. s.error = m.error /\ stream # Framed(packet)
    <3>1. stream # Framed(packet)
      BY <1>1, <1>4, <1>6, <1>7
    <3> QED  BY <3>1, <2>1, <1>5
  <2> QED  BY <2>1, <2>2 DEF s
<1>8. CASE ~(r.next > L)
  <2>1. r.next = at /\ Whole(r.msgs, n) /\ at <= L
    BY <1>1, <1>3, <1>4, <1>8
  <2>2. /\ m.error = "none" => ReadShort(m, sent, at)
        /\ stream = Framed(packet) => m.error = "none" /\ Len(m.fields) = Len(sent.fields)
    BY <2>1, <1>1, MessageRead DEF m, at, sent, L, N
  <2>3. CASE m.error # "none"
    <3>1. s.error = m.error
      BY <2>3, <1>5
    <3> QED  BY <2>2, <2>3, <3>1 DEF s
  <2>4. CASE m.error = "none"
    <3>1. /\ m.id = sent.id /\ m.fields \in Seq(Fields) /\ Len(m.fields) <= Len(sent.fields)
          /\ \A k \in 1 .. Len(m.fields) : m.fields[k] = sent.fields[k]
          /\ m.next = at + 1 + Len(m.fields)
          /\ Len(m.fields) = Len(sent.fields) \/ m.next > L
      BY <2>2, <2>4 DEF ReadShort, L
    <3>2. Len(m.fields) \in Nat /\ DOMAIN m.fields = 1 .. Len(m.fields)
      BY <3>1
    <3>3. msg \in Messages /\ msg.id = sent.id /\ msg.fields = m.fields
      BY <1>2, <3>1 DEF Messages, msg
    <3>4. s.error = "none" /\ s.next = m.next /\ s.msgs = Append(r.msgs, msg)
      BY <2>4, <1>5
    <3>5. /\ s.msgs \in Seq(Messages) /\ Len(s.msgs) = n + 1
          /\ \A i \in 1 .. n : s.msgs[i] = r.msgs[i]
          /\ s.msgs[n + 1] = msg
      <4> DEFINE q == r.msgs
      <4>1. q \in Seq(Messages) /\ Len(q) = n /\ msg \in Messages
        BY <1>4, <3>3
      <4> HIDE DEF q
      <4>2. /\ Append(q, msg) \in Seq(Messages) /\ Len(Append(q, msg)) = Len(q) + 1
            /\ \A i \in 1 .. Len(q) : Append(q, msg)[i] = q[i]
            /\ Append(q, msg)[Len(q) + 1] = msg
        BY <4>1, AppendProperties
      <4> QED  BY <3>4, <4>1, <4>2 DEF q
    <3>6. \A i \in 1 .. n : s.msgs[i] = packet[i]
      BY <2>1, <3>5 DEF Whole
    <3>7. Len(m.fields) = Len(sent.fields) => msg = sent
      <4>1. SUFFICES ASSUME Len(m.fields) = Len(sent.fields) PROVE m.fields = sent.fields
        BY <1>2, <3>1 DEF msg
      <4>2. m.fields \in Seq(Fields) /\ sent.fields \in Seq(Fields)
        BY <1>2, <3>1
      <4> QED  BY <3>1, <4>1, <4>2, SeqEqual
    <3>8. IsPrefix(msg.fields, sent.fields)
      <4> DEFINE p == m.fields  q == sent.fields  l == Len(p)
      <4>1. /\ p \in Seq(Fields) /\ q \in Seq(Fields) /\ l \in Nat /\ l <= Len(q)
            /\ \A k \in 1 .. l : p[k] = q[k]
        BY <1>2, <3>1, <3>2
      <4> HIDE DEF p, q
      <4>2. l \in 0 .. Len(p) /\ l \in 0 .. Len(q)
        BY <4>1
      <4> HIDE DEF l
      <4>3. /\ SubSeq(p, 1, l) \in Seq(Fields) /\ Len(SubSeq(p, 1, l)) = l
            /\ \A k \in 1 .. l : SubSeq(p, 1, l)[k] = p[k]
        BY <4>1, <4>2, FirstElements
      <4>4. /\ SubSeq(q, 1, l) \in Seq(Fields) /\ Len(SubSeq(q, 1, l)) = l
            /\ \A k \in 1 .. l : SubSeq(q, 1, l)[k] = q[k]
        BY <4>1, <4>2, FirstElements
      <4>5. SubSeq(p, 1, l) = SubSeq(q, 1, l)
        BY <4>1, <4>3, <4>4, SeqEqual
      <4>6. IsPrefix(p, q)
        BY <4>1, <4>5 DEF IsPrefix, l
      <4> QED  BY <4>6, <3>3 DEF p, q
    <3>9. Len(m.fields) = Len(sent.fields) => s.next = starts[n + 2] /\ Whole(s.msgs, n + 1)
      <4>1. SUFFICES ASSUME Len(m.fields) = Len(sent.fields)
                     PROVE  s.next = starts[n + 2] /\ \A i \in 1 .. n + 1 : s.msgs[i] = packet[i]
        BY DEF Whole
      <4>2. s.msgs[n + 1] = packet[n + 1]
        BY <4>1, <3>5, <3>7 DEF sent
      <4>3. \A i \in 1 .. n + 1 : i \in 1 .. n \/ i = n + 1
        BY <1>1
      <4> QED  BY <4>1, <4>2, <4>3, <1>3, <3>1, <3>4, <3>6
    <3>10. SoFar(starts, n + 1, s)
      <4>1. s.next \in Nat
        <5>1. at + 1 + Len(m.fields) \in Nat
          <6>1. at \in Nat /\ Len(m.fields) \in Nat
            BY <3>2, <1>3
          <6>2. \A a, b \in Nat : a + 1 + b \in Nat
            OBVIOUS
          <6> QED  BY <6>1, <6>2
        <5> QED  BY <5>1, <3>1, <3>4
      <4>2. Whole(s.msgs, (n + 1) - 1)
        <5>1. (n + 1) - 1 = n
          BY <1>1
        <5> QED  BY <5>1, <3>6 DEF Whole
      <4>3. s.msgs[n + 1].id = sent.id /\ IsPrefix(s.msgs[n + 1].fields, sent.fields)
        BY <3>3, <3>5, <3>8
      <4>4. (s.next = starts[(n + 1) + 1] /\ Whole(s.msgs, n + 1)) \/ s.next > L
        BY <3>1, <3>4, <3>9, <1>1
      <4> QED  BY <3>5, <4>1, <4>2, <4>3, <4>4 DEF SoFar, sent, L
    <3> QED  BY <2>2, <3>4, <3>9, <3>10 DEF s
  <2> QED  BY <2>3, <2>4
<1> QED  BY <1>7, <1>8

\* What a cut leaves of a packet's count is read as some count.
CountArrives(N) ==
  \/ stream = <<>> /\ MessagesCount = 0
  \/ stream # <<>> /\ MessagesCount = N
  \/ Len(stream) = 1 /\ MessagesCount \in Nat

LEMMA CountIsRead ==
  ASSUME Arrived, NEW starts, Layout(packet, starts)
  PROVE  /\ CountArrives(Len(packet))
         /\ MessagesCount \in Nat
         /\ stream = Framed(packet) => MessagesCount = Len(packet) /\ Len(stream) > 1
<1> DEFINE N == Len(packet)  F == Framed(packet)
<1>1. N \in Nat /\ N # 0 /\ stream \in Seq(Arrivals) /\ Len(stream) \in Nat
  BY EmptySeq DEF Arrived
<1>2. F[1] = CountToken(N) /\ Len(F) > 1
  <2>1. F[1] = CountToken(N) /\ starts[1] >= 2 /\ starts[2] = starts[1] + 1 + Len(packet[1].fields)
        /\ starts[1] = 2 /\ starts[2] <= starts[N + 1] /\ Len(F) = starts[N + 1] - 1
    BY <1>1 DEF Layout
  <2>2. 1 \in 1 .. N /\ N + 1 \in 1 .. N + 1 /\ packet \in Seq(Messages)
    BY <1>1 DEF Arrived
  <2>3. starts[N + 1] \in Nat
    BY <2>2 DEF Layout
  <2>4. Len(packet[1].fields) \in Nat
    <3>1. packet[1] \in Messages
      BY <2>2
    <3> QED  BY <3>1 DEF Messages
  <2> HIDE DEF F, N
  <2> QED  BY <2>1, <2>3, <2>4
<1>3. CASE stream = <<>>
  <2>1. MessagesCount = 0 /\ Len(stream) = 0
    BY <1>3 DEF MessagesCount
  <2>2. stream # F
    BY <2>1, <1>2
  <2> QED  BY <1>3, <2>1, <2>2 DEF CountArrives
<1>4. CASE stream # <<>>
  <2>1. 1 \in 1 .. Len(stream) /\ MessagesCount = stream[1].n
    BY <1>1, <1>4 DEF MessagesCount
  <2>2. stream[1] = F[1] \/ (Len(stream) = 1 /\ stream[1] \in PartsOf(F[1]))
    BY <2>1 DEF Arrived
  <2> HIDE DEF N, F
  <2>3. PartsOf(F[1]) = {CountToken(N % bytes) : bytes \in {256, 65536, 16777216}}
    BY <1>2 DEF PartsOf, CountToken
  <2>4. CASE stream[1] = F[1]
    <3>1. MessagesCount = N
      BY <2>1, <2>4, <1>2 DEF CountToken
    <3> QED  BY <3>1, <1>1, <1>2, <1>4 DEF CountArrives, N, F
  <2>5. CASE stream[1] # F[1]
    <3>1. PICK bytes \in {256, 65536, 16777216} : stream[1] = CountToken(N % bytes)
      BY <2>2, <2>3, <2>5
    <3>2. N % bytes \in Nat
      BY <1>1
    <3>3. MessagesCount \in Nat
      BY <2>1, <3>1, <3>2 DEF CountToken
    <3> QED  BY <2>2, <2>5, <3>3 DEF CountArrives, N, F
  <2> QED  BY <2>4, <2>5
<1> QED  BY <1>3, <1>4

\* Every turn of the loop over a packet whose count arrived.
LEMMA LoopReads ==
  ASSUME Arrived, NEW starts, Layout(packet, starts), MessagesCount = Len(packet)
  PROVE  \A n \in 0 .. Len(packet) : ReadSoFar(starts, n)
<1> DEFINE N == Len(packet)
           T == {n \in Nat : ReadSoFar(starts, n)}
<1>1. N \in Nat /\ MessagesCount = N
  BY DEF Arrived
<1>2. /\ ReadUpTo[0] = [error |-> "none", msgs |-> <<>>, next |-> 2]
      /\ \A n \in 1 .. N : ReadUpTo[n] = NextMessage(ReadUpTo[n - 1])
  BY <1>1, LoopTurns
<1> HIDE DEF N
<1>3. 0 \in T
  <2> DEFINE r == ReadUpTo[0]
  <2>1. r.error = "none" /\ r.msgs = <<>> /\ r.next = 2
    BY <1>2
  <2> HIDE DEF r
  <2>2. starts[0 + 1] = 2
    BY DEF Layout
  <2>3. r.msgs \in Seq(Messages) /\ Len(r.msgs) = 0
    BY <2>1
  <2>4. Whole(r.msgs, 0) /\ Whole(r.msgs, 0 - 1)
    BY DEF Whole
  <2>5. SoFar(starts, 0, r)
    BY <2>1, <2>2, <2>3, <2>4 DEF SoFar
  <2> QED  BY <2>1, <2>2, <2>4, <2>5 DEF ReadSoFar, r
<1>4. ASSUME NEW n \in 0 .. N, n \in T, n < N PROVE n + 1 \in T
  <2> DEFINE r == ReadUpTo[n]
  <2>1. n + 1 \in 1 .. N /\ (n + 1) - 1 = n /\ n \in 0 .. Len(packet) - 1 /\ n + 1 \in Nat /\ (n + 1) + 1 = n + 2
    BY <1>1, <1>4 DEF N
  <2>2. ReadUpTo[n + 1] = NextMessage(r)
    BY <1>2, <2>1
  <2>3. /\ r.error = "none" => SoFar(starts, n, r)
        /\ stream = Framed(packet) => r.error = "none" /\ r.next = starts[n + 1] /\ Whole(r.msgs, n)
    BY <1>4 DEF ReadSoFar
  <2> HIDE DEF r
  <2>4. CASE r.error = "none"
    <3>1. /\ NextMessage(r).error = "none" => SoFar(starts, n + 1, NextMessage(r))
          /\ stream = Framed(packet) => /\ NextMessage(r).error = "none" /\ NextMessage(r).next = starts[n + 2]
                                        /\ Whole(NextMessage(r).msgs, n + 1)
      BY <2>1, <2>3, <2>4, NextMessageRead
    <3> QED  BY <2>1, <2>2, <3>1 DEF ReadSoFar
  <2>5. CASE r.error # "none"
    <3>1. NextMessage(r) = r
      BY <2>5 DEF NextMessage
    <3> QED  BY <2>1, <2>2, <2>3, <2>5, <3>1 DEF ReadSoFar
  <2> QED  BY <2>4, <2>5
<1>5. \A n \in 0 .. N : n \in T
  <2> HIDE DEF T
  <2> QED  BY <1>1, <1>3, <1>4, UpToLast
<1> QED  BY <1>5 DEF N

\* With nothing behind the count, the loop ends at its first message.
LEMMA LoopStops ==
  ASSUME Arrived, Len(stream) = 1, MessagesCount \in Nat
  PROVE  ReadUpTo[MessagesCount].error # "none" \/ ReadUpTo[MessagesCount].msgs = <<>>
<1> DEFINE c == MessagesCount
           T == {n \in Nat : n > 0 => ReadUpTo[n].error # "none"}
<1>1. /\ ReadUpTo[0] = [error |-> "none", msgs |-> <<>>, next |-> 2]
      /\ \A n \in 1 .. c : ReadUpTo[n] = NextMessage(ReadUpTo[n - 1])
  BY LoopTurns
<1> HIDE DEF c
<1>2. 0 \in T
  OBVIOUS
<1>3. ASSUME NEW n \in 0 .. c, n \in T, n < c PROVE n + 1 \in T
  <2> DEFINE r == ReadUpTo[n]
  <2>1. n + 1 \in 1 .. c /\ (n + 1) - 1 = n /\ n + 1 \in Nat
    BY <1>3 DEF c
  <2>2. ReadUpTo[n + 1] = NextMessage(r)
    BY <1>1, <2>1
  <2>3. CASE n = 0
    <3>1. r.error = "none" /\ r.next = 2
      BY <1>1, <2>3
    <3>2. ReadAny(2).error # "none"
      BY EndIsNoticed
    <3>3. NextMessage(r).error = ReadAny(2).error
      BY <3>1, <3>2 DEF NextMessage
    <3> QED  BY <2>1, <2>2, <3>2, <3>3
  <2>4. CASE n # 0
    <3>1. r.error # "none"
      BY <1>3, <2>4
    <3>2. NextMessage(r) = r
      BY <3>1 DEF NextMessage
    <3> QED  BY <2>1, <2>2, <3>1, <3>2
  <2> QED  BY <2>3, <2>4
<1>4. \A n \in 0 .. c : n \in T
  <2>1. c \in Nat
    BY DEF c
  <2> HIDE DEF T
  <2> QED  BY <2>1, <1>2, <1>3, UpToLast
<1>5. c \in T /\ c \in Nat
  BY <1>4 DEF c
<1>6. CASE c = 0
  BY <1>1, <1>6 DEF c
<1>7. CASE c # 0
  BY <1>5, <1>7 DEF c
<1> QED  BY <1>6, <1>7

-----------------------------------------------------------------------------
(* Framing: the invariant *)

FramingInv ==
  /\ packet = <<>> => stream = <<>> /\ received = Nothing
  /\ packet # <<>> => Arrived
  /\ CutIsNoticed

\* A part of a token is something that may arrive.
LEMMA PartsArrive ==
  ASSUME NEW token \in Tokens
  PROVE  PartsOf(token) \subseteq Arrivals
<1>1. CASE token \in [kind : {"count"}, n : Nat]
  <2>1. token.kind = "count" /\ token.n \in Nat
    BY <1>1
  <2>2. PartsOf(token) = {CountToken(token.n % bytes) : bytes \in {256, 65536, 16777216}}
    BY <2>1 DEF PartsOf
  <2>3. \A bytes \in {256, 65536, 16777216} : token.n % bytes \in Nat
    BY <2>1
  <2>4. \A k \in Nat : CountToken(k) \in Arrivals
    BY DEF CountToken, Arrivals, Tokens
  <2> QED  BY <2>2, <2>3, <2>4
<1>2. CASE token \in [kind : {"header"}, id : message_ids, size : Nat]
  <2>1. token.kind = "header" /\ token.id \in message_ids
    BY <1>2
  <2>2. PartsOf(token) = {token, HeaderToken(token.id, 0)}
    BY <2>1 DEF PartsOf
  <2>3. HeaderToken(token.id, 0) \in Arrivals
    BY <2>1 DEF HeaderToken, Arrivals, Tokens
  <2> QED  BY <2>2, <2>3 DEF Arrivals
<1>3. CASE token \in [kind : {"field"}, value : Fields]
  <2>1. token.kind = "field"
    BY <1>3
  <2> QED  BY <2>1 DEF PartsOf, Arrivals
<1> QED  BY <1>1, <1>2, <1>3 DEF Tokens

\* What is written arrives whole until it is cut.
LEMMA WriteKeepsFraming ==
  ASSUME FramingInv, NEW N \in 1 .. MaxMessages,
         NEW msgs \in [1 .. N -> [id : message_ids, fields : BoundedSeq(Fields, MaxFields)]], Write(msgs)
  PROVE  FramingInv'
<1>1. packet' = msgs /\ stream' = Framed(msgs) /\ received' = received /\ received = Nothing
  BY DEF Write, FramingInv
<1>2. msgs \in Seq(Messages) /\ msgs # <<>>
  <2>1. N \in Nat /\ N >= 1
    BY FramingAssumption
  <2>2. BoundedSeq(Fields, MaxFields) \subseteq Seq(Fields)
    BY FramingAssumption DEF BoundedSeq, SeqOf
  <2>3. [id : message_ids, fields : BoundedSeq(Fields, MaxFields)] \subseteq Messages
    BY <2>2 DEF Messages
  <2>4. msgs \in [1 .. N -> Messages]
    BY <2>3
  <2>5. msgs \in Seq(Messages) /\ Len(msgs) = N
    BY <2>1, <2>4
  <2> QED  BY <2>1, <2>5, EmptySeq
<1>3. PICK starts : Layout(msgs, starts)
  BY <1>2, PacketsAreLaidOut
<1>4. Framed(msgs) \in Seq(Tokens)
  BY <1>3 DEF Layout
<1>5. Framed(msgs) \in Seq(Arrivals) /\ Len(Framed(msgs)) \in Nat
  BY <1>4 DEF Arrivals
<1>6. Arrived'
  BY <1>1, <1>2, <1>5 DEF Arrived
<1>7. CutIsNoticed'
  BY <1>1 DEF CutIsNoticed, Nothing, Thrown
<1> QED  BY <1>1, <1>2, <1>6, <1>7 DEF FramingInv

\* Ahead of a cut all is as it was sent; a part can only be the last.
LEMMA CutKeepsFraming ==
  ASSUME FramingInv, NEW n \in 0 .. Len(stream), Cut(n)
  PROVE  FramingInv'
<1> DEFINE kept == SubSeq(stream, 1, n)  L == Len(stream)
<1>1. /\ packet' = packet /\ received' = received /\ received = Nothing
      /\ stream = Framed(packet) /\ n < Len(stream)
  BY DEF Cut
<1>2. PICK part \in {<<>>} \cup {<<p>> : p \in PartsOf(stream[n + 1])} : stream' = kept \o part
  BY DEF Cut
<1>3. packet # <<>> /\ Arrived
  <2>1. packet = <<>> => stream = <<>>
    BY DEF FramingInv
  <2>2. stream # <<>>
    BY <1>1
  <2> QED  BY <2>1, <2>2 DEF FramingInv
<1>4. PICK starts : Layout(packet, starts)
  <2>1. packet \in Seq(Messages)
    BY <1>3 DEF Arrived
  <2> QED  BY <2>1, <1>3, PacketsAreLaidOut
<1>5. stream \in Seq(Tokens) /\ L \in Nat /\ stream \in Seq(Arrivals)
  <2>1. stream \in Seq(Tokens)
    BY <1>1, <1>4 DEF Layout
  <2> QED  BY <2>1 DEF Arrivals
<1>6. n \in Nat /\ n < L /\ n + 1 \in 1 .. L /\ n + 1 \in Nat
  BY <1>1, <1>5
<1>7. kept \in Seq(Arrivals) /\ Len(kept) = n /\ \A k \in 1 .. n : kept[k] = stream[k]
  BY <1>5, FirstElements
<1> HIDE DEF kept, L
<1>8. /\ part \in Seq(Arrivals) /\ Len(part) \in 0 .. 1
      /\ Len(part) = 1 => part[1] \in PartsOf(stream[n + 1])
  <2>1. CASE part = <<>>
    BY <2>1
  <2>2. CASE part # <<>>
    <3>1. PICK p \in PartsOf(stream[n + 1]) : part = <<p>>
      BY <2>2
    <3>2. stream[n + 1] \in Tokens
      BY <1>5, <1>6 DEF L
    <3>3. p \in Arrivals
      BY <3>1, <3>2, PartsArrive
    <3> QED  BY <3>1, <3>3
  <2> QED  BY <2>1, <2>2
<1>9. /\ stream' \in Seq(Arrivals) /\ Len(stream') = n + Len(part)
      /\ \A k \in 1 .. n + Len(part) : stream'[k] = IF k <= n THEN kept[k] ELSE part[k - n]
  <2>1. \A m, l : Len(kept) = m /\ Len(part) = l =>
          /\ kept \o part \in Seq(Arrivals) /\ Len(kept \o part) = m + l
          /\ \A k \in 1 .. m + l : (kept \o part)[k] = IF k <= m THEN kept[k] ELSE part[k - m]
    BY <1>7, <1>8, Joined
  <2>2. Len(kept) = n /\ stream' = kept \o part
    BY <1>2, <1>7
  <2> QED  BY <2>1, <2>2, Zenon
<1>10. Arrived'
  <2>1. Len(stream') <= Len(Framed(packet))
    BY <1>1, <1>6, <1>8, <1>9 DEF L
  <2>2. ASSUME NEW i \in 1 .. Len(stream')
        PROVE  stream'[i] = stream[i] \/ (i = Len(stream') /\ stream'[i] \in PartsOf(stream[i]))
    <3>1. CASE i <= n
      <4>1. i \in 1 .. n /\ i \in 1 .. n + Len(part)
        BY <3>1, <1>6, <1>8, <1>9
      <4> QED  BY <4>1, <3>1, <1>7, <1>9
    <3>2. CASE ~(i <= n)
      <4>1. i = n + 1 /\ Len(part) = 1 /\ i - n = 1 /\ i \in 1 .. n + Len(part) /\ i = Len(stream')
        BY <3>2, <1>6, <1>8, <1>9
      <4>2. stream'[i] = part[1]
        BY <4>1, <3>2, <1>9
      <4> QED  BY <4>1, <4>2, <1>8
    <3> QED  BY <3>1, <3>2
  <2>3. packet \in Seq(Messages) /\ packet # <<>>
    BY <1>3 DEF Arrived
  <2> QED  BY <2>1, <2>2, <2>3, <1>1, <1>9 DEF Arrived
<1>11. CutIsNoticed'
  BY <1>1 DEF CutIsNoticed, Nothing, Thrown
<1> QED  BY <1>1, <1>3, <1>10, <1>11 DEF FramingInv

\* read, for each of what may have become of the count.
LEMMA ReadKeepsFraming ==
  ASSUME FramingInv, Read
  PROVE  FramingInv'
<1> DEFINE N == Len(packet)  r == ReadUpTo[MessagesCount]  c == MessagesCount
<1>1. /\ packet' = packet /\ stream' = stream /\ packet # <<>>
      /\ received' = IF c > max_messages_count THEN Thrown("transfer_error")
                     ELSE [error |-> r.error, msgs |-> r.msgs]
  BY DEF Read
<1>2. Arrived /\ packet \in Seq(Messages) /\ N \in Nat
  <2>1. Arrived
    BY <1>1 DEF FramingInv
  <2> QED  BY <2>1 DEF Arrived
<1>3. PICK starts : Layout(packet, starts)
  BY <1>1, <1>2, PacketsAreLaidOut
<1>4. /\ CountArrives(N) /\ c \in Nat
      /\ stream = Framed(packet) => c = N /\ Len(stream) > 1
  BY <1>2, <1>3, CountIsRead
<1> HIDE DEF r, c, N
<1> DEFINE sound == received'.error = "none" /\ received'.msgs # <<>> =>
                      /\ Len(received'.msgs) = N
                      /\ \A n \in DOMAIN packet :
                           /\ received'.msgs[n].id = packet[n].id
                           /\ IF n < N THEN received'.msgs[n] = packet[n]
                              ELSE IsPrefix(received'.msgs[n].fields, packet[n].fields)
           complete == stream = Framed(packet) /\ N <= max_messages_count =>
                         received' = [error |-> "none", msgs |-> packet]
<1>5. ASSUME c > max_messages_count PROVE sound /\ complete
  <2>1. received'.error = "transfer_error"
    BY <1>1, <1>5 DEF Thrown
  <2>2. stream = Framed(packet) => ~(N <= max_messages_count)
    BY <1>2, <1>4, <1>5, FramingAssumption
  <2>3. sound
    BY <2>1
  <2>4. complete
    BY <2>2
  <2> QED  BY <2>3, <2>4
<1>6. ASSUME ~(c > max_messages_count) PROVE sound /\ complete
  <2>1. received' = [error |-> r.error, msgs |-> r.msgs]
    BY <1>1, <1>6
  <2>2. received'.error = r.error /\ received'.msgs = r.msgs
    BY <2>1
  <2>3. CASE stream = <<>> /\ c = 0
    <3>1. r = [error |-> "none", msgs |-> <<>>, next |-> 2]
      BY <2>3, <1>4, LoopTurns DEF r, c
    <3>2. sound
      BY <2>2, <3>1
    <3>3. complete
      BY <2>3, <1>4
    <3> QED  BY <3>2, <3>3
  <2>4. CASE c = N
    <3>1. \A n \in 0 .. N : ReadSoFar(starts, n)
      BY <1>2, <1>3, <2>4, LoopReads DEF c, N
    <3>2. ReadSoFar(starts, N)
      BY <3>1, <1>2
    <3>3. /\ r.error = "none" => SoFar(starts, N, r)
          /\ stream = Framed(packet) => r.error = "none" /\ Whole(r.msgs, N)
      BY <3>2, <2>4 DEF ReadSoFar, r, c
    <3>4. N > 0
      BY <1>1, <1>2, EmptySeq DEF N
    <3>5. ASSUME r.error = "none"
          PROVE  /\ Len(r.msgs) = N /\ r.msgs \in Seq(Messages)
                 /\ \A n \in 1 .. N - 1 : r.msgs[n] = packet[n]
                 /\ r.msgs[N].id = packet[N].id /\ IsPrefix(r.msgs[N].fields, packet[N].fields)
      BY <3>3, <3>4, <3>5 DEF SoFar, Whole
    <3>6. ASSUME stream = Framed(packet)
          PROVE  r.error = "none" /\ r.msgs = packet
      <4>1. r.error = "none" /\ \A n \in 1 .. N : r.msgs[n] = packet[n]
        BY <3>3, <3>6 DEF Whole
      <4>2. r.msgs \in Seq(Messages) /\ Len(r.msgs) = N
        BY <4>1, <3>5
      <4> QED  BY <4>1, <4>2, <1>2, SeqEqual DEF N
    <3>7. DOMAIN packet = 1 .. N
      BY <1>2 DEF N
    <3>8. ASSUME r.error = "none", NEW n \in DOMAIN packet
          PROVE  /\ r.msgs[n].id = packet[n].id
                 /\ IF n < N THEN r.msgs[n] = packet[n]
                    ELSE IsPrefix(r.msgs[n].fields, packet[n].fields)
      <4>1. n \in 1 .. N - 1 \/ n = N
        BY <3>7, <1>2
      <4>2. CASE n \in 1 .. N - 1
        <5>1. n < N /\ r.msgs[n] = packet[n]
          BY <4>2, <3>5, <3>8, <1>2
        <5> QED  BY <5>1
      <4>3. CASE n = N
        <5>1. ~(n < N)
          BY <4>3, <1>2
        <5> QED  BY <5>1, <4>3, <3>5, <3>8
      <4> QED  BY <4>1, <4>2, <4>3
    <3>9. sound
      BY <2>2, <3>5, <3>8
    <3>10. complete
      BY <2>1, <3>6
    <3> QED  BY <3>9, <3>10
  <2>5. CASE Len(stream) = 1
    <3>1. r.error # "none" \/ r.msgs = <<>>
      BY <2>5, <1>2, <1>4, LoopStops DEF r, c
    <3>2. sound
      BY <2>2, <3>1
    <3>3. complete
      BY <2>5, <1>4
    <3> QED  BY <3>2, <3>3
  <2> HIDE DEF sound, complete
  <2> QED  BY <1>4, <2>3, <2>4, <2>5 DEF CountArrives, c
<1>7. CutIsNoticed'
  <2>1. sound /\ complete
    <3> HIDE DEF sound, complete
    <3> QED  BY <1>5, <1>6
  <2>2. (received # Nothing)' /\ stream = Framed(packet) /\ N <= max_messages_count =>
          received' = [error |-> "none", msgs |-> packet]
    BY <2>1
  <2> HIDE DEF complete
  <2> QED  BY <2>1, <2>2, <1>1 DEF CutIsNoticed, N
<1>8. Arrived'
  BY <1>1, <1>2 DEF Arrived
<1> QED  BY <1>1, <1>7, <1>8 DEF FramingInv

\* Wherever a packet's stream is cut, its reader gets every message or none, of
\* the sent kinds and in order, with nothing lost but the last fields of the
\* last; without a cut it gets what was written (read_any, read, write_n).
THEOREM CutsAreNoticed == FramingSpec => []CutIsNoticed
<1>1. FramingInit => FramingInv
  <2> SUFFICES ASSUME FramingInit PROVE FramingInv
    OBVIOUS
  <2>1. packet = <<>> /\ stream = <<>> /\ received = Nothing
    BY DEF FramingInit
  <2>2. received.error # "none"
    BY <2>1 DEF Nothing, Thrown
  <2> QED  BY <2>1, <2>2 DEF FramingInv, CutIsNoticed
<1>2. FramingInv /\ [FramingNext]_framingVars => FramingInv'
  <2> SUFFICES ASSUME FramingInv, [FramingNext]_framingVars PROVE FramingInv'
    OBVIOUS
  <2>1. ASSUME NEW n \in 1 .. MaxMessages,
               NEW msgs \in [1 .. n -> [id : message_ids, fields : BoundedSeq(Fields, MaxFields)]], Write(msgs)
        PROVE  FramingInv'
    BY <2>1, WriteKeepsFraming
  <2>2. ASSUME NEW n \in 0 .. Len(stream), Cut(n) PROVE FramingInv'
    BY <2>2, CutKeepsFraming
  <2>3. CASE Read
    BY <2>3, ReadKeepsFraming
  <2>4. CASE UNCHANGED framingVars
    BY <2>4 DEF framingVars, FramingInv, Arrived, CutIsNoticed
  <2> QED  BY <2>1, <2>2, <2>3, <2>4 DEF FramingNext
<1>3. FramingInv => CutIsNoticed
  BY DEF FramingInv
<1> QED  BY <1>1, <1>2, <1>3, PTL DEF FramingSpec
=================================================================
