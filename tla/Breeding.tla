------------------------------- MODULE Breeding -------------------------------
(***************************************************************************)
(* next_generation step by step (trainer_app_server_outcomes.cpp): the sort, *)
(* the elite moved over, the loop that hands slots of the new population to *)
(* a crossover, the surplus cut off, and the mutations, which run in        *)
(* parallel and draw the new ids; with the operators of ga.h on a gene.     *)
(*                                                                          *)
(* Every gene of a genome is treated alike: a genome stands for one gene, a *)
(* number in units of 1/One.  The draws of the random engine are chosen.    *)
(***************************************************************************)
EXTENDS Integers, FiniteSets, FiniteSetsExt, Sequences

CONSTANTS
  BreedSize,      \* population_size
  BreedSessions,  \* records [elite, xvr, mtn, tournament]: what is set up
  BreedScores,    \* functions from rows to scores
  OldGenes,       \* the gene of every row of the old population
  Low, High       \* the arguments of "power" and "uniform"

VARIABLES
  breeding,       \* the session bred for, and where next_generation is
  new_pop         \* the new population: a sequence of slots

breedVars == <<breeding, new_pop>>

One == 4
BreedRows == 0 .. BreedSize - 1
Blank == [id |-> 0, gene |-> 0, parents |-> <<>>, row |-> -1]

ASSUME BreedingAssumption ==
  /\ BreedSize \in Nat \ {0}
  /\ BreedSessions \subseteq
       [elite : 0 .. BreedSize - 1, tournament : Nat \ {0},
        xvr : {"heuristic", "intermediate", "laplace", "scattered"},
        mtn : {"gaussian", "power", "uniform", "disabled"}]
  /\ BreedScores \subseteq [BreedRows -> Nat]
  /\ Low \in Int /\ High \in Int
  /\ OldGenes \in [BreedRows -> Low .. High]

-----------------------------------------------------------------------------
(* Crossover: the children a pair of genes may have, by algorithm.          *)

Growth == [intermediate |-> 1, heuristic |-> 1, laplace |-> 2, scattered |-> 1]

Lerp(x, y, t) == x + (t * (y - x)) \div One
crossover_heuristic(a, b) == {<<Lerp(b, a, One)>>}
crossover_intermediate(a, b) == {<<Lerp(a, b, t)>> : t \in 0 .. One}
\* One beta for both children, a multiple of the distance of the parents.
crossover_Laplace(x1, x2) == {<<x1 + k * (x1 - x2), x2 + k * (x1 - x2)>> : k \in -1 .. 1}
crossover_scattered(a, b) == {<<a>>, <<b>>}
Offspring(xvr, a, b) ==
  CASE xvr = "heuristic" -> crossover_heuristic(a, b)
    [] xvr = "intermediate" -> crossover_intermediate(a, b)
    [] xvr = "laplace" -> crossover_Laplace(a, b)
    [] xvr = "scattered" -> crossover_scattered(a, b)

\* DECL_COMPARE_PARENTS_: two of the algorithms want the better parent first.
Compares == {"heuristic", "scattered"}
Parents(xvr, x1, x2) == IF xvr \in Compares /\ x1 - x2 > 0 THEN <<x2, x1>> ELSE <<x1, x2>>

-----------------------------------------------------------------------------
(* Mutation: what may become of a gene.                                     *)

mutation_Gaussian(u) == {u} \cup {u + x : x \in {-One, One}}
mutation_uniform(u) == {u} \cup {Low + (k * (High - Low)) \div One : k \in 0 .. One}

(* u moves towards one of the bounds by a share k/One; which one is decided *)
(* by t = (v - xl) / (xu - v) against a draw r/One.  With v = xl = xu, t is *)
(* NaN and neither comparison holds.                                        *)
AtLeast(n, d, r) == \/ d > 0 /\ n * One >= r * d
                    \/ d = 0 /\ n > 0
                    \/ d < 0 /\ n * One <= r * d
Below(n, d, r) == \/ d > 0 /\ n * One < r * d
                  \/ d = 0 /\ n < 0
                  \/ d < 0 /\ n * One > r * d
mutation_power(v) ==
  {v + (k * ((IF AtLeast(v - Low, High - v, r) THEN High - v ELSE 0)
           - (IF Below(v - Low, High - v, r) THEN v - Low ELSE 0))) \div One :
     k \in 0 .. One, r \in 0 .. One}
Mutations(mtn, u) ==
  CASE mtn = "gaussian" -> mutation_Gaussian(u)
    [] mtn = "power" -> mutation_power(u)
    [] mtn = "uniform" -> mutation_uniform(u)
    [] mtn = "disabled" -> {u}

-----------------------------------------------------------------------------
(* next_generation.                                                         *)

Idle == [at |-> "idle"]
BreedInit == breeding = Idle /\ new_pop = <<>>

\* sort() is not stable: any order that agrees with the scores.
Orders(score) ==
  {inds \in [BreedRows -> BreedRows] :
     /\ \A i, j \in BreedRows : i # j => inds[i] # inds[j]
     /\ \A i, j \in BreedRows : i < j => score[inds[i]] <= score[inds[j]]}

Aligned(n, growth) == ((n + growth - 1) \div growth) * growth

(* The elite is moved out of the old population; the slots of the children  *)
(* are made, as many as the crossovers will fill.                           *)
Select(ses, score, inds) ==
  /\ breeding.at = "idle"
  /\ breeding' = [at |-> "crossover", ses |-> ses, score |-> score, inds |-> inds,
                  cursor |-> ses.elite, uids |-> BreedSize]
  /\ new_pop' = [n \in 1 .. ses.elite + Aligned(BreedSize - ses.elite, Growth[ses.xvr]) |->
       IF n <= ses.elite
       THEN [Blank EXCEPT !.id = inds[n - 1] + 1, !.row = inds[n - 1], !.gene = OldGenes[inds[n - 1]]]
       ELSE Blank]

\* xvr_tournament: the least of some draws from the genomes that are left.
Winners(ses) ==
  {Min({draw[n] : n \in 1 .. ses.tournament}) :
     draw \in [1 .. ses.tournament -> ses.elite .. BreedSize - 1]}

\* One turn of the loop: the slots come from the iterator, next_child by
\* next_child, and the increment steps over those the crossover left.
Crossover(x1, x2) ==
  LET ses == breeding.ses
      p == Parents(ses.xvr, x1, x2)
      growth == Growth[ses.xvr]
  IN  /\ breeding.at = "crossover" /\ breeding.cursor < Len(new_pop)
      /\ \E genes \in Offspring(ses.xvr, OldGenes[breeding.inds[p[1]]], OldGenes[breeding.inds[p[2]]]) :
           new_pop' = [n \in DOMAIN new_pop |->
             IF n - breeding.cursor \in 1 .. growth
             THEN [Blank EXCEPT !.gene = genes[n - breeding.cursor],
                                !.parents = <<breeding.inds[p[1]], breeding.inds[p[2]]>>]
             ELSE new_pop[n]]
      /\ breeding' = [breeding EXCEPT !.cursor = @ + growth]

\* Mutant of CutOff: the surplus child is mutated like the others.
CutOff_Later ==
  /\ breeding.at = "crossover" /\ breeding.cursor = Len(new_pop)
  /\ breeding' = [breeding EXCEPT !.at = "mutate"]
  /\ UNCHANGED new_pop
\* The surplus child of the last crossover is dropped before it draws an id.
CutOff ==
  /\ breeding.at = "crossover" /\ breeding.cursor = Len(new_pop)
  /\ new_pop' = SubSeq(new_pop, 1, BreedSize)
  /\ breeding' = [breeding EXCEPT !.at = "mutate"]

\* par_unseq: the children are mutated in any order; set_id(next_uid()).
Mutate(n) ==
  /\ breeding.at = "mutate"
  /\ new_pop[n].id = 0
  /\ breeding' = [breeding EXCEPT !.uids = @ + 1]
  /\ \E gene \in Mutations(breeding.ses.mtn, new_pop[n].gene) :
       new_pop' = [new_pop EXCEPT ![n].gene = gene, ![n].id = breeding.uids + 1]

Replace ==
  /\ breeding.at = "mutate" /\ \A n \in DOMAIN new_pop : new_pop[n].id # 0
  /\ breeding' = [breeding EXCEPT !.at = "done"]
  /\ UNCHANGED new_pop

BreedNext ==
  \/ \E ses \in BreedSessions, score \in BreedScores :
       \E inds \in Orders(score) : Select(ses, score, inds)
  \/ /\ breeding.at = "crossover"
     /\ \E x1, x2 \in Winners(breeding.ses) : Crossover(x1, x2)
  \/ CutOff
  \/ \E n \in DOMAIN new_pop : Mutate(n)
  \/ Replace
BreedSpec == BreedInit /\ [][BreedNext]_breedVars

-----------------------------------------------------------------------------
(* The generation step of Trainer, of which this is the detail.             *)

Core(elite) ==
  INSTANCE Trainer WITH population_size <- BreedSize, elite_count <- elite,
    Cases <- {0}, Ratings <- 0 .. BreedSize, NaN <- -1, Timeout <- 1, Never <- -1,
    NoFile <- "missing", Torn <- "torn", NoReply <- "none",
    MaxCapacity <- 1, MaxBatch <- 1, MaxGeneration <- 1,
    status <- breeding, s <- new_pop, saver <- {}, file <- {}, reply <- {},
    handed <- {}, seen <- {}

Before ==
  [generation |-> 0, uids |-> BreedSize,
   population |-> [i \in BreedRows |-> [id |-> i + 1, fit |-> [k \in {0} |-> breeding.score[i]]]],
   results |-> [i \in BreedRows |-> [k \in {0} |-> breeding.score[i]]]]
Grown(slot) ==
  [id |-> slot.id,
   fit |-> IF slot.row >= 0 THEN Before.population[slot.row].fit ELSE [k \in {0} |-> -1]]
After ==
  [Before EXCEPT !.generation = 1, !.uids = breeding.uids,
     !.population = [i \in BreedRows |-> Grown(new_pop[i + 1])]]

\* After \in NextGenerations(Before), with the children as the witness.
IsNextGeneration(elite) ==
  LET kids == [i \in elite .. BreedSize - 1 |-> Grown(new_pop[i + 1])]
  IN  /\ kids \in Core(elite)!Children(Before)
      /\ \E inds \in Core(elite)!Sorted(Before) : After = Core(elite)!Bred(Before, inds, kids)

\* Where next_generation ends, it has made one of the generations Trainer
\* allows: the best genomes by any order of the sort, then as many children
\* as are missing, each with an id of its own and no id wasted on a surplus
\* child, whatever crossover, elite and order of the parallel mutations.
ImplementsNextGeneration ==
  breeding.at = "done" =>
    /\ Len(new_pop) = BreedSize
    /\ \E elite \in 0 .. BreedSize - 1 : elite = breeding.ses.elite /\ IsNextGeneration(elite)

\* A child is bred once, of genomes that were not moved away to the elite,
\* the better one first where the algorithm relies on it ("parent A MUST have
\* a better fitness", ga.h:48).
ParentsAreWhole ==
  breeding.at # "idle" =>
    \A n \in DOMAIN new_pop : \A p \in {new_pop[n].parents} : p # <<>> =>
      /\ \A m \in 1 .. breeding.ses.elite : new_pop[m].row \notin {p[1], p[2]}
      /\ breeding.ses.xvr \in Compares => breeding.score[p[1]] <= breeding.score[p[2]]

\* Crossovers and mutations that keep between bounds do so together: no weight
\* leaves [Low, High] by them, also where mutation_power divides by zero.
GenesStayInside ==
  /\ breeding.at = "done"
  /\ breeding.ses.xvr # "laplace" /\ breeding.ses.mtn # "gaussian"
  => \A n \in DOMAIN new_pop : new_pop[n].gene \in Low .. High

\* Breeding is faithful to what the rest of the trainer takes it for.
BreedingSound == ImplementsNextGeneration /\ ParentsAreWhole /\ GenesStayInside
=============================================================================
