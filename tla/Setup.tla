-------------------------------- MODULE Setup --------------------------------
(***************************************************************************)
(* The dialogue that sets up a session of the trainer (do_init_from_scratch *)
(* with setup_population and setup_cases), the conversions of the replies   *)
(* it reads (user_input.h), the factories that validate, complete and make  *)
(* the crossover and the mutation (trainer_app_init_algo_fac.icc), and what *)
(* a start from the session's file makes of the names and values stored.    *)
(*                                                                          *)
(* A reply is a number in hundredths, Empty, Garbage (what stod or stoul    *)
(* throws on) or, for an algorithm, a name with values.  Where the code     *)
(* reads an amount it takes the whole part of the number.                   *)
(***************************************************************************)
EXTENDS Integers, Sequences, SequencesExt, FiniteSetsExt

CONSTANTS
  Populations,    \* the numbers a user answers for the population size
  Shares,         \* ... for the elite count, in hundredths or in percent
  Tournaments,    \* ... for the tournament size
  Names,          \* the names a user gives to an algorithm
  Values,         \* the values, in hundredths, a user gives with a name
  Predefined,     \* how many cases the cases file may hold
  Empty, Garbage  \* the replies that are no number

\* The largest of the numbers answered stand for those of unsigned long.
ASSUME SetupAssumption ==
  /\ Populations \subseteq Nat /\ Max(Populations) \in Nat \ {0}
  /\ Shares \subseteq Nat /\ Tournaments \subseteq Nat
  /\ Values \subseteq Seq(Int)
  /\ Predefined \subseteq Nat /\ Max(Predefined) \in Nat
  /\ Empty \notin Int /\ Garbage \notin Int

VARIABLES
  phase,          \* the prompt that is waited at
  setup           \* the part of app_state the dialogue fills

setupVars == <<phase, setup>>

Hundred == 100
None == [name |-> "", values |-> <<>>]

-----------------------------------------------------------------------------
(* The factories.                                                          *)

XvrAlias ==
  [default |-> "intermediate", intermediate |-> "intermediate", intm |-> "intermediate",
   heuristic |-> "heuristic", heur |-> "heuristic",
   laplace |-> "laplace", lapx |-> "laplace", lx |-> "laplace",
   scattered |-> "scattered", scatter |-> "scattered", sctd |-> "scattered"]
MtnAlias ==
  [default |-> "gaussian", gaussian |-> "gaussian", normal |-> "gaussian",
   power |-> "power", pow |-> "power", pwr |-> "power",
   uniform |-> "uniform", unf |-> "uniform",
   disabled |-> "disabled", none |-> "disabled"]

RejectedXvr(name, v) ==
  \/ name = "laplace" /\ Len(v) < 2
  \/ name = "scattered" /\ Len(v) > 0 /\ (v[1] <= 0 \/ v[1] >= Hundred)
RejectedMtn(name, v) ==
  \/ name = "gaussian" /\ \/ Len(v) > 0 /\ v[1] < 0
                          \/ Len(v) > 2 /\ v[3] <= 0
  \/ name = "power" /\ (Len(v) < 3 \/ v[2] > v[3])
  \/ name = "uniform" /\ \/ Len(v) < 2
                         \/ Len(v) > 3 /\ (v[3] < 0 \/ v[3] > Hundred)
                         \/ v[1] > v[2]
Rejected(name, v) == RejectedXvr(name, v) \/ RejectedMtn(name, v)

(* What the normalizers append before they resize; a value the validator   *)
(* requires is resized to, never appended.                                 *)
XvrDefaults ==
  [intermediate |-> <<Hundred>>, heuristic |-> <<Hundred>>,
   laplace |-> <<0, 0>>, scattered |-> <<50>>]
MtnDefaults ==
  [gaussian |-> <<0, 0, Hundred>>, power |-> <<0, 0, 0>>,
   uniform |-> <<0, 0, 1>>, disabled |-> <<>>]
Defaults ==
  [name \in DOMAIN XvrDefaults \cup DOMAIN MtnDefaults |->
    IF name \in DOMAIN XvrDefaults THEN XvrDefaults[name] ELSE MtnDefaults[name]]
Normalised(name, v) ==
  [i \in DOMAIN Defaults[name] |-> IF i <= Len(v) THEN v[i] ELSE Defaults[name][i]]

(* validate_args: the alias is resolved first, then the values are checked  *)
(* and completed under the name it stands for.                             *)
\* Mutant of ValidArgs: the values are checked under the alias.
ValidArgs_ByAlias(alias, args) ==
  args.name \in DOMAIN alias /\ ~Rejected(args.name, args.values)
ValidArgs(alias, args) ==
  args.name \in DOMAIN alias /\ ~Rejected(alias[args.name], args.values)
Validated(alias, args) ==
  [name |-> alias[args.name], values |-> Normalised(alias[args.name], args.values)]

(* instantiate: an algorithm is made of the name and the values as they are *)
(* and checked under the name given; None stands for a refusal.             *)
QuickValidArgs(alias, args) ==
  args.name \in DOMAIN alias /\ ~Rejected(args.name, args.values)
XvrInstance(args) ==
  IF QuickValidArgs(XvrAlias, args) /\ args.name \in DOMAIN XvrDefaults THEN args ELSE None
MtnInstance(args) ==
  IF QuickValidArgs(MtnAlias, args) /\ args.name \in DOMAIN MtnDefaults THEN args ELSE None

-----------------------------------------------------------------------------
(* The conversions of numbers.                                             *)

(* cvt_num: an empty reply is the default, clamped; otherwise the range.    *)
Clamped(x, lo, hi) == Max({lo, Min({x, hi})})
Convertible(reply, lo, hi) == reply = Empty \/ reply \in lo .. hi
Converted(reply, lo, hi, def) == IF reply = Empty THEN Clamped(def, lo, hi) ELSE reply

(* cvt_unit: percent up to 100, a fraction below 1, or an amount up to max. *)
UnitAccepted(unit, x, max) ==
  \/ x = Empty
  \/ x # Garbage /\ unit = "percent" /\ x \in 0 .. 100
  \/ x # Garbage /\ unit = "number" /\ x \in 0 .. Hundred - 1
  \/ x # Garbage /\ unit = "number" /\ x >= Hundred /\ x \div Hundred <= max
Rounded(total, x) == (2 * total * x + 100) \div 200
UnitCount(unit, x, total) ==
  IF x = Empty THEN 0
  ELSE IF unit = "number" /\ x >= Hundred THEN Min({x \div Hundred, total})
  ELSE Min({Rounded(total, x), total})

-----------------------------------------------------------------------------
(* The dialogue: a prompt is repeated until its reply converts.             *)

NewSetup ==
  [population_size |-> 0, elite_count |-> 0, tournament_size |-> 0,
   crossover |-> None, mutation |-> None, pxvr |-> None, pmtn |-> None,
   cases_count |-> 0]
SetupInit == phase = "population" /\ setup = NewSetup

Repeat == UNCHANGED setupVars

AskPopulation(reply) ==
  /\ phase = "population"
  /\ IF Convertible(reply, 1, Max(Populations))
     THEN /\ phase' = "elite"
          /\ setup' = [setup EXCEPT !.population_size = Converted(reply, 1, Max(Populations), 1)]
     ELSE Repeat

(* The question is asked from 5% on, and a choice not kept is made again.   *)
Suboptimal(n) == n > 0 /\ n >= Rounded(setup.population_size, 5)
AskElite(unit, x) ==
  /\ phase = "elite"
  /\ IF UnitAccepted(unit, x, setup.population_size)
     THEN LET n == UnitCount(unit, x, setup.population_size) IN
          /\ setup' = [setup EXCEPT !.elite_count = n]
          /\ phase' = IF Suboptimal(n) THEN "keep" ELSE "tournament"
     ELSE Repeat
AskKeep(yes) ==
  /\ phase = "keep"
  /\ phase' = IF yes THEN "tournament" ELSE "elite"
  /\ UNCHANGED setup

TournamentMax == setup.population_size - setup.elite_count
SkipCrossover == phase' = "mutation" /\ setup' = [setup EXCEPT !.crossover = None]
AskTournament(reply) ==
  /\ phase = "tournament"
  /\ \/ TournamentMax = 0 /\ SkipCrossover
     \/ /\ TournamentMax = 1
        /\ phase' = "crossover"
        /\ setup' = [setup EXCEPT !.tournament_size = 1]
     \/ /\ TournamentMax > 1
        /\ IF Convertible(reply, 1, TournamentMax)
           THEN /\ phase' = "crossover"
                /\ setup' = [setup EXCEPT !.tournament_size = Converted(reply, 1, TournamentMax, 1)]
           ELSE Repeat

(* read_algo: cvt_alg_args has taken the reply apart; validate_args refuses *)
(* it with a message, or replaces it by what it stands for.                *)
AskCrossover(args) ==
  /\ phase = "crossover"
  /\ IF ValidArgs(XvrAlias, args)
     THEN LET a == Validated(XvrAlias, args) IN
          /\ setup' = [setup EXCEPT !.crossover = a, !.pxvr = XvrInstance(a)]
          /\ phase' = "mutation"
     ELSE setup' = [setup EXCEPT !.crossover = args] /\ UNCHANGED phase
AskMutation(args) ==
  /\ phase = "mutation"
  /\ IF ValidArgs(MtnAlias, args)
     THEN LET a == Validated(MtnAlias, args) IN
          /\ setup' = [setup EXCEPT !.mutation = a, !.pmtn = MtnInstance(a)]
          /\ phase' = "cases"
     ELSE setup' = [setup EXCEPT !.mutation = args] /\ UNCHANGED phase

(* setup_cases: the default is the number of predefined cases, at least 1.  *)
AskCases(predefined, reply) ==
  /\ phase = "cases"
  /\ IF Convertible(reply, 1, Max(Predefined) + 1)
     THEN /\ phase' = "ready"
          /\ setup' = [setup EXCEPT !.cases_count = Converted(reply, 1, Max(Predefined) + 1, Max({predefined, 1}))]
     ELSE Repeat

(* do_init_from_file: the header is read back and both algorithms are made  *)
(* of it, or the start is refused.                                         *)
Reopen ==
  /\ phase \in {"ready", "reopened"}
  /\ LET x == XvrInstance(setup.crossover)
         m == MtnInstance(setup.mutation)
     IN  /\ phase' = IF None \in {x, m} THEN "refused" ELSE "reopened"
         /\ setup' = [setup EXCEPT !.pxvr = x, !.pmtn = m]

Numbers(S) == S \cup {0, Empty, Garbage}
Arguments == [name : Names, values : Values]
SetupNext ==
  \/ \E n \in Numbers(Populations) : AskPopulation(n)
  \/ \E unit \in {"percent", "number"}, x \in Numbers(Shares) : AskElite(unit, x)
  \/ \E yes \in BOOLEAN : AskKeep(yes)
  \/ \E n \in Numbers(Tournaments) : AskTournament(n)
  \/ \E args \in Arguments : AskCrossover(args) \/ AskMutation(args)
  \/ \E p \in Predefined, n \in Numbers(Predefined) : AskCases(p, n)
  \/ Reopen
SetupSpec == SetupInit /\ [][SetupNext]_setupVars

-----------------------------------------------------------------------------
(* Properties.                                                             *)

\* The elite fits, and a crossover is set up exactly when there is somebody
\* to breed from, with a tournament that has somebody to choose from.
SelectionPossible ==
  /\ setup.elite_count <= setup.population_size
  /\ (setup.pxvr # None) <=> (setup.elite_count < setup.population_size)
  /\ setup.pxvr # None => setup.tournament_size \in 1 .. TournamentMax

\* An algorithm has all the values its constructor indexes, in their ranges
\* (the rate of "uniform" is checked by nobody and left out).
AlgorithmUsable(a) ==
  /\ Len(a.values) = Len(Defaults[a.name])
  /\ a.name = "scattered" => a.values[1] \in 1 .. Hundred - 1
  /\ a.name = "gaussian" => a.values[1] >= 0 /\ a.values[3] > 0
  /\ a.name = "power" => a.values[2] <= a.values[3]
  /\ a.name = "uniform" => a.values[1] <= a.values[2]

\* What the dialogue accepts, by alias, with too few or too many values, after
\* any number of refused replies, is a session that can breed, and a later
\* start from its file makes the same algorithms of it: a session is refused
\* then only if it has no crossover (read_algo ignores what instantiate
\* answers, and the file stores names and values only).
SetupUsable ==
  /\ phase \in {"ready", "reopened"} =>
       /\ SelectionPossible
       /\ setup.pmtn # None /\ AlgorithmUsable(setup.pmtn)
       /\ setup.pxvr # None => AlgorithmUsable(setup.pxvr)
       /\ setup.cases_count >= 1
  /\ phase = "reopened" => setup.pxvr = setup.crossover /\ setup.pmtn = setup.mutation
  /\ phase = "refused" => setup.elite_count = setup.population_size
=============================================================================
