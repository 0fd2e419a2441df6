----------------------------- MODULE SessionExport -----------------------------
(***************************************************************************)
(* What a start of the trainer with --replay and --dump-session does: the   *)
(* options (trainer_main.cpp), the decision of do_init between the file, a  *)
(* new session and a refusal, the replay of one genome on one case, and the *)
(* sample of the population that a dump takes                               *)
(* (trainer_app_session_export.cpp).                                        *)
(***************************************************************************)
EXTENDS Integers, FiniteSets, Sequences

CONSTANTS
  GenomeIds,      \* ids of the population, drawn from one uid_source with ...
  CaseIds,        \* ... the ids of the cases
  NoIds,          \* ids a user may give that name nothing
  steps_limit,
  size_threshold, \* populations above it are sampled on demand
  Pop             \* population.size() for the dump

ASSUME ExportAssumption ==
  /\ GenomeIds \cap CaseIds = {} /\ (GenomeIds \cup CaseIds) \cap NoIds = {}
  /\ GenomeIds \cup CaseIds \cup NoIds \subseteq Nat \ {0}
  /\ steps_limit \in Nat \ {0} /\ size_threshold \in Nat /\ Pop \in Nat \ {0}

VARIABLES
  run,            \* the options, and where the start is: the record below
  turns,          \* the outcomes of the turns of the replay, in order
  inds            \* the rows sampled for the dump

exportVars == <<run, turns, inds>>

Ids == GenomeIds \cup CaseIds \cup NoIds
ExportInit ==
  /\ run = [at |-> "options", replay |-> FALSE, dump |-> FALSE, no_exit |-> FALSE, gene |-> 0,
            case |-> 0, may_swap |-> FALSE, count |-> 0, last_error |-> 0, asked |-> <<>>]
  /\ turns = <<>> /\ inds = <<>>

\* parse_replay_optarg: 0 is an id that is missing, out of range or no number.
OptionIds == Ids \cup {0}

\* do_init: without a file there is nothing to export but a new session's dump.
Refused(init, replay, dump, file) == ~file /\ (((replay \/ dump) /\ ~init) \/ replay)

\* parse_options, and what do_init makes of it.
Start(init, replay, dump, no_exit, gene, case, file) ==
  /\ run.at = "options"
  /\ LET refused == Refused(init, replay, dump, file)
     IN  run' = [run EXCEPT
           !.replay = replay, !.dump = dump, !.no_exit = no_exit,
           !.gene = gene, !.case = case, !.may_swap = gene > 0 /\ case > 0,
           !.asked = <<gene, case>>,
           !.last_error = IF refused THEN -2 ELSE 0,
           !.at = IF refused THEN "exit"
                  ELSE IF replay THEN "ids" ELSE IF dump THEN "dump" ELSE "serve"]
  /\ UNCHANGED <<turns, inds>>

(* do_make_replay: ids that are missing are asked for, an empty reply is 1. *)
AskGenome(id) ==
  /\ run.at = "ids" /\ run.gene = 0
  /\ run' = [run EXCEPT !.gene = id, !.asked[1] = id]
  /\ UNCHANGED <<turns, inds>>
AskCase(id) ==
  /\ run.at = "ids" /\ run.gene # 0 /\ run.case = 0
  /\ run' = [run EXCEPT !.case = id, !.asked[2] = id]
  /\ UNCHANGED <<turns, inds>>

\* The ids, swapped if both were given and the second one is no case.
Swapped(r) ==
  IF r.may_swap /\ r.case \notin CaseIds
  THEN [r EXCEPT !.gene = r.case, !.case = r.gene] ELSE r
AfterReplay(r) == IF r.dump THEN "dump" ELSE IF r.no_exit THEN "serve" ELSE "exit"
Find ==
  /\ run.at = "ids" /\ run.gene # 0 /\ run.case # 0
  /\ LET r == Swapped(run) IN
     run' = IF r.case \in CaseIds /\ r.gene \in GenomeIds
            THEN [r EXCEPT !.at = "play"]
            ELSE [r EXCEPT !.last_error = -1, !.at = AfterReplay(r)]
  /\ UNCHANGED <<turns, inds>>

\* The first turn is the state of the case; the simulation ends with the
\* first outcome that is not Aerial, or after steps_limit steps.
Outcomes == {"Aerial", "Landed", "Crashed", "Lost"}
Play(o) ==
  /\ run.at = "play" /\ Len(turns) <= steps_limit
  /\ turns # <<>> => turns[Len(turns)] = "Aerial"
  /\ turns' = Append(turns, IF turns = <<>> THEN "Aerial" ELSE o)
  /\ UNCHANGED <<run, inds>>
WriteReplay(opened) ==
  /\ run.at = "play" /\ turns # <<>>
  /\ Len(turns) > steps_limit \/ turns[Len(turns)] # "Aerial"
  /\ run' = [run EXCEPT !.last_error = IF opened THEN @ ELSE -2, !.at = AfterReplay(run)]
  /\ UNCHANGED <<turns, inds>>

-----------------------------------------------------------------------------
(* do_dump_session: while the dump would be HUGE the user may ask for a     *)
(* sample, whose rows are drawn until there are enough different ones.      *)

AskSample(yes, n) ==
  /\ run.at \in {"dump", "ask"}
  /\ LET size == IF run.at = "dump" THEN Pop ELSE run.count
         wanted == IF size > size_threshold /\ yes THEN n ELSE size
     IN  run' = [run EXCEPT !.count = wanted,
                   !.at = IF size > size_threshold /\ yes /\ n > size_threshold
                          THEN "ask" ELSE "sample"]
  /\ UNCHANGED <<turns, inds>>

\* lower_bound, and the insertion unless the row is there.
InsertedAt(i) == Cardinality({j \in DOMAIN inds : inds[j] < i})
\* Mutant of Sampled: a row that is there is inserted again.
Sampled_Twice(i) ==
  inds' = SubSeq(inds, 1, InsertedAt(i)) \o <<i>> \o SubSeq(inds, InsertedAt(i) + 1, Len(inds))
Sampled(i) ==
  inds' = IF \E j \in DOMAIN inds : inds[j] = i THEN inds
          ELSE SubSeq(inds, 1, InsertedAt(i)) \o <<i>>
               \o SubSeq(inds, InsertedAt(i) + 1, Len(inds))
Sample(i) ==
  /\ run.at = "sample" /\ run.count < Pop /\ Len(inds) < run.count
  /\ Sampled(i)
  /\ UNCHANGED <<run, turns>>
WriteDump(opened) ==
  /\ run.at = "sample" /\ (run.count >= Pop \/ Len(inds) = run.count)
  /\ run' = [run EXCEPT !.last_error = IF opened THEN @ ELSE -2,
                        !.at = IF run.no_exit THEN "serve" ELSE "exit"]
  /\ UNCHANGED <<turns, inds>>

ExportNext ==
  \/ \E i, r, d, n, file \in BOOLEAN, g, c \in OptionIds : Start(i, r, d, n, g, c, file)
  \/ \E id \in Ids : AskGenome(id) \/ AskCase(id)
  \/ Find
  \/ \E o \in Outcomes : Play(o)
  \/ \E opened \in BOOLEAN : WriteReplay(opened) \/ WriteDump(opened)
  \/ \E yes \in BOOLEAN, n \in 0 .. Pop : AskSample(yes, n)
  \/ \E i \in 0 .. Pop - 1 : Sample(i)
ExportSpec == ExportInit /\ [][ExportNext]_exportVars

-----------------------------------------------------------------------------
(* Properties.                                                             *)

\* The genome and the case of a replay are those asked for: by --replay in
\* either order, by the prompts in the order they ask; and a replay is refused
\* only if no order the user may have meant names a genome and a case.
Named(g, c) == g \in GenomeIds /\ c \in CaseIds
ReplayIsAsked ==
  run.replay /\ run.at \in {"play", "dump", "ask", "sample", "serve", "exit"} /\ run.last_error # -2 =>
    LET meant == {<<run.asked[1], run.asked[2]>>}
                   \cup (IF run.may_swap THEN {<<run.asked[2], run.asked[1]>>} ELSE {})
    IN  IF run.last_error = 0
        THEN <<run.gene, run.case>> \in meant /\ Named(run.gene, run.case)
        ELSE \A m \in meant : ~Named(m[1], m[2])

\* The turns end with the outcome, and are one more than the steps at most.
ReplayIsWhole ==
  /\ Len(turns) <= steps_limit + 1
  /\ \A n \in 1 .. Len(turns) - 1 : turns[n] = "Aerial"

\* The sample of a dump has the rows of the population in order, each once.
SampleIsFair ==
  /\ \A i, j \in DOMAIN inds : i < j => inds[i] < inds[j]
  /\ Len(inds) <= run.count

\* A start with exports tells them apart: what is replayed is what was asked
\* for, whole, and what is dumped has no row twice.
ExportSound == ReplayIsAsked /\ ReplayIsWhole /\ SampleIsFair
=============================================================================
