------------------------------- MODULE Fleet -------------------------------
(***************************************************************************)
(* The runners (src/runner/internal: do_init, do_simulation, client.h)     *)
(* and the trainer they work for, over connections that break at any time. *)
(*                                                                         *)
(* A runner fetches the landing cases, and then goes round a loop: it      *)
(* sends the outcomes it has, takes the population of the response and     *)
(* simulates it.  A response that is cut short looks like an empty one and *)
(* makes it send the same request again; any other transfer error makes it *)
(* start over without its outcomes.  Runners and the trainer are killed    *)
(* and started again; all of it happens within one session.                *)
(***************************************************************************)
EXTENDS Trainer

CONSTANTS
  Runners,
  NoRunner,
  MaxKills     \* bound on the kills of the trainer

\* A runner reports what one response has brought it, so that the bound on
\* reports must not be below the one on responses.
ASSUME FleetAssumption ==
  /\ NoRunner \notin Runners
  /\ MaxKills \in Nat
  /\ MaxCapacity \in Nat /\ MaxBatch \in Nat
  /\ MaxCapacity <= MaxBatch

VARIABLES
  mode,     \* where a runner is in its loop
  held,     \* what it has to simulate or to report: s.population or s.req.data
  gen,      \* s.req.generation: the generation its reports are labelled with
  serving,  \* the runner whose connection waits for the reply, or NoRunner
  kills     \* kills of the trainer so far

runnerVars == <<mode, held, gen, serving>>
fleetVars == <<vars, runnerVars, kills>>

\* "init": do_init asks for the cases; "ask": about to send s.req; "await":
\* it is sent, the response is read; "simulate": the loops over s.population.
Modes == {"init", "ask", "await", "simulate"}

FleetInit ==
  /\ Init
  /\ mode = [r \in Runners |-> "init"]
  /\ held = [r \in Runners |-> {}]
  /\ gen = [r \in Runners |-> 0]
  /\ serving = NoRunner
  /\ kills = 0

-----------------------------------------------------------------------------
(* A runner *)

\* do_init has the cases; the handler of the request waits for the state.
FetchCases(r) ==
  /\ mode[r] = "init"
  /\ status = "up" /\ saver = "none"
  /\ mode' = [mode EXCEPT ![r] = "ask"]
  /\ UNCHANGED <<vars, held, gen, serving, kills>>

\* The request reaches the trainer, whose handler runs.
Ask(r, capacity) ==
  /\ mode[r] = "ask"
  /\ OnOutcomes(held[r], capacity)
  /\ mode' = [mode EXCEPT ![r] = "await"]
  /\ serving' = r
  /\ UNCHANGED <<held, gen, kills>>

\* Mutant of Receive: the response leaves while the file is being written.
Receive_Early(r) ==
  /\ serving = r /\ reply # NoReply
  /\ held' = [held EXCEPT ![r] = reply.data]
  /\ gen' = [gen EXCEPT ![r] = reply.generation]
  /\ mode' = [mode EXCEPT ![r] = IF reply.data = {} THEN "ask" ELSE "simulate"]
  /\ handed' = handed \cup reply.data
  /\ seen' = IF reply.generation > seen THEN reply.generation ELSE seen
  /\ reply' = NoReply
  /\ serving' = NoRunner
  /\ UNCHANGED <<status, s, saver, file, kills>>

\* The response is read: s.req.clear_data(), and an empty population makes
\* the loop ask again.
Receive(r) ==
  /\ serving = r
  /\ Deliver
  /\ held' = [held EXCEPT ![r] = reply.data]
  /\ gen' = [gen EXCEPT ![r] = reply.generation]
  /\ mode' = [mode EXCEPT ![r] = IF reply.data = {} THEN "ask" ELSE "simulate"]
  /\ serving' = NoRunner
  /\ UNCHANGED kills

\* The loops over s.population and s.states have filled s.req.data.
Simulate(r) ==
  /\ mode[r] = "simulate"
  /\ mode' = [mode EXCEPT ![r] = "ask"]
  /\ UNCHANGED <<vars, held, gen, serving, kills>>

\* The reply of a broken connection has nobody to go to.
HangUp(r) == IF serving = r THEN NoRunner ELSE serving

\* The connection ends before a message: "Empty response unacceptable", a
\* logic_error, and the same request is sent again.
EmptyResponse(r) ==
  /\ mode[r] = "await"
  /\ mode' = [mode EXCEPT ![r] = "ask"]
  /\ serving' = HangUp(r)
  /\ UNCHANGED <<vars, held, gen, kills>>

\* A transfer_error: do_init clears the request.  A request that finds the
\* trainer busy waits; that it fails is said when its turn has come.
TransferError(r) ==
  /\ mode[r] = "await" \/ (mode[r] = "ask" /\ reply = NoReply)
  /\ mode' = [mode EXCEPT ![r] = "init"]
  /\ held' = [held EXCEPT ![r] = {}]
  /\ serving' = HangUp(r)
  /\ UNCHANGED <<vars, gen, kills>>

\* The runner is killed while it simulates, and is started again.
RunnerRestart(r) ==
  /\ mode[r] = "simulate"
  /\ mode' = [mode EXCEPT ![r] = "init"]
  /\ held' = [held EXCEPT ![r] = {}]
  /\ UNCHANGED <<vars, gen, serving, kills>>

RunnerStep(r) ==
  \/ FetchCases(r)
  \/ \E capacity \in 1 .. MaxCapacity : Ask(r, capacity)
  \/ Receive(r) \/ Simulate(r)
  \/ EmptyResponse(r) \/ TransferError(r) \/ RunnerRestart(r)

-----------------------------------------------------------------------------
(* The trainer *)

\* A response whose connection is gone: the write fails, or succeeds and is
\* not read.
Unread ==
  /\ serving = NoRunner
  /\ Deliver
  /\ UNCHANGED <<runnerVars, kills>>

Persist ==
  /\ Truncate \/ Backfill
  /\ UNCHANGED <<runnerVars, kills>>

TimePasses ==
  /\ Tick
  /\ UNCHANGED <<runnerVars, kills>>

\* The trainer is killed and started again; its connections are gone.
TrainerRestart ==
  /\ kills < MaxKills
  /\ Restart
  /\ kills' = kills + 1
  /\ serving' = NoRunner
  /\ UNCHANGED <<mode, held, gen>>

FleetNext ==
  \/ \E r \in Runners : RunnerStep(r)
  \/ Unread \/ Persist \/ TimePasses
  \/ TrainerRestart

FleetSpec == FleetInit /\ [][FleetNext]_fleetVars

\* A runner that has outcomes to report, and a response that brings work.
Report(r) == held[r] # {} /\ \E capacity \in 1 .. MaxCapacity : Ask(r, capacity)
TakeWork(r) == reply # NoReply /\ reply.data # {} /\ Receive(r)
\* A wait ends, in whatever way, once the response is made or will not come.
EndWait(r) ==
  /\ serving # r \/ reply # NoReply
  /\ Receive(r) \/ EmptyResponse(r) \/ (mode[r] = "await" /\ TransferError(r))

\* Time passes, the trainer writes its file and sends its responses.  What a
\* runner gets to do again and again succeeds at some time: connections and
\* runners may fail infinitely often, but not each time.
FleetFairness ==
  /\ WF_fleetVars(TimePasses) /\ WF_fleetVars(Persist) /\ WF_fleetVars(Unread)
  /\ \A r \in Runners :
       /\ WF_fleetVars(EndWait(r))
       /\ SF_fleetVars(FetchCases(r))
       /\ SF_fleetVars(\E capacity \in 1 .. MaxCapacity : Ask(r, capacity))
       /\ SF_fleetVars(Report(r))
       /\ SF_fleetVars(TakeWork(r))
       /\ SF_fleetVars(Simulate(r))

FairFleetSpec == FleetSpec /\ FleetFairness

-----------------------------------------------------------------------------
(* Properties *)

\* The requests that runners make are among those that Trainer allows, so
\* that all it says of the trainer holds for the fleet: no runner reports a
\* genome the trainer does not remember as handed out, whoever was killed.
ImplementsTrainer == Spec

\* When a runner forgets its outcomes because a response has come, the
\* trainer has them, as ratings in the row of the genome, unless they are of
\* an earlier generation: a response is a receipt.
ReportRecorded ==
  \A r \in Runners : serving = r /\ reply # NoReply /\ gen[r] = s.generation =>
    \A i \in Rows :
      s.population[i] \in held[r] => s.results[i] = s.population[i].fit

\* A report that carries the trainer's own generation is about its own
\* population: "unknown genome id" only comes with "unexpected generation"
\* (trainer_app_server_outcomes.cpp:177, 195), although a killed trainer may
\* breed a generation of the same number once more.
LabelTellsPopulation ==
  \A r \in Runners : gen[r] = s.generation => held[r] \subseteq Population

Ratable == \A g \in Population : Complete(g.fit)

\* A generation whose genomes all have ratings is completed at some time,
\* although outcomes and responses are lost, runners die with the genomes
\* they have and the trainer forgets all ratings when it is killed; unless
\* the kill has torn the file.
GenerationCompletes ==
  \A n \in 0 .. MaxGeneration - 1 :
    (s.generation = n /\ Ratable) ~>
      (s.generation # n \/ ~Ratable \/ status = "refused")

=============================================================================
