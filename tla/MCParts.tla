-------------------------------- MODULE MCParts --------------------------------
(***************************************************************************)
(* The parts that meet the rest of the system only through what they leave  *)
(* behind (a session, a new population, a case, a text, a file) in one run:  *)
(* a behaviour is a behaviour of one of them, or of Trainer for a session    *)
(* whose genomes are all elite; the others rest in a state of their own.     *)
(***************************************************************************)
EXTENDS Setup, Breeding, RandomEngine, SessionExport, LandingCase, MCSimulation,
        ReplayExporter, Codec, Framing, Trainer

VARIABLE part

Parts == {"setup", "breeding", "engine", "export", "case", "simulation",
          "exporter", "codec", "framing", "trainer"}
PartsInit ==
  /\ part \in Parts
  /\ SetupInit /\ BreedInit /\ EngineInit /\ ExportInit /\ CaseInit /\ FramingInit
  /\ Init /\ (part # "trainer" => s = CHOOSE t \in FreshStates : TRUE)
  /\ SimulationInit /\ (part # "simulation" => lander = CHOOSE t \in turn_zero : TRUE)
  /\ ExporterInit /\ (part # "exporter" => held = 0)
  /\ CodecInit /\ (part # "codec" => written = [n |-> 2, raw |-> <<0, 0, 0, 0>>])

OneOf(p, itsNext, itsVars) == IF part = p THEN itsNext ELSE UNCHANGED itsVars
PartsNext ==
  /\ UNCHANGED part
  /\ OneOf("setup", SetupNext, setupVars)
  /\ OneOf("breeding", BreedNext, breedVars)
  /\ OneOf("engine", EngineNext, engineVars)
  /\ OneOf("export", ExportNext, exportVars)
  /\ OneOf("case", CaseNext, caseVars)
  /\ OneOf("simulation", SimulationNext, simulationVars)
  /\ OneOf("exporter", ExporterNext, exporterVars)
  /\ OneOf("codec", CodecNext, codecVars)
  /\ OneOf("framing", FramingNext, framingVars)
  /\ OneOf("trainer", Next, vars)

\* The replies with which values are given, in hundredths.
MCValues == {<<>>, <<0>>, <<50>>, <<100>>, <<50, 150>>, <<150, 50>>, <<0, 0, 0>>,
             <<50, 0, 100>>, <<-50, 0, 100>>, <<100, 150, 50>>, <<50, 150, 200>>,
             <<0, 50, 100, 150>>, <<0, 50, 200, 150>>}

\* Sessions with every crossover and every mutation, and with zero to two elite.
MCSession(elite, xvr, mtn, tournament) ==
  [elite |-> elite, xvr |-> xvr, mtn |-> mtn, tournament |-> tournament]
MCSessions == {MCSession(1, "heuristic", "power", 2), MCSession(1, "intermediate", "disabled", 1),
               MCSession(1, "scattered", "uniform", 1), MCSession(2, "intermediate", "power", 1),
               MCSession(2, "laplace", "gaussian", 1), MCSession(0, "laplace", "disabled", 1)}
\* All alike, in reverse, and with a tie.
MCScores == {[i \in 0 .. 2 |-> 1], [i \in 0 .. 2 |-> 2 - i], [i \in 0 .. 2 |-> IF i = 1 THEN 0 ELSE 1]}
MCGenes == [i \in 0 .. 2 |-> 8 * i]
=============================================================================
