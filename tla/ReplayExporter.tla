----------------------------- MODULE ReplayExporter -----------------------------
(***************************************************************************)
(* The runner's replay_exporter: every landed game is handed to a saver, an *)
(* asynchronous task that waits for the saver before it, removes the oldest *)
(* files of the directory and writes its own.  do_export never waits, so any *)
(* number of savers may be under way.                                       *)
(***************************************************************************)
EXTENDS Integers, Sequences, SequencesExt

CONSTANTS
  max_count,      \* --keep-replays
  each,           \* of every how many landings one is saved
  old_files,      \* the numbers of files the directory may hold at the start
  MaxSaves        \* bound on the savers of a run

ASSUME ReplayExporterAssumption ==
  max_count \in Nat \ {0} /\ each \in Nat \ {0} /\ old_files \subseteq Nat /\ MaxSaves \in Nat

VARIABLES
  landings,       \* _times
  savers,         \* the savers so far; each holds the future of the one before
  files,          \* the replays directory, oldest first: above 0, the saver that wrote it
  faults,         \* the system calls that have failed so far
  held            \* how many files were there at the start

exporterVars == <<landings, savers, files, faults, held>>

NewSaver == [at |-> "made", entries |-> <<>>, left |-> 0]
ExporterInit ==
  /\ landings = 0 /\ savers = <<>> /\ faults = {}
  /\ held \in old_files /\ files = [n \in 1 .. held |-> n - held]

\* do_export at the end of a game.
DoExport(o) ==
  /\ Len(savers) < MaxSaves
  /\ IF o # "Landed" THEN UNCHANGED <<landings, savers>>
     ELSE IF landings + 1 # each THEN landings' = landings + 1 /\ UNCHANGED savers
     ELSE landings' = 0 /\ savers' = Append(savers, NewSaver)
  /\ UNCHANGED <<files, faults>>

At(k, at) == savers' = [savers EXCEPT ![k].at = at]

\* create_directories comes before the wait: a saver it fails is over at once.
CreateDirectories(k, ok) ==
  /\ savers[k].at = "made"
  /\ At(k, IF ok THEN "waits" ELSE "over")
  /\ faults' = IF ok THEN faults ELSE faults \cup {"create"}
  /\ UNCHANGED <<landings, files>>

\* Mutant of LastSaveOver: nobody waits.
LastSaveOver_NoWait(k) == TRUE
\* last_save.wait()
LastSaveOver(k) == k > 1 => savers[k - 1].at = "over"

\* remove_excessive_files up to its loop: what is in the directory now.  If it
\* cannot be told, remove_excessive_files throws, and nothing is written.
Enumerate(k, ok) ==
  /\ savers[k].at = "waits" /\ LastSaveOver(k)
  /\ savers' = [savers EXCEPT ![k] =
       [@ EXCEPT !.at = IF ~ok THEN "over" ELSE IF Len(files) < max_count THEN "writes" ELSE "removes",
                 !.entries = files, !.left = Len(files)]]
  /\ faults' = IF ok THEN faults ELSE faults \cup {"list"}
  /\ UNCHANGED <<landings, files>>

\* One turn of the loop.  A failed removal is passed over; only if the last one
\* of the list fails does remove_excessive_files throw, and nothing is written.
RemoveOldest(k, ok) ==
  /\ savers[k].at = "removes"
  /\ LET found == {n \in DOMAIN files : files[n] = Head(savers[k].entries)}
         there == found # {}
         left == savers[k].left - (IF ok /\ there THEN 1 ELSE 0)
         rest == Tail(savers[k].entries)
     IN  /\ ~ok => there
         /\ \/ ok /\ \E n \in found : files' = RemoveAt(files, n)
            \/ ~(ok /\ there) /\ UNCHANGED files
         /\ savers' = [savers EXCEPT ![k] =
              [@ EXCEPT !.entries = rest, !.left = left,
                        !.at = IF ok /\ there /\ left < max_count THEN "writes"
                               ELSE IF rest # <<>> THEN "removes"
                               ELSE IF ok THEN "writes" ELSE "over"]]
  /\ faults' = IF ok THEN faults ELSE faults \cup {"remove"}
  /\ UNCHANGED landings

\* The file, and the end of the task.
SaveReplay(k, ok) ==
  /\ savers[k].at = "writes"
  /\ At(k, "over")
  /\ files' = IF ok THEN Append(files, k) ELSE files
  /\ faults' = IF ok THEN faults ELSE faults \cup {"write"}
  /\ UNCHANGED landings

ExporterNext ==
  /\ \/ \E o \in {"Landed", "Crashed"} : DoExport(o)
     \/ \E k \in DOMAIN savers :
          \E ok \in BOOLEAN :
            CreateDirectories(k, ok) \/ Enumerate(k, ok) \/ RemoveOldest(k, ok) \/ SaveReplay(k, ok)
  /\ UNCHANGED held
ExporterSpec == ExporterInit /\ [][ExporterNext]_exporterVars

-----------------------------------------------------------------------------
\* "Keep N last successful landing replays": however many savers are under way
\* and whatever else fails, as long as the directory could be made
\*  - one saver at a time is in the directory;
\*  - it never grows past N files, or past what it held at the start;
\*  - the files are in the order of the games, and while nothing has failed
\*    a saver that is over leaves at most N files, and no replay is missing
\*    that is newer than one still there.
\* (do_export's chain of futures, remove_excessive_files.)
Working == {k \in DOMAIN savers : savers[k].at \in {"removes", "writes"}}
Over == {k \in DOMAIN savers : savers[k].at = "over"}
Kept == {files[n] : n \in DOMAIN files}
LastReplaysKept ==
  "create" \notin faults =>
    /\ \A j, k \in Working : j = k
    /\ Len(files) <= max_count \/ Len(files) <= held
    /\ \A m, n \in DOMAIN files : m < n => files[m] < files[n]
    /\ faults = {} =>
         /\ Over # {} => Len(files) <= max_count
         /\ \A j \in Over : (\E f \in Kept : 0 < f /\ f < j) => j \in Kept
=============================================================================
