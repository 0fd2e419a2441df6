----------------------------- MODULE Persistence -----------------------------
(***************************************************************************)
(* How app_state reaches training.dat and comes back:                      *)
(* app::persist_state and app::check_integrity                             *)
(* (trainer_app_persistency.cpp) and the decisions of app::do_init         *)
(* (trainer_app_init.cpp).                                                 *)
(*                                                                         *)
(* A file is a checksum word and the blocks that follow it.  A block is    *)
(* abstracted to the snapshot it is part of and its place; a checksum is   *)
(* the sequence of blocks it was computed from, that is, it tells any two  *)
(* contents apart, and the placeholder 0 is the checksum of no block.      *)
(* The stream flushes its buffer when it likes, and the process may be     *)
(* killed between any two steps: what has been flushed stays.              *)
(***************************************************************************)
EXTENDS Naturals, Sequences

CONSTANTS
  Cwd,            \* the directory persist_state writes to
  DataDir,        \* get_data_path(): the directory do_init reads from
  Dirs,
  Blocks,         \* blocks of a snapshot
  MaxSession,     \* bound on the sessions begun
  MaxGeneration,  \* bound on the generations of a session
  NoFile, Torn, NoState

Snapshots == [check : 1 .. MaxSession, generation : 0 .. MaxGeneration]

Block == Snapshots \X (1 .. Blocks)
BlocksOf(v) == [i \in 1 .. Blocks |-> <<v, i>>]
Content == [cs : Seq(Block), data : Seq(Block)]
Empty == [cs |-> <<>>, data |-> <<>>]

ASSUME PersistenceAssumption ==
  /\ Cwd \in Dirs /\ DataDir \in Dirs
  /\ Blocks \in Nat \ {0}
  /\ {NoFile, Torn, NoState} \cap Snapshots = {}
  /\ NoFile \notin Content
  /\ MaxSession \in Nat /\ MaxGeneration \in Nat

VARIABLES
  disk,      \* disk[d]: training.dat of directory d, NoFile or a content
  phase,     \* where the process is
  live,      \* what the next or current write is about
  written,   \* the blocks put into the stream so far
  sum,       \* cs, the checksum found when the stream is read back
  sessions,  \* sessions begun so far
  cut,       \* history: a kill has cut the last write short
  lost       \* history: whole snapshots truncated by a session not their own,
             \* without a question to the user

vars == <<disk, phase, live, written, sum, sessions, cut, lost>>
history == <<cut, lost>>

Phases == {"down", "refused", "idle", "opening", "writing", "sealing"}
Saving == {"opening", "writing", "sealing"}

Init ==
  /\ disk = [d \in Dirs |-> NoFile]
  /\ phase = "down"
  /\ live = NoState
  /\ written = <<>> /\ sum = <<>>
  /\ sessions = 0
  /\ cut = FALSE /\ lost = {}

-----------------------------------------------------------------------------
(* do_init *)

\* Mutant of Integrity: the checksum is not compared.
Integrity_Any(f) == f # Empty

\* app::check_integrity.  In an empty file the checksum cannot be read, and
\* the seek back to where the reading failed leaves the failbit set.
Integrity(f) == f # Empty /\ f.cs = f.data

\* app_state::read: the snapshot of a content that has passed the check,
\* Torn if it is not the blocks of one snapshot.
Decoded(f) ==
  LET v == f.data[1][1] IN IF f.data = BlocksOf(v) THEN v ELSE Torn

\* Mutant of FromScratch: --init does not ask.
FromScratch_NotAsked(init_flag, yes) == disk[DataDir] = NoFile \/ init_flag

\* With a file there, only --init and the user's answer begin a new session.
FromScratch(init_flag, yes) == disk[DataDir] = NoFile \/ (init_flag /\ yes)

DoInitFromScratch(init_flag, yes) ==
  /\ FromScratch(init_flag, yes)
  /\ sessions < MaxSession
  /\ sessions' = sessions + 1
  /\ live' = [check |-> sessions + 1, generation |-> 0]
  /\ phase' = "opening"
  /\ lost' = IF disk[Cwd] # NoFile /\ Integrity(disk[Cwd]) /\ ~yes
               THEN lost \cup {Decoded(disk[Cwd])} ELSE lost
  /\ UNCHANGED <<disk, written, sum, cut>>

DoInitFromFile(init_flag, yes) ==
  /\ ~FromScratch(init_flag, yes)
  /\ Integrity(disk[DataDir])
  /\ live' = Decoded(disk[DataDir])
  /\ phase' = "idle"
  /\ UNCHANGED <<disk, written, sum, sessions, history>>

\* "training.dat is corrupted." and exit(-3).
Refuse(init_flag, yes) ==
  /\ ~FromScratch(init_flag, yes)
  /\ ~Integrity(disk[DataDir])
  /\ phase' = "refused"
  /\ UNCHANGED <<disk, live, written, sum, sessions, history>>

\* A start, with or without --init; the user is asked only if there is a
\* file, and answers as they like.
DoInit ==
  /\ phase \in {"down", "refused"}
  /\ \E init_flag \in BOOLEAN :
     \E yes \in IF init_flag /\ disk[DataDir] # NoFile THEN BOOLEAN ELSE {FALSE} :
       \/ DoInitFromScratch(init_flag, yes)
       \/ DoInitFromFile(init_flag, yes)
       \/ Refuse(init_flag, yes)

-----------------------------------------------------------------------------
(* persist_state *)

\* The handler has bred the next generation and has it written.
NextGeneration ==
  /\ phase = "idle" /\ live.generation < MaxGeneration
  /\ live' = [live EXCEPT !.generation = @ + 1]
  /\ phase' = "opening"
  /\ UNCHANGED <<disk, written, sum, sessions, history>>

\* fstream f(training_filename, ... | trunc): relative to the working
\* directory.  The placeholder for the checksum is in the buffer.
Open ==
  /\ phase = "opening"
  /\ disk' = [disk EXCEPT ![Cwd] = Empty]
  /\ written' = <<>>
  /\ phase' = "writing"
  /\ UNCHANGED <<live, sum, sessions, history>>

\* state.write(f), block by block.
PutBlock ==
  /\ phase = "writing" /\ Len(written) < Blocks
  /\ written' = Append(written, <<live, Len(written) + 1>>)
  /\ UNCHANGED <<disk, phase, live, sum, sessions, history>>

\* The buffer is full: some more of the stream goes to the file.
Flush ==
  /\ phase = "writing"
  /\ \E n \in Len(disk[Cwd].data) + 1 .. Len(written) :
       disk' = [disk EXCEPT ![Cwd].data = SubSeq(written, 1, n)]
  /\ UNCHANGED <<phase, live, written, sum, sessions, history>>

\* Mutant of ReadBack: the put area is not flushed before the reading.
ReadBack_NotFlushed ==
  /\ phase = "writing" /\ Len(written) = Blocks
  /\ sum' = disk[Cwd].data
  /\ disk' = [disk EXCEPT ![Cwd].data = written]
  /\ phase' = "sealing"
  /\ UNCHANGED <<live, written, sessions, history>>

\* find_checksum(f.seekg(data_ofs_beg)): the seek flushes the put area, the
\* checksum is that of what is read back.
ReadBack ==
  /\ phase = "writing" /\ Len(written) = Blocks
  /\ disk' = [disk EXCEPT ![Cwd].data = written]
  /\ sum' = disk'[Cwd].data
  /\ phase' = "sealing"
  /\ UNCHANGED <<live, written, sessions, history>>

\* The checksum is written over the placeholder and the stream destroyed.
Seal ==
  /\ phase = "sealing"
  /\ disk' = [disk EXCEPT ![Cwd].cs = sum]
  /\ phase' = "idle"
  /\ written' = <<>> /\ sum' = <<>>
  /\ cut' = FALSE
  /\ UNCHANGED <<live, sessions, lost>>

Kill ==
  /\ phase \in Saving \cup {"idle"}
  /\ phase' = "down"
  /\ live' = NoState
  /\ written' = <<>> /\ sum' = <<>>
  /\ cut' = (cut \/ phase \in {"writing", "sealing"})
  /\ UNCHANGED <<disk, sessions, lost>>

Next ==
  \/ DoInit \/ NextGeneration
  \/ Open \/ PutBlock \/ Flush \/ ReadBack \/ Seal
  \/ Kill

Spec == Init /\ [][Next]_vars

-----------------------------------------------------------------------------
(* Properties *)

TypeOK ==
  /\ disk \in [Dirs -> Content \cup {NoFile}]
  /\ phase \in Phases
  /\ live \in Snapshots \cup {NoState}
  /\ written \in Seq(Block) /\ sum \in Seq(Block)
  /\ sessions \in 0 .. MaxSession
  /\ cut \in BOOLEAN
  /\ lost \subseteq Snapshots

File(f) ==
  IF f = NoFile THEN NoFile ELSE IF Integrity(f) THEN Decoded(f) ELSE Torn

A == INSTANCE SessionFile WITH
       file <- File(disk[DataDir]), saving <- phase \in Saving

\* However a write is flushed and wherever it is cut, a start finds what the
\* last whole write put there, all of it, or knows the file to be torn: it
\* never works from a prefix, nor from a mixture of two snapshots.
ImplementsSessionFile == A!Spec

\* A start is refused only after a kill has cut a write short.
RefusalMeansKill == phase = "refused" => cut

\* Whenever the trainer can take a request, a start would find the snapshot
\* it works from, although every write truncates the file in place.
RestFindsLast ==
  phase = "idle" =>
    disk[DataDir] # NoFile /\ Integrity(disk[DataDir]) /\ Decoded(disk[DataDir]) = live

\* No session is overwritten by another before the user has agreed to it
\* ("Proceeding with initialization will result in OVERWRITING it."), in
\* whatever directory it is.
AskedBeforeOverwrite == lost = {}

=============================================================================
