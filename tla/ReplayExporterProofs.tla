------------------------- MODULE ReplayExporterProofs -------------------------
(***************************************************************************)
(* The theorem about ReplayExporter, for every number of replays to keep,  *)
(* every directory at the start and any number of savers under way.        *)
(***************************************************************************)
EXTENDS ReplayExporter, SequenceTheorems, TLAPS

-----------------------------------------------------------------------------
(* The inductive invariant *)

Faults == {"create", "list", "remove", "write"}
Savers == [at : {"made", "waits", "removes", "writes", "over"}, entries : Seq(Int), left : Int]

\* Types; the loop of remove_excessive_files has an entry for its next turn.
Typed ==
  /\ landings \in Nat /\ held \in Nat
  /\ faults \in SUBSET Faults
  /\ files \in Seq(Int)
  /\ savers \in Seq(Savers)
  /\ \A k \in DOMAIN savers : savers[k].at = "removes" => savers[k].entries # <<>>

\* A saver that has got past its wait has all the earlier ones behind it.
InTurn ==
  \A k \in DOMAIN savers : savers[k].at \in {"removes", "writes", "over"} =>
    \A j \in DOMAIN savers : j < k => savers[j].at = "over"

\* The replays in the directory are from savers that are over.
FilesAreOver == \A n \in DOMAIN files : files[n] > 0 => files[n] \in Over

Ordered == \A m, n \in DOMAIN files : m < n => files[m] < files[n]

\* The directory has room whenever a saver is about to write.
Bounded ==
  /\ Len(files) <= max_count \/ Len(files) <= held
  /\ \A k \in DOMAIN savers : savers[k].at = "writes" =>
       Len(files) < max_count \/ Len(files) < held

\* What the loop has still to look at is the end of the directory: only the
\* files it could not remove come before it, and its count is of all of them.
Passed(k) == Len(files) - Len(savers[k].entries)
ListIsTail ==
  \A k \in DOMAIN savers : savers[k].at = "removes" =>
    /\ Passed(k) >= 0
    /\ \A n \in 1 .. Len(savers[k].entries) : savers[k].entries[n] = files[Passed(k) + n]
    /\ savers[k].left = Len(files) /\ savers[k].left >= max_count
    /\ faults = {} => Passed(k) = 0

\* While nothing has failed, N files are left, the newest ones.
NewestKept ==
  faults = {} =>
    /\ \A k \in DOMAIN savers : savers[k].at = "writes" => Len(files) < max_count
    /\ Over # {} => Len(files) <= max_count
    /\ \A j \in Over : (\E f \in Kept : 0 < f /\ f < j) => j \in Kept

Orderly ==
  InTurn /\ FilesAreOver /\ Ordered /\ Bounded /\ ListIsTail /\ NewestKept

ExporterInv == Typed /\ ("create" \notin faults => Orderly)

\* That one saver works at a time follows from InTurn; the rest are conjuncts.
LEMMA InvImpliesLastReplaysKept == ExporterInv => LastReplaysKept
  BY DEF ExporterInv, Typed, Orderly, InTurn, Ordered, Bounded, NewestKept, LastReplaysKept, Working

LEMMA InitEstablishesInv == ASSUME ExporterInit PROVE ExporterInv
<1>1. held \in Nat /\ max_count \in Nat /\ DOMAIN files = 1 .. held /\ Len(files) = held /\ files \in Seq(Int)
  BY ReplayExporterAssumption DEF ExporterInit
<1>2. DOMAIN savers = {} /\ savers \in Seq(Savers) /\ landings \in Nat /\ faults = {}
  BY DEF ExporterInit
<1>3. \A n \in DOMAIN files : files[n] = n - held
  BY <1>1 DEF ExporterInit
<1>4. Typed
  BY <1>1, <1>2 DEF Typed
<1>5. Orderly
  BY <1>1, <1>2, <1>3 DEF Orderly, InTurn, FilesAreOver, Ordered, Bounded, ListIsTail, NewestKept, Over
<1> QED  BY <1>4, <1>5 DEF ExporterInv


-----------------------------------------------------------------------------
(* Types *)

\* What RemoveAt leaves: the elements up to n, and those after it one earlier.
LEMMA RemoveAtElements ==
  ASSUME NEW S, NEW seq \in Seq(S), NEW n \in 1 .. Len(seq)
  PROVE  /\ RemoveAt(seq, n) \in Seq(S)
         /\ Len(RemoveAt(seq, n)) = Len(seq) - 1
         /\ \A i \in 1 .. Len(seq) - 1 :
              RemoveAt(seq, n)[i] = IF i < n THEN seq[i] ELSE seq[i + 1]
<1> DEFINE front == SubSeq(seq, 1, n - 1)
           back == SubSeq(seq, n + 1, Len(seq))
<1>0. Len(seq) \in Nat
  OBVIOUS
<1>1. /\ front \in Seq(S) /\ Len(front) = n - 1
      /\ \A i \in 1 .. n - 1 : front[i] = seq[i]
  OBVIOUS
<1>2. /\ back \in Seq(S) /\ Len(back) = Len(seq) - n
      /\ \A i \in 1 .. Len(seq) - n : back[i] = seq[n + i]
  OBVIOUS
<1>3. RemoveAt(seq, n) = front \o back
  BY DEF RemoveAt
<1> HIDE DEF front, back
<1>4. /\ front \o back \in Seq(S) /\ Len(front \o back) = Len(front) + Len(back)
      /\ \A i \in 1 .. Len(front) + Len(back) :
           (front \o back)[i] = IF i <= Len(front) THEN front[i] ELSE back[i - Len(front)]
  BY <1>1, <1>2, ConcatProperties
<1>5. ASSUME NEW i \in 1 .. Len(seq) - 1
      PROVE  (front \o back)[i] = IF i < n THEN seq[i] ELSE seq[i + 1]
  <2>1. CASE i < n  BY <2>1, <1>1, <1>2, <1>4
  <2>2. CASE ~(i < n)
    <3>1. i - (n - 1) \in 1 .. Len(seq) - n /\ n + (i - (n - 1)) = i + 1
      BY <2>2, <1>0
    <3>2. back[i - (n - 1)] = seq[i + 1]
      BY <3>1, <1>2
    <3>3. i \in 1 .. Len(front) + Len(back) /\ ~(i <= Len(front)) /\ Len(front) = n - 1
      BY <2>2, <1>0, <1>1, <1>2
    <3> QED  BY <2>2, <3>2, <3>3, <1>4
  <2> QED  BY <2>1, <2>2
<1> QED  BY <1>1, <1>2, <1>3, <1>4, <1>5

\* Whatever a saver does, it is the only one that moves.
Moves(k, r) ==
  /\ DOMAIN savers' = DOMAIN savers /\ savers' \in Seq(Savers)
  /\ savers'[k] = r
  /\ \A j \in DOMAIN savers : j # k => savers'[j] = savers[j]

LEMMA OneMoves ==
  ASSUME Typed, NEW k \in DOMAIN savers, NEW r \in Savers, savers' = [savers EXCEPT ![k] = r]
  PROVE  Moves(k, r)
  BY DEF Typed, Moves

LEMMA AtMoves ==
  ASSUME Typed, NEW k \in DOMAIN savers,
         NEW at \in {"made", "waits", "removes", "writes", "over"}, At(k, at)
  PROVE  Moves(k, [savers[k] EXCEPT !.at = at])
<1>1. savers[k] \in Savers  BY DEF Typed
<1>2. [savers[k] EXCEPT !.at = at] \in Savers  BY <1>1 DEF Savers
<1>3. savers' = [savers EXCEPT ![k] = [savers[k] EXCEPT !.at = at]]  BY DEF At
<1> QED  BY <1>2, <1>3, OneMoves

\* What Enumerate makes of a saver.
Listing(k, ok) ==
  [savers[k] EXCEPT !.at = IF ~ok THEN "over" ELSE IF Len(files) < max_count THEN "writes" ELSE "removes",
                    !.entries = files, !.left = Len(files)]
LEMMA EnumerateMoves ==
  ASSUME Typed, NEW k \in DOMAIN savers, NEW ok \in BOOLEAN, Enumerate(k, ok)
  PROVE  Moves(k, Listing(k, ok))
<1>1. savers[k] \in Savers  BY DEF Typed
<1>2. files \in Seq(Int) /\ Len(files) \in Int  BY DEF Typed
<1>3. Listing(k, ok) \in Savers  BY <1>1, <1>2 DEF Savers, Listing
<1>4. savers' = [savers EXCEPT ![k] = Listing(k, ok)]  BY DEF Enumerate, Listing
<1> QED  BY <1>3, <1>4, OneMoves

\* What RemoveOldest makes of a saver, and of the directory.
Found(k) == {n \in DOMAIN files : files[n] = Head(savers[k].entries)}
Remains(k, ok) == savers[k].left - (IF ok /\ Found(k) # {} THEN 1 ELSE 0)
Next_at(k, ok) ==
  IF ok /\ Found(k) # {} /\ Remains(k, ok) < max_count THEN "writes"
  ELSE IF Tail(savers[k].entries) # <<>> THEN "removes"
  ELSE IF ok THEN "writes" ELSE "over"
Turned(k, ok) ==
  [savers[k] EXCEPT !.entries = Tail(savers[k].entries), !.left = Remains(k, ok), !.at = Next_at(k, ok)]
LEMMA RemoveOldestMoves ==
  ASSUME Typed, NEW k \in DOMAIN savers, NEW ok \in BOOLEAN, RemoveOldest(k, ok)
  PROVE  /\ Moves(k, Turned(k, ok))
         /\ \/ ok /\ \E n \in Found(k) : files' = RemoveAt(files, n)
            \/ ~(ok /\ Found(k) # {}) /\ UNCHANGED files
         /\ ~ok => Found(k) # {}
<1>1. savers[k] \in Savers /\ savers[k].entries # <<>>
  BY DEF Typed, RemoveOldest
<1>2. Tail(savers[k].entries) \in Seq(Int)
  BY <1>1 DEF Savers
<1>3. Remains(k, ok) \in Int
  BY <1>1 DEF Savers, Remains
<1>4. Next_at(k, ok) \in {"made", "waits", "removes", "writes", "over"}
  BY DEF Next_at
<1>5. Turned(k, ok) \in Savers
  BY <1>1, <1>2, <1>3, <1>4 DEF Savers, Turned
<1>6. savers' = [savers EXCEPT ![k] = Turned(k, ok)]
  BY DEF RemoveOldest, Turned, Next_at, Remains, Found
<1>7. Moves(k, Turned(k, ok))  BY <1>5, <1>6, OneMoves
<1> QED  BY <1>7 DEF RemoveOldest, Found


LEMMA TypedStep == ASSUME Typed, [ExporterNext]_exporterVars PROVE Typed'
<1>1. ASSUME NEW o \in {"Landed", "Crashed"}, DoExport(o), held' = held PROVE Typed'
  <2>1. NewSaver \in Savers /\ NewSaver.at = "made"
    BY EmptySeq DEF NewSaver, Savers
  <2>2. landings' \in Nat /\ (savers' = savers \/ savers' = Append(savers, NewSaver))
    BY <1>1, ReplayExporterAssumption DEF DoExport, Typed
  <2>3. savers' \in Seq(Savers)
    BY <2>1, <2>2 DEF Typed
  <2>4. ASSUME NEW k \in DOMAIN savers', savers'[k].at = "removes"
        PROVE  savers'[k].entries # <<>>
    <3>1. CASE savers' = savers  BY <3>1, <2>4 DEF Typed
    <3>2. CASE savers' = Append(savers, NewSaver)
      <4>1. (k \in DOMAIN savers /\ savers'[k] = savers[k]) \/ savers'[k] = NewSaver
        BY <3>2 DEF Typed
      <4> QED  BY <4>1, <2>1, <2>4 DEF Typed
    <3> QED  BY <2>2, <3>1, <3>2
  <2> QED  BY <1>1, <2>2, <2>3, <2>4 DEF Typed, DoExport
<1>2. ASSUME NEW k \in DOMAIN savers, NEW ok \in BOOLEAN, CreateDirectories(k, ok), held' = held
      PROVE  Typed'
  <2>1. Moves(k, [savers[k] EXCEPT !.at = IF ok THEN "waits" ELSE "over"])
    BY <1>2, AtMoves DEF CreateDirectories
  <2>2. savers[k] \in Savers  BY DEF Typed
  <2> QED  BY <1>2, <2>1, <2>2 DEF Typed, CreateDirectories, Moves, Faults, Savers
<1>3. ASSUME NEW k \in DOMAIN savers, NEW ok \in BOOLEAN, Enumerate(k, ok), held' = held
      PROVE  Typed'
  <2>1. Moves(k, Listing(k, ok))  BY <1>3, EnumerateMoves
  <2>2. savers[k] \in Savers  BY DEF Typed
  <2>3. Listing(k, ok).entries = files
    BY <2>2 DEF Listing, Savers
  <2>4. Listing(k, ok).at = "removes" => Len(files) >= 1
    BY <2>2, ReplayExporterAssumption DEF Listing, Savers, Typed
  <2>5. \A j \in DOMAIN savers' : savers'[j].at = "removes" => savers'[j].entries # <<>>
    BY <2>1, <2>3, <2>4 DEF Typed, Moves
  <2> QED  BY <1>3, <2>1, <2>5 DEF Typed, Enumerate, Moves, Faults
<1>4. ASSUME NEW k \in DOMAIN savers, NEW ok \in BOOLEAN, RemoveOldest(k, ok), held' = held
      PROVE  Typed'
  <2>1. Moves(k, Turned(k, ok))  BY <1>4, RemoveOldestMoves
  <2>2. files' \in Seq(Int)
    BY <1>4, RemoveOldestMoves, RemoveAtElements DEF Typed, Found
  <2>3. Turned(k, ok).at = "removes" => Turned(k, ok).entries # <<>>
    <3>1. savers[k] \in Savers  BY DEF Typed
    <3>2. Turned(k, ok).at = Next_at(k, ok) /\ Turned(k, ok).entries = Tail(savers[k].entries)
      BY <3>1 DEF Turned, Savers
    <3> QED  BY <3>2 DEF Next_at
  <2>4. \A j \in DOMAIN savers' : savers'[j].at = "removes" => savers'[j].entries # <<>>
    BY <2>1, <2>3 DEF Typed, Moves
  <2> QED  BY <1>4, <2>1, <2>2, <2>4 DEF Typed, RemoveOldest, Moves, Faults
<1>5. ASSUME NEW k \in DOMAIN savers, NEW ok \in BOOLEAN, SaveReplay(k, ok), held' = held
      PROVE  Typed'
  <2>1. Moves(k, [savers[k] EXCEPT !.at = "over"])
    BY <1>5, AtMoves DEF SaveReplay
  <2>2. savers[k] \in Savers /\ k \in Int  BY DEF Typed
  <2>3. files' \in Seq(Int)  BY <1>5, <2>2 DEF Typed, SaveReplay
  <2> QED  BY <1>5, <2>1, <2>2, <2>3 DEF Typed, SaveReplay, Moves, Faults, Savers
<1>6. CASE UNCHANGED exporterVars
  BY <1>6 DEF Typed, exporterVars
<1> QED  BY <1>1, <1>2, <1>3, <1>4, <1>5, <1>6 DEF ExporterNext

-----------------------------------------------------------------------------
(* The chain of futures *)

\* A saver with the earlier ones behind it works alone, and keeps them behind.
LEMMA WorksAlone ==
  ASSUME Typed, InTurn, NEW k \in DOMAIN savers, savers[k].at # "over",
         \A j \in DOMAIN savers : j < k => savers[j].at = "over",
         NEW r \in Savers, Moves(k, r), r.at \in {"removes", "writes", "over"}
  PROVE  /\ InTurn'
         /\ \A j \in DOMAIN savers' : savers'[j].at \in {"removes", "writes"} => j = k
         /\ Over' = Over \cup (IF r.at = "over" THEN {k} ELSE {})
         /\ \A j \in Over : j < k
<1>1. k \in Int /\ DOMAIN savers \subseteq Int
  BY DEF Typed
<1>2. \A j \in DOMAIN savers : k < j => savers[j].at \notin {"removes", "writes", "over"}
  BY DEF InTurn
<1>3. \A j \in DOMAIN savers : j # k => j < k \/ k < j
  BY <1>1
<1> QED  BY <1>1, <1>2, <1>3 DEF InTurn, Moves, Over

LEMMA TurnsBehind ==
  ASSUME Typed, InTurn, NEW k \in DOMAIN savers,
         savers[k].at \in {"removes", "writes"} \/ (savers[k].at = "waits" /\ LastSaveOver(k))
  PROVE  \A j \in DOMAIN savers : j < k => savers[j].at = "over"
<1>1. CASE savers[k].at \in {"removes", "writes"}
  BY <1>1 DEF InTurn
<1>2. CASE savers[k].at = "waits" /\ LastSaveOver(k)
  <2>1. ASSUME NEW j \in DOMAIN savers, j < k PROVE savers[j].at = "over"
    <3>1. k - 1 \in DOMAIN savers /\ savers[k - 1].at = "over" /\ (j = k - 1 \/ j < k - 1)
      BY <1>2, <2>1 DEF LastSaveOver, Typed
    <3> QED  BY <3>1, <2>1 DEF InTurn
  <2> QED  BY <2>1
<1> QED  BY <1>1, <1>2


-----------------------------------------------------------------------------
(* The steps of a saver before its wait is over, and a game's end *)

\* A saver that is made, or that made the directory, disturbs nothing.
LEMMA AsideKeepsOrder ==
  ASSUME Typed, Orderly, Typed', UNCHANGED <<files, faults, held>>,
         DOMAIN savers \subseteq DOMAIN savers',
         \A j \in DOMAIN savers' :
           \/ j \in DOMAIN savers /\ savers'[j] = savers[j]
           \/ savers'[j].at \in {"made", "waits"} /\ (j \in DOMAIN savers => savers[j].at = "made")
  PROVE  Orderly'
<1>1. \A j \in DOMAIN savers : savers[j].at # "made" => savers'[j] = savers[j]
  OBVIOUS
<1>2. \A j \in DOMAIN savers' : savers'[j].at \notin {"made", "waits"} =>
        j \in DOMAIN savers /\ savers'[j] = savers[j]
  OBVIOUS
<1>3. Over' = Over /\ Kept' = Kept
  BY <1>1, <1>2 DEF Over, Kept
<1>4. InTurn'
  <2> SUFFICES ASSUME NEW k \in DOMAIN savers', savers'[k].at \in {"removes", "writes", "over"},
                      NEW j \in DOMAIN savers', j < k
               PROVE  savers'[j].at = "over"
    BY DEF InTurn
  <2>1. k \in DOMAIN savers /\ savers'[k] = savers[k]
    BY <1>2
  <2>2. j \in DOMAIN savers
    BY <2>1 DEF Typed
  <2>3. savers[j].at = "over"
    BY <2>1, <2>2 DEF Orderly, InTurn
  <2> QED  BY <2>2, <2>3, <1>1
<1>5. FilesAreOver' /\ Ordered'
  BY <1>3 DEF Orderly, FilesAreOver, Ordered
<1>6. Bounded'
  BY <1>2 DEF Orderly, Bounded
<1>7. ListIsTail'
  <2>1. ASSUME NEW j \in DOMAIN savers', savers'[j].at = "removes"
        PROVE  j \in DOMAIN savers /\ savers'[j] = savers[j] /\ Passed(j)' = Passed(j)
    BY <2>1, <1>2 DEF Passed
  <2> QED  BY <2>1 DEF Orderly, ListIsTail
<1>8. NewestKept'
  <2>1. ASSUME faults = {} PROVE \A k \in DOMAIN savers' : savers'[k].at = "writes" => Len(files) < max_count
    BY <2>1, <1>2 DEF Orderly, NewestKept
  <2> QED  BY <2>1, <1>3 DEF Orderly, NewestKept
<1> QED  BY <1>4, <1>5, <1>6, <1>7, <1>8 DEF Orderly

LEMMA DoExportKeepsOrder ==
  ASSUME Typed, Orderly, Typed', NEW o \in {"Landed", "Crashed"}, DoExport(o), held' = held
  PROVE  Orderly'
<1>1. CASE savers' = savers
  BY <1>1, AsideKeepsOrder DEF DoExport
<1>2. CASE savers' = Append(savers, NewSaver)
  <2>1. /\ DOMAIN savers \subseteq DOMAIN savers'
        /\ \A j \in DOMAIN savers' :
             \/ j \in DOMAIN savers /\ savers'[j] = savers[j]
             \/ savers'[j] = NewSaver /\ j \notin DOMAIN savers
    BY <1>2 DEF Typed
  <2>2. NewSaver.at = "made"  BY DEF NewSaver
  <2>3. UNCHANGED <<files, faults, held>>  BY DEF DoExport
  <2> QED  BY <2>1, <2>2, <2>3, AsideKeepsOrder
<1> QED  BY <1>1, <1>2 DEF DoExport

LEMMA CreateDirectoriesKeepsOrder ==
  ASSUME Typed, Orderly, Typed', NEW k \in DOMAIN savers, CreateDirectories(k, TRUE), held' = held
  PROVE  Orderly'
<1>1. Moves(k, [savers[k] EXCEPT !.at = "waits"]) /\ savers[k].at = "made"
  BY AtMoves DEF CreateDirectories
<1>2. [savers[k] EXCEPT !.at = "waits"].at = "waits"
  BY DEF Typed, Savers
<1>3. UNCHANGED <<files, faults, held>>  BY DEF CreateDirectories
<1> QED  BY <1>1, <1>2, <1>3, AsideKeepsOrder DEF Moves

-----------------------------------------------------------------------------
(* The steps of the saver that works *)

LEMMA EnumerateKeepsOrder ==
  ASSUME Typed, Orderly, Typed', NEW k \in DOMAIN savers, NEW ok \in BOOLEAN,
         Enumerate(k, ok), held' = held
  PROVE  Orderly'
<1> DEFINE r == Listing(k, ok)
<1>0. savers[k] \in Savers /\ files \in Seq(Int) /\ Len(files) \in Int
  BY DEF Typed
<1>1. /\ r \in Savers
      /\ r.at = IF ~ok THEN "over" ELSE IF Len(files) < max_count THEN "writes" ELSE "removes"
      /\ r.entries = files /\ r.left = Len(files)
  BY <1>0 DEF Savers, Listing
<1> HIDE DEF r
<1>2. Moves(k, r)  BY EnumerateMoves DEF r
<1>3. savers[k].at = "waits" /\ UNCHANGED <<files, held>> /\ (ok \/ faults' # {}) /\ (faults' = {} => faults = {})
  BY DEF Enumerate
<1>4. \A j \in DOMAIN savers : j < k => savers[j].at = "over"
  BY TurnsBehind DEF Orderly, Enumerate
<1>5. /\ InTurn'
      /\ \A j \in DOMAIN savers' : savers'[j].at \in {"removes", "writes"} => j = k
      /\ Over' = Over \cup (IF r.at = "over" THEN {k} ELSE {})
  BY <1>1, <1>2, <1>3, <1>4, WorksAlone DEF Orderly
<1>6. savers'[k] = r /\ Kept' = Kept
  BY <1>2, <1>3 DEF Moves, Kept
<1>7. FilesAreOver' /\ Ordered'
  BY <1>3, <1>5 DEF Orderly, FilesAreOver, Ordered
<1>8. Len(files) \in Nat /\ max_count \in Nat /\ held \in Nat
  BY ReplayExporterAssumption DEF Typed
<1>9. Bounded'
  BY <1>1, <1>3, <1>5, <1>6 DEF Orderly, Bounded
<1>10. ListIsTail'
  <2> SUFFICES ASSUME NEW j \in DOMAIN savers', savers'[j].at = "removes"
               PROVE  /\ Passed(j)' >= 0
                      /\ \A n \in 1 .. Len(savers'[j].entries) :
                           savers'[j].entries[n] = files'[Passed(j)' + n]
                      /\ savers'[j].left = Len(files') /\ savers'[j].left >= max_count
                      /\ faults' = {} => Passed(j)' = 0
    BY DEF ListIsTail
  <2>1. savers'[j] = r /\ r.at = "removes"
    BY <1>5, <1>6
  <2>2. Passed(j)' = 0
    BY <2>1, <1>1, <1>3, <1>8 DEF Passed
  <2>3. r.left >= max_count
    BY <2>1, <1>1, <1>8
  <2>4. \A n \in 1 .. Len(files) : n = 0 + n
    BY <1>8
  <2> QED  BY <2>1, <2>2, <2>3, <2>4, <1>1, <1>3
<1>11. NewestKept'
  <2> SUFFICES ASSUME faults' = {} PROVE NewestKept'
    BY DEF NewestKept
  <2>1. faults = {} /\ ok /\ Over' = Over
    BY <1>1, <1>3, <1>5
  <2>2. \A j \in DOMAIN savers' : savers'[j].at = "writes" => Len(files') < max_count
    BY <2>1, <1>1, <1>3, <1>5, <1>6
  <2> QED  BY <2>1, <2>2, <1>3, <1>6 DEF Orderly, NewestKept
<1> QED  BY <1>5, <1>7, <1>9, <1>10, <1>11 DEF Orderly


\* The entry whose turn it is is in the directory once, after those passed over.
LEMMA HeadIsFound ==
  ASSUME Typed, Ordered, ListIsTail, NEW k \in DOMAIN savers, savers[k].at = "removes"
  PROVE  /\ Passed(k) \in Nat /\ Passed(k) + 1 \in 1 .. Len(files)
         /\ Found(k) = {Passed(k) + 1}
<1>0. savers[k] \in Savers /\ savers[k].entries # <<>> /\ Len(files) \in Nat
  BY DEF Typed
<1>1. savers[k].entries \in Seq(Int) /\ Len(savers[k].entries) \in Nat /\ Len(savers[k].entries) >= 1
  BY <1>0 DEF Savers
<1>2. Passed(k) \in Nat /\ Passed(k) + 1 \in 1 .. Len(files)
  <2>1. Passed(k) >= 0 /\ Passed(k) = Len(files) - Len(savers[k].entries)
    BY DEF ListIsTail, Passed
  <2> QED  BY <2>1, <1>0, <1>1
<1>3. Head(savers[k].entries) = savers[k].entries[1]
  BY <1>1
<1>4. savers[k].entries[1] = files[Passed(k) + 1]
  BY <1>1 DEF ListIsTail
<1>5. \A n \in DOMAIN files : files[n] = files[Passed(k) + 1] => n = Passed(k) + 1
  <2> SUFFICES ASSUME NEW n \in DOMAIN files, n # Passed(k) + 1 PROVE files[n] # files[Passed(k) + 1]
    OBVIOUS
  <2>1. Passed(k) + 1 \in DOMAIN files /\ files[n] \in Int /\ files[Passed(k) + 1] \in Int
    BY <1>2 DEF Typed
  <2>2. n < Passed(k) + 1 \/ Passed(k) + 1 < n
    BY <1>2 DEF Typed
  <2> QED  BY <2>1, <2>2 DEF Ordered
<1>6. Passed(k) + 1 \in DOMAIN files
  BY <1>2 DEF Typed
<1> QED  BY <1>2, <1>3, <1>4, <1>5, <1>6 DEF Found

\* The fields of a saver after a turn of the loop.
LEMMA TurnedFields ==
  ASSUME Typed, NEW k \in DOMAIN savers, savers[k].at = "removes", NEW ok \in BOOLEAN
  PROVE  /\ Turned(k, ok) \in Savers
         /\ Turned(k, ok).at = Next_at(k, ok) /\ Turned(k, ok).left = Remains(k, ok)
         /\ savers[k].entries \in Seq(Int) /\ Len(savers[k].entries) \in Nat \ {0}
         /\ Len(Turned(k, ok).entries) = Len(savers[k].entries) - 1
         /\ \A n \in 1 .. Len(savers[k].entries) - 1 :
              Turned(k, ok).entries[n] = savers[k].entries[n + 1]
         /\ savers[k].left \in Int
         /\ Tail(savers[k].entries) = <<>> => Len(savers[k].entries) = 1
<1>1. savers[k] \in Savers /\ savers[k].entries # <<>>
  BY DEF Typed
<1>2. savers[k].entries \in Seq(Int) /\ savers[k].left \in Int
  BY <1>1 DEF Savers
<1>3. /\ Tail(savers[k].entries) \in Seq(Int)
      /\ Len(savers[k].entries) \in Nat \ {0}
      /\ Len(Tail(savers[k].entries)) = Len(savers[k].entries) - 1
      /\ \A n \in 1 .. Len(savers[k].entries) - 1 :
           Tail(savers[k].entries)[n] = savers[k].entries[n + 1]
  BY <1>1, <1>2
<1>4. Remains(k, ok) \in Int
  BY <1>2 DEF Remains
<1>5. Next_at(k, ok) \in {"made", "waits", "removes", "writes", "over"}
  BY DEF Next_at
<1>6. /\ Turned(k, ok) \in Savers
      /\ Turned(k, ok).at = Next_at(k, ok) /\ Turned(k, ok).left = Remains(k, ok)
      /\ Turned(k, ok).entries = Tail(savers[k].entries)
  BY <1>1, <1>3, <1>4, <1>5 DEF Savers, Turned
<1>7. Tail(savers[k].entries) = <<>> => Len(savers[k].entries) = 1
  <2>1. Tail(savers[k].entries) = <<>> => Len(Tail(savers[k].entries)) = 0
    BY <1>3, EmptySeq
  <2> QED  BY <2>1, <1>3
<1> QED  BY <1>2, <1>3, <1>6, <1>7


\* A file is removed: what the loop has still to look at moves up by one.
LEMMA RemovalKeepsOrder ==
  ASSUME Typed, Orderly, Typed', NEW k \in DOMAIN savers, RemoveOldest(k, TRUE), held' = held
  PROVE  Orderly'
<1> DEFINE r == Turned(k, TRUE)
           p == Passed(k)
<1>1. savers[k].at = "removes" /\ faults' = faults
  BY DEF RemoveOldest
<1>2. /\ r \in Savers /\ r.at = Next_at(k, TRUE) /\ r.left = Remains(k, TRUE)
      /\ Len(savers[k].entries) \in Nat \ {0}
      /\ Len(r.entries) = Len(savers[k].entries) - 1
      /\ \A n \in 1 .. Len(savers[k].entries) - 1 : r.entries[n] = savers[k].entries[n + 1]
      /\ savers[k].left \in Int
      /\ Tail(savers[k].entries) = <<>> => Len(savers[k].entries) = 1
  BY <1>1, TurnedFields
<1>3. p \in Nat /\ p + 1 \in 1 .. Len(files) /\ Found(k) = {p + 1}
  BY <1>1, HeadIsFound DEF Orderly
<1>4. /\ savers[k].left = Len(files) /\ savers[k].left >= max_count /\ (faults = {} => p = 0)
      /\ \A n \in 1 .. Len(savers[k].entries) : savers[k].entries[n] = files[p + n]
      /\ p = Len(files) - Len(savers[k].entries)
  BY <1>1 DEF Orderly, ListIsTail, Passed
<1>5. Moves(k, r) /\ files' = RemoveAt(files, p + 1)
  BY <1>3, RemoveOldestMoves
<1>6. /\ files \in Seq(Int) /\ Len(files) \in Nat /\ Len(files') = Len(files) - 1
      /\ DOMAIN files = 1 .. Len(files) /\ DOMAIN files' = 1 .. Len(files) - 1
      /\ \A i \in 1 .. Len(files) - 1 : files'[i] = IF i < p + 1 THEN files[i] ELSE files[i + 1]
  <2>1. files \in Seq(Int) /\ files' \in Seq(Int)
    BY DEF Typed
  <2>2. /\ Len(files') = Len(files) - 1
        /\ \A i \in 1 .. Len(files) - 1 : files'[i] = IF i < p + 1 THEN files[i] ELSE files[i + 1]
    BY <2>1, <1>3, <1>5, RemoveAtElements
  <2> QED  BY <2>1, <2>2
<1>7. /\ Remains(k, TRUE) = Len(files') /\ r.left = Len(files')
      /\ r.at \in {"removes", "writes"}
      /\ r.at = "removes" => ~(Len(files') < max_count)
      /\ r.at = "writes" => Len(files') < max_count \/ Tail(savers[k].entries) = <<>>
  <2>1. Remains(k, TRUE) = Len(files')
    BY <1>2, <1>3, <1>4, <1>6 DEF Remains
  <2>2. Found(k) # {}
    BY <1>3
  <2>3. /\ Next_at(k, TRUE) \in {"removes", "writes"}
        /\ Next_at(k, TRUE) = "removes" => ~(Remains(k, TRUE) < max_count)
        /\ Next_at(k, TRUE) = "writes" => Remains(k, TRUE) < max_count \/ Tail(savers[k].entries) = <<>>
    BY <2>2 DEF Next_at
  <2> QED  BY <1>2, <2>1, <2>3
<1> HIDE DEF r, p
<1>8. /\ InTurn'
      /\ \A j \in DOMAIN savers' : savers'[j].at \in {"removes", "writes"} => j = k
      /\ Over' = Over
  <2>1. r.at \in {"removes", "writes"}  BY <1>7
  <2>2. \A j \in DOMAIN savers : j < k => savers[j].at = "over"
    <3>1. InTurn /\ savers[k].at \in {"removes", "writes"}
      BY <1>1 DEF Orderly
    <3>2. savers[k].at \in {"removes", "writes"} \/ (savers[k].at = "waits" /\ LastSaveOver(k))
      BY <3>1
    <3> QED  BY <3>1, <3>2, TurnsBehind
  <2>3. /\ InTurn'
        /\ \A j \in DOMAIN savers' : savers'[j].at \in {"removes", "writes"} => j = k
        /\ Over' = Over \cup (IF r.at = "over" THEN {k} ELSE {})
    BY <1>1, <1>2, <1>5, <2>1, <2>2, WorksAlone DEF Orderly
  <2> QED  BY <2>1, <2>3
<1>9. savers'[k] = r  BY <1>5 DEF Moves
<1>10. max_count \in Nat \ {0} /\ held \in Nat
  BY ReplayExporterAssumption DEF Typed
\* Where a file that stays was before, in the same order.
<1>11. \A i \in DOMAIN files' : \E m \in DOMAIN files :
         files'[i] = files[m] /\ m = IF i < p + 1 THEN i ELSE i + 1
  <2> TAKE i \in DOMAIN files'
  <2>1. CASE i < p + 1  BY <2>1, <1>3, <1>6
  <2>2. CASE ~(i < p + 1)  BY <2>2, <1>3, <1>6
  <2> QED  BY <2>1, <2>2
<1>12. FilesAreOver'
  BY <1>8, <1>11 DEF Orderly, FilesAreOver
<1>13. Ordered'
  <2> SUFFICES ASSUME NEW i \in DOMAIN files', NEW j \in DOMAIN files', i < j
               PROVE  files'[i] < files'[j]
    BY DEF Ordered
  <2>1. PICK m \in DOMAIN files : files'[i] = files[m] /\ m = IF i < p + 1 THEN i ELSE i + 1
    BY <1>11
  <2>2. PICK n \in DOMAIN files : files'[j] = files[n] /\ n = IF j < p + 1 THEN j ELSE j + 1
    BY <1>11
  <2>3. m < n
    BY <2>1, <2>2, <1>3, <1>6
  <2> QED  BY <2>1, <2>2, <2>3 DEF Orderly, Ordered
<1>14. Len(files') < max_count \/ Len(files') < held
  BY <1>6, <1>10 DEF Orderly, Bounded
<1>15. Bounded'
  BY <1>14, <1>6, <1>10 DEF Bounded
<1>16. ListIsTail'
  <2> SUFFICES ASSUME NEW j \in DOMAIN savers', savers'[j].at = "removes"
               PROVE  /\ Passed(j)' >= 0
                      /\ \A n \in 1 .. Len(savers'[j].entries) :
                           savers'[j].entries[n] = files'[Passed(j)' + n]
                      /\ savers'[j].left = Len(files') /\ savers'[j].left >= max_count
                      /\ faults' = {} => Passed(j)' = 0
    BY DEF ListIsTail
  <2>1. savers'[j] = r /\ r.at = "removes"
    BY <1>8, <1>9
  <2>2. Passed(j)' = p
    BY <2>1, <1>2, <1>4, <1>6 DEF Passed
  <2>3. r.left = Len(files') /\ r.left >= max_count
    <3>1. Len(files') \in Int  BY <1>6
    <3> QED  BY <3>1, <2>1, <1>7, <1>10
  <2>4. ASSUME NEW n \in 1 .. Len(savers[k].entries) - 1 PROVE r.entries[n] = files'[p + n]
    <3>1. Len(savers[k].entries) \in Nat /\ n \in Nat /\ n + 1 \in 1 .. Len(savers[k].entries)
      BY <1>2
    <3>2. r.entries[n] = savers[k].entries[n + 1]
      BY <1>2
    <3>3. savers[k].entries[n + 1] = files[p + (n + 1)]
      BY <3>1, <1>4
    <3>4. p + n \in 1 .. Len(files) - 1 /\ ~(p + n < p + 1) /\ p + (n + 1) = (p + n) + 1
      <4>1. Len(files) \in Nat /\ p \in Nat
        BY <1>3, <1>6
      <4>2. p = Len(files) - Len(savers[k].entries)
        BY <1>4
      <4>3. n \in Nat /\ 1 <= n /\ n <= Len(savers[k].entries) - 1
        BY <3>1
      <4>4. p + n >= 1 /\ p + n <= Len(files) - 1 /\ p + n \in Int
        BY <4>1, <4>2, <4>3, <3>1
      <4> QED  BY <4>1, <4>3, <4>4
    <3>5. files'[p + n] = files[(p + n) + 1]
      BY <3>4, <1>6
    <3> QED  BY <3>2, <3>3, <3>4, <3>5
  <2>5. /\ Len(r.entries) = Len(savers[k].entries) - 1 /\ p >= 0
        /\ faults' = {} => p = 0
    BY <1>1, <1>2, <1>3, <1>4
  <2> QED  BY <2>1, <2>2, <2>3, <2>4, <2>5
<1>17. NewestKept'
  <2> SUFFICES ASSUME faults = {}
               PROVE  /\ \A j \in DOMAIN savers' : savers'[j].at = "writes" => Len(files') < max_count
                      /\ Over # {} => Len(files') <= max_count
                      /\ \A j \in Over : (\E f \in Kept' : 0 < f /\ f < j) => j \in Kept'
    BY <1>1, <1>8 DEF NewestKept
  <2>1. p = 0  BY <1>4
  <2>2. r.at = "writes" => Len(files') < max_count
    <3>1. Tail(savers[k].entries) = <<>> => Len(files') = 0
      BY <2>1, <1>2, <1>4, <1>6
    <3> QED  BY <3>1, <1>7, <1>10
  <2>3. \A j \in DOMAIN savers' : savers'[j].at = "writes" => Len(files') < max_count
    BY <2>2, <1>8, <1>9
  <2>4. Over # {} => Len(files') <= max_count
    BY <1>6, <1>10 DEF Orderly, NewestKept
  <2>5. ASSUME NEW j \in Over, NEW f \in Kept', 0 < f, f < j PROVE j \in Kept'
    <3>1. PICK i \in DOMAIN files' : f = files'[i]
      BY <2>5 DEF Kept
    <3>2. i \in 1 .. Len(files) - 1 /\ i + 1 \in DOMAIN files /\ f = files[i + 1]
      BY <3>1, <2>1, <1>6
    <3>3. j \in Kept
      BY <3>2, <2>5 DEF Orderly, NewestKept, Kept
    <3>4. PICK n \in DOMAIN files : j = files[n]
      BY <3>3 DEF Kept
    <3>5. n # 1
      <4> SUFFICES ASSUME n = 1 PROVE FALSE
        OBVIOUS
      <4>1. n < i + 1  BY <3>2, <1>6
      <4>2. j < f  BY <4>1, <3>2, <3>4 DEF Orderly, Ordered
      <4>3. j \in Int /\ f \in Int  BY <3>2, <3>4, <1>6
      <4> QED  BY <4>2, <4>3, <2>5
    <3>6. n - 1 \in DOMAIN files' /\ ~(n - 1 < p + 1) /\ (n - 1) + 1 = n
      BY <3>4, <3>5, <2>1, <1>6
    <3>7. files'[n - 1] = files[n]
      BY <3>6, <1>6
    <3> QED  BY <3>4, <3>6, <3>7 DEF Kept
  <2> QED  BY <2>3, <2>4, <2>5
<1> QED  BY <1>8, <1>12, <1>13, <1>15, <1>16, <1>17 DEF Orderly


\* A file cannot be removed: it is passed over, and something has failed.
LEMMA FailureKeepsOrder ==
  ASSUME Typed, Orderly, Typed', NEW k \in DOMAIN savers, RemoveOldest(k, FALSE), held' = held
  PROVE  Orderly'
<1> DEFINE r == Turned(k, FALSE)
           p == Passed(k)
<1>1. savers[k].at = "removes" /\ faults' # {}
  BY DEF RemoveOldest
<1>2. /\ r \in Savers /\ r.at = Next_at(k, FALSE) /\ r.left = Remains(k, FALSE)
      /\ Len(savers[k].entries) \in Nat \ {0}
      /\ Len(r.entries) = Len(savers[k].entries) - 1
      /\ \A n \in 1 .. Len(savers[k].entries) - 1 : r.entries[n] = savers[k].entries[n + 1]
      /\ savers[k].left \in Int
  BY <1>1, TurnedFields
<1>3. p \in Nat /\ p + 1 \in 1 .. Len(files)
  BY <1>1, HeadIsFound DEF Orderly
<1>4. /\ savers[k].left = Len(files) /\ savers[k].left >= max_count
      /\ \A n \in 1 .. Len(savers[k].entries) : savers[k].entries[n] = files[p + n]
      /\ p = Len(files) - Len(savers[k].entries)
  BY <1>1 DEF Orderly, ListIsTail, Passed
<1>5. Moves(k, r) /\ files' = files
  BY RemoveOldestMoves
<1>6. Len(files) \in Nat
  BY DEF Typed
<1>7. r.left = savers[k].left /\ r.at \in {"removes", "over"}
  <2>1. Remains(k, FALSE) = savers[k].left
    BY <1>2 DEF Remains
  <2>2. Next_at(k, FALSE) \in {"removes", "over"}
    BY DEF Next_at
  <2> QED  BY <1>2, <2>1, <2>2
<1> HIDE DEF r, p
<1>8. /\ InTurn'
      /\ \A j \in DOMAIN savers' : savers'[j].at \in {"removes", "writes"} => j = k
      /\ Over' = Over \cup (IF r.at = "over" THEN {k} ELSE {})
  <2>1. InTurn /\ r.at \in {"removes", "writes", "over"} /\ savers[k].at \in {"removes", "writes"}
    BY <1>1, <1>7 DEF Orderly
  <2>2. \A j \in DOMAIN savers : j < k => savers[j].at = "over"
    BY <2>1, TurnsBehind
  <2> QED  BY <1>1, <1>2, <1>5, <2>1, <2>2, WorksAlone
<1>9. savers'[k] = r  BY <1>5 DEF Moves
<1>10. FilesAreOver' /\ Ordered'
  BY <1>5, <1>8 DEF Orderly, FilesAreOver, Ordered
<1>11. Bounded'
  <2>1. \A j \in DOMAIN savers' : savers'[j].at # "writes"
    BY <1>7, <1>8, <1>9
  <2> QED  BY <2>1, <1>5 DEF Orderly, Bounded
<1>12. ListIsTail'
  <2> SUFFICES ASSUME NEW j \in DOMAIN savers', savers'[j].at = "removes"
               PROVE  /\ Passed(j)' >= 0
                      /\ \A n \in 1 .. Len(savers'[j].entries) :
                           savers'[j].entries[n] = files'[Passed(j)' + n]
                      /\ savers'[j].left = Len(files') /\ savers'[j].left >= max_count
                      /\ faults' = {} => Passed(j)' = 0
    BY DEF ListIsTail
  <2>1. savers'[j] = r
    BY <1>8, <1>9
  <2>2. Passed(j)' = p + 1
    BY <2>1, <1>2, <1>4, <1>5, <1>6 DEF Passed
  <2>3. ASSUME NEW n \in 1 .. Len(savers[k].entries) - 1 PROVE r.entries[n] = files[(p + 1) + n]
    <3>1. n \in Nat /\ n + 1 \in 1 .. Len(savers[k].entries)
      BY <1>2
    <3>2. r.entries[n] = files[p + (n + 1)]
      BY <3>1, <1>2, <1>4
    <3> QED  BY <3>1, <3>2, <1>3
  <2>4. Len(r.entries) = Len(savers[k].entries) - 1
    BY <1>2
  <2>5. r.left = Len(files) /\ r.left >= max_count
    BY <1>4, <1>7
  <2>6. p + 1 >= 0
    BY <1>3
  <2> QED  BY <2>1, <2>2, <2>3, <2>4, <2>5, <2>6, <1>1, <1>5
<1>13. NewestKept'
  BY <1>1 DEF NewestKept
<1> QED  BY <1>8, <1>10, <1>11, <1>12, <1>13 DEF Orderly

LEMMA SaveReplayKeepsOrder ==
  ASSUME Typed, Orderly, Typed', NEW k \in DOMAIN savers, NEW ok \in BOOLEAN,
         SaveReplay(k, ok), held' = held
  PROVE  Orderly'
<1> DEFINE r == [savers[k] EXCEPT !.at = "over"]
<1>0. savers[k] \in Savers
  BY DEF Typed
<1>1. r \in Savers /\ r.at = "over" /\ savers[k].at = "writes"
  BY <1>0 DEF Savers, SaveReplay
<1>2. Moves(k, r)  BY AtMoves DEF SaveReplay
<1>3. /\ files' = IF ok THEN Append(files, k) ELSE files
      /\ faults' = {} => ok /\ faults = {}
  BY DEF SaveReplay
<1> HIDE DEF r
<1>4. \A j \in DOMAIN savers : j < k => savers[j].at = "over"
  <2>1. InTurn /\ savers[k].at \in {"removes", "writes"}
    BY <1>1 DEF Orderly
  <2> QED  BY <2>1, TurnsBehind
<1>5. /\ InTurn'
      /\ \A j \in DOMAIN savers' : savers'[j].at \notin {"removes", "writes"}
      /\ Over' = Over \cup {k} /\ \A j \in Over : j < k
  <2>1. InTurn /\ savers[k].at # "over" /\ r.at \in {"removes", "writes", "over"}
    BY <1>1 DEF Orderly
  <2>2. /\ InTurn'
        /\ \A j \in DOMAIN savers' : savers'[j].at \in {"removes", "writes"} => j = k
        /\ Over' = Over \cup (IF r.at = "over" THEN {k} ELSE {})
        /\ \A j \in Over : j < k
    BY <1>1, <1>2, <1>4, <2>1, WorksAlone
  <2> QED  BY <1>1, <1>2, <2>2 DEF Moves
<1>6. ListIsTail'
  BY <1>5 DEF ListIsTail
<1>7. Len(files) \in Nat /\ max_count \in Nat /\ held \in Nat /\ k \in Nat /\ k > 0
  BY ReplayExporterAssumption DEF Typed
<1>8. (Len(files) < max_count \/ Len(files) < held) /\ (faults = {} => Len(files) < max_count)
  BY <1>1 DEF Orderly, Bounded, NewestKept
<1>9. CASE ~ok
  <2>1. files' = files /\ faults' # {}
    BY <1>3, <1>9
  <2>2. FilesAreOver' /\ Ordered'
    BY <2>1, <1>5 DEF Orderly, FilesAreOver, Ordered
  <2>3. Bounded'
    BY <2>1, <1>5 DEF Orderly, Bounded
  <2>4. NewestKept'
    BY <2>1 DEF NewestKept
  <2> QED  BY <1>5, <1>6, <2>2, <2>3, <2>4 DEF Orderly
<1>10. CASE ok
  <2>1. /\ DOMAIN files' = 1 .. Len(files) + 1 /\ Len(files') = Len(files) + 1
        /\ DOMAIN files = 1 .. Len(files)
        /\ files'[Len(files) + 1] = k /\ \A n \in DOMAIN files : files'[n] = files[n] /\ files[n] \in Int
    BY <1>3, <1>7, <1>10 DEF Typed
  <2>2. \A n \in DOMAIN files' : n \in DOMAIN files \/ n = Len(files) + 1
    BY <2>1, <1>7
  <2>3. \A n \in DOMAIN files : files[n] < k
    <3> TAKE n \in DOMAIN files
    <3>1. CASE files[n] > 0  BY <3>1, <1>5 DEF Orderly, FilesAreOver
    <3>2. CASE ~(files[n] > 0)  BY <3>2, <2>1, <1>7
    <3> QED  BY <3>1, <3>2
  <2>4. FilesAreOver'
    BY <2>1, <2>2, <1>5 DEF Orderly, FilesAreOver
  <2>5. Ordered'
    <3> SUFFICES ASSUME NEW m \in DOMAIN files', NEW n \in DOMAIN files', m < n
                 PROVE  files'[m] < files'[n]
      BY DEF Ordered
    <3>1. m \in DOMAIN files  BY <2>1, <2>2, <1>7
    <3>2. CASE n \in DOMAIN files  BY <3>1, <3>2, <2>1 DEF Orderly, Ordered
    <3>3. CASE n = Len(files) + 1  BY <3>1, <3>3, <2>1, <2>3
    <3> QED  BY <2>2, <3>2, <3>3
  <2>6. Bounded'
    <3>1. Len(files') <= max_count \/ Len(files') <= held
      BY <2>1, <1>7, <1>8
    <3> QED  BY <3>1, <1>5, <1>7 DEF Bounded
  <2>7. Kept' = Kept \cup {k}
    <3>1. Len(files) + 1 \in DOMAIN files' /\ DOMAIN files \subseteq DOMAIN files'
      BY <2>1, <1>7
    <3>2. \A f : f \in Kept' => f \in Kept \cup {k}
      BY <2>1, <2>2 DEF Kept
    <3>3. \A f \in Kept : f \in Kept'
      BY <3>1, <2>1 DEF Kept
    <3>4. k \in Kept'
      BY <3>1, <2>1 DEF Kept
    <3> QED  BY <3>2, <3>3, <3>4
  <2>8. NewestKept'
    <3> SUFFICES ASSUME faults = {}
                 PROVE  /\ Len(files') <= max_count
                        /\ \A j \in Over \cup {k} :
                             (\E f \in Kept' : 0 < f /\ f < j) => j \in Kept'
      BY <1>3, <1>5 DEF NewestKept
    <3>1. Len(files') <= max_count
      BY <2>1, <1>7, <1>8
    <3>2. ASSUME NEW j \in Over, NEW f \in Kept \cup {k}, 0 < f, f < j PROVE j \in Kept
      <4>1. j < k /\ j \in Int  BY <1>5 DEF Over, Typed
      <4>2. f \in Kept  BY <3>2, <4>1, <1>7
      <4> QED  BY <3>2, <4>2 DEF Orderly, NewestKept
    <3> QED  BY <3>1, <3>2, <2>7
  <2> QED  BY <1>5, <1>6, <2>4, <2>5, <2>6, <2>8 DEF Orderly
<1> QED  BY <1>9, <1>10

-----------------------------------------------------------------------------
(* The theorems *)

LEMMA StepKeepsInv == ASSUME ExporterInv, [ExporterNext]_exporterVars PROVE ExporterInv'
<1>1. Typed /\ Typed'
  BY TypedStep DEF ExporterInv
<1>2. SUFFICES ASSUME "create" \notin faults' PROVE Orderly'
  BY <1>1 DEF ExporterInv
<1>3. ASSUME NEW o \in {"Landed", "Crashed"}, DoExport(o), held' = held PROVE Orderly'
  <2>1. Orderly  BY <1>2, <1>3 DEF DoExport, ExporterInv
  <2> QED  BY <1>1, <1>3, <2>1, DoExportKeepsOrder
<1>4. ASSUME NEW k \in DOMAIN savers, NEW ok \in BOOLEAN, CreateDirectories(k, ok), held' = held
      PROVE  Orderly'
  <2>1. ok = TRUE /\ "create" \notin faults
    BY <1>2, <1>4 DEF CreateDirectories
  <2>2. Orderly  BY <2>1 DEF ExporterInv
  <2>3. CreateDirectories(k, TRUE)  BY <1>4, <2>1
  <2> QED  BY <1>1, <1>4, <2>2, <2>3, CreateDirectoriesKeepsOrder
<1>5. ASSUME NEW k \in DOMAIN savers, NEW ok \in BOOLEAN, Enumerate(k, ok), held' = held
      PROVE  Orderly'
  <2>1. Orderly  BY <1>2, <1>5 DEF Enumerate, ExporterInv
  <2> QED  BY <1>1, <1>5, <2>1, EnumerateKeepsOrder
<1>6. ASSUME NEW k \in DOMAIN savers, NEW ok \in BOOLEAN, RemoveOldest(k, ok), held' = held
      PROVE  Orderly'
  <2>1. Orderly  BY <1>2, <1>6 DEF RemoveOldest, ExporterInv
  <2>2. CASE ok = TRUE
    <3>1. RemoveOldest(k, TRUE)  BY <1>6, <2>2
    <3> QED  BY <1>1, <1>6, <2>1, <3>1, RemovalKeepsOrder
  <2>3. CASE ok = FALSE
    <3>1. RemoveOldest(k, FALSE)  BY <1>6, <2>3
    <3> QED  BY <1>1, <1>6, <2>1, <3>1, FailureKeepsOrder
  <2> QED  BY <2>2, <2>3
<1>7. ASSUME NEW k \in DOMAIN savers, NEW ok \in BOOLEAN, SaveReplay(k, ok), held' = held
      PROVE  Orderly'
  <2>1. Orderly  BY <1>2, <1>7 DEF SaveReplay, ExporterInv
  <2> QED  BY <1>1, <1>7, <2>1, SaveReplayKeepsOrder
<1>8. CASE UNCHANGED exporterVars
  <2>1. UNCHANGED <<files, faults, held, savers>>  BY <1>8 DEF exporterVars
  <2>2. Orderly  BY <1>2, <2>1 DEF ExporterInv
  <2> QED  BY <1>1, <2>1, <2>2, AsideKeepsOrder
<1> QED  BY <1>3, <1>4, <1>5, <1>6, <1>7, <1>8 DEF ExporterNext

\* In every behaviour: the types, and the order of the savers as long as the
\* directory could be made (do_export, remove_excessive_files).
THEOREM ExporterInvariance == ExporterSpec => []ExporterInv
<1>1. ExporterInit => ExporterInv
  BY InitEstablishesInv
<1>2. ExporterInv /\ [ExporterNext]_exporterVars => ExporterInv'
  BY StepKeepsInv
<1> QED  BY <1>1, <1>2, PTL DEF ExporterSpec

\* The newest N replays are kept, in order, and one saver at a time works in
\* the directory, however many are under way and whatever else than making it
\* fails (--keep-replays; remove_excessive_files).
THEOREM ReplaysAreKept == ExporterSpec => []LastReplaysKept
  BY ExporterInvariance, InvImpliesLastReplaysKept, PTL

=============================================================================
