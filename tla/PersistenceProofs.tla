-------------------------- MODULE PersistenceProofs --------------------------
(***************************************************************************)
(* Theorems about Persistence, for every number of blocks, sessions and    *)
(* generations, when do_init reads from the directory that persist_state   *)
(* writes to.  Without that assumption they do not hold: the run           *)
(* persistence_dir is the counterexample.                                  *)
(***************************************************************************)
EXTENDS Persistence, SequenceTheorems, TLAPS

Whole(v) == [cs |-> BlocksOf(v), data |-> BlocksOf(v)]

\* The file, when there is one, was never sealed or is whole.
FileSound ==
  disk[Cwd] # NoFile =>
    disk[Cwd].cs = <<>> \/ \E v \in Snapshots : disk[Cwd] = Whole(v)

\* How far the write has come, by phase.
WriteSound ==
  /\ phase \in Saving \cup {"idle"} => live \in Snapshots
  /\ phase \in {"down", "refused"} => live = NoState
  /\ phase = "idle" => disk[Cwd] = Whole(live)
  /\ phase = "writing" =>
       /\ disk[Cwd] # NoFile /\ disk[Cwd].cs = <<>>
       /\ Len(written) <= Blocks
       /\ \A i \in 1 .. Len(written) : written[i] = <<live, i>>
  /\ phase = "sealing" =>
       /\ disk[Cwd] = [cs |-> <<>>, data |-> BlocksOf(live)]
       /\ sum = BlocksOf(live)

\* A file that is not sealed is being written, or a kill has cut it.
CutSound ==
  /\ phase \notin {"writing", "sealing"} /\ disk[Cwd] # NoFile /\ disk[Cwd].cs = <<>>
       => cut
  /\ phase = "refused" => cut
  /\ lost = {}

\* The inductive invariant.
Inv == TypeOK /\ FileSound /\ WriteSound /\ CutSound

-----------------------------------------------------------------------------
(* Contents *)

\* The blocks of a snapshot are a sequence that begins with it.
LEMMA BlocksOfSnapshot ==
  ASSUME NEW v \in Snapshots
  PROVE  /\ BlocksOf(v) \in Seq(Block)
         /\ BlocksOf(v) # <<>>
         /\ Len(BlocksOf(v)) = Blocks
         /\ BlocksOf(v)[1] = <<v, 1>>
         /\ BlocksOf(v)[1][1] = v
<1>1. Blocks \in Nat /\ 1 \in 1 .. Blocks
  BY PersistenceAssumption
<1>2. \A i \in 1 .. Blocks : <<v, i>> \in Block
  BY DEF Block
<1>3. BlocksOf(v) \in Seq(Block) /\ Len(BlocksOf(v)) = Blocks
  BY <1>1, <1>2, IsASeq DEF BlocksOf
<1>4. BlocksOf(v)[1] = <<v, 1>>
  BY <1>1 DEF BlocksOf
<1>5. BlocksOf(v) # <<>>
  BY <1>1, <1>3, EmptySeq
<1>6. QED
  BY <1>3, <1>4, <1>5

\* A whole content passes the check and yields its snapshot.
LEMMA WholeIsRead ==
  ASSUME NEW v \in Snapshots
  PROVE  /\ Whole(v) \in Content /\ Whole(v) # NoFile
         /\ Integrity(Whole(v)) /\ Decoded(Whole(v)) = v
         /\ File(Whole(v)) = v
<1>1. Whole(v) \in Content
  BY BlocksOfSnapshot DEF Whole, Content
<1>2. Whole(v) # NoFile
  BY <1>1, PersistenceAssumption
<1>3. Integrity(Whole(v))
  BY BlocksOfSnapshot DEF Whole, Integrity, Empty
<1>4. Decoded(Whole(v)) = v
  BY BlocksOfSnapshot DEF Whole, Decoded
<1>5. QED
  BY <1>1, <1>2, <1>3, <1>4 DEF File

\* A content that was not sealed does not pass it.
LEMMA UnsealedIsTorn ==
  ASSUME NEW f \in Content, f.cs = <<>>
  PROVE  f # NoFile /\ ~Integrity(f) /\ File(f) = Torn
<1>1. f # NoFile
  BY PersistenceAssumption
<1>2. f = [cs |-> f.cs, data |-> f.data]
  BY DEF Content
<1>3. ~Integrity(f)
  BY <1>2 DEF Integrity, Empty
<1>4. QED
  BY <1>1, <1>3 DEF File

\* What a start finds in the file.
LEMMA FileCases ==
  ASSUME Inv
  PROVE  \/ disk[Cwd] = NoFile
         \/ /\ disk[Cwd] \in Content /\ disk[Cwd].cs = <<>>
            /\ ~Integrity(disk[Cwd]) /\ File(disk[Cwd]) = Torn
         \/ \E v \in Snapshots :
              /\ disk[Cwd] = Whole(v)
              /\ Integrity(disk[Cwd]) /\ Decoded(disk[Cwd]) = v /\ File(disk[Cwd]) = v
<1>1. Cwd \in Dirs
  BY PersistenceAssumption
<1>2. disk[Cwd] \in Content \cup {NoFile}
  BY <1>1 DEF Inv, TypeOK
<1>3. CASE disk[Cwd] # NoFile /\ disk[Cwd].cs = <<>>
  BY <1>2, <1>3, UnsealedIsTorn
<1>4. CASE \E v \in Snapshots : disk[Cwd] = Whole(v)
  BY <1>4, WholeIsRead
<1>5. QED
  BY <1>3, <1>4 DEF Inv, FileSound

-----------------------------------------------------------------------------
(* The steps of a write *)

LEMMA InitInv == Init => Inv
<1> SUFFICES ASSUME Init PROVE Inv
  OBVIOUS
<1>1. Cwd \in Dirs /\ MaxSession \in Nat
  BY PersistenceAssumption
<1>2. <<>> \in Seq(Block)
  OBVIOUS
<1>3. TypeOK
  <2>1. disk \in [Dirs -> Content \cup {NoFile}]
    BY DEF Init
  <2>2. sessions \in 0 .. MaxSession
    BY <1>1 DEF Init
  <2>3. cut \in BOOLEAN /\ lost \subseteq Snapshots
    BY DEF Init
  <2>4. QED
    BY <1>2, <2>1, <2>2, <2>3 DEF Init, TypeOK, Phases
<1>4. disk[Cwd] = NoFile
  BY <1>1 DEF Init
<1>5. QED
  BY <1>3, <1>4 DEF Init, Inv, FileSound, WriteSound, CutSound, Saving

LEMMA DoInitStep ==
  ASSUME Inv, DoInit, DataDir = Cwd
  PROVE  /\ Inv'
         /\ (\E v \in Snapshots : A!Change(v)) \/ A!Load \/ UNCHANGED A!vars
<1>0. /\ UNCHANGED disk /\ disk'[Cwd] = disk[Cwd] /\ phase \in {"down", "refused"}
      /\ UNCHANGED <<written, sum, cut>>
  BY DEF DoInit, DoInitFromScratch, DoInitFromFile, Refuse, history
<1>1. live = NoState /\ lost = {}
  BY <1>0 DEF Inv, WriteSound, CutSound
<1>2. PICK init_flag \in BOOLEAN : \E yes \in BOOLEAN :
        /\ (init_flag /\ disk[DataDir] # NoFile) \/ yes = FALSE
        /\ \/ DoInitFromScratch(init_flag, yes)
           \/ DoInitFromFile(init_flag, yes)
           \/ Refuse(init_flag, yes)
  BY DEF DoInit
<1>3. PICK yes \in BOOLEAN :
        \/ DoInitFromScratch(init_flag, yes)
        \/ DoInitFromFile(init_flag, yes)
        \/ Refuse(init_flag, yes)
  BY <1>2
<1>4. CASE DoInitFromScratch(init_flag, yes)
  <2>1. sessions \in Nat /\ MaxSession \in Nat /\ MaxGeneration \in Nat
    BY PersistenceAssumption DEF Inv, TypeOK
  <2>2. live' \in Snapshots /\ sessions' \in 0 .. MaxSession
    BY <1>4, <2>1 DEF DoInitFromScratch, Snapshots
  <2>3. lost' = {}
    BY <1>1, <1>4 DEF DoInitFromScratch, FromScratch
  <2>4. phase' = "opening"
    BY <1>4 DEF DoInitFromScratch
  <2>5. TypeOK'
    BY <1>0, <2>2, <2>3, <2>4 DEF Inv, TypeOK, Phases
  <2>6. FileSound' /\ WriteSound'
    BY <1>0, <2>2, <2>4 DEF Inv, FileSound, WriteSound, Saving
  <2>7. CutSound'
    BY <1>0, <2>3, <2>4 DEF Inv, CutSound
  <2>8. A!Change(live')
    BY <1>0, <2>4 DEF A!Change, Saving
  <2>9. QED
    BY <2>2, <2>5, <2>6, <2>7, <2>8 DEF Inv
<1>5. CASE DoInitFromFile(init_flag, yes)
  <2>1. disk[Cwd] # NoFile /\ Integrity(disk[Cwd])
    BY <1>5 DEF DoInitFromFile, FromScratch
  <2>2. PICK v \in Snapshots :
          disk[Cwd] = Whole(v) /\ Decoded(disk[Cwd]) = v /\ File(disk[Cwd]) = v
    BY <2>1, FileCases
  <2>3. live' = v /\ phase' = "idle" /\ sessions' = sessions /\ lost' = lost
    BY <1>5, <2>2 DEF DoInitFromFile, history
  <2>4. TypeOK'
    BY <1>0, <2>3 DEF Inv, TypeOK, Phases
  <2>5. FileSound' /\ WriteSound'
    BY <1>0, <2>2, <2>3 DEF Inv, FileSound, WriteSound, Saving
  <2>6. CutSound'
    BY <1>0, <2>3 DEF Inv, CutSound
  <2>7. A!Load
    BY <1>0, <1>1, <2>2, <2>3 DEF A!Load, Saving
  <2>8. QED
    BY <2>4, <2>5, <2>6, <2>7 DEF Inv
<1>6. CASE Refuse(init_flag, yes)
  <2>1. disk[Cwd] # NoFile /\ ~Integrity(disk[Cwd])
    BY <1>6 DEF Refuse, FromScratch
  <2>2. disk[Cwd].cs = <<>>
    BY <2>1, FileCases
  <2>3. cut
    BY <1>0, <2>1, <2>2 DEF Inv, CutSound
  <2>4. phase' = "refused" /\ UNCHANGED <<live, sessions, lost>>
    BY <1>6 DEF Refuse, history
  <2>5. TypeOK'
    BY <1>0, <2>4 DEF Inv, TypeOK, Phases
  <2>6. FileSound' /\ WriteSound'
    BY <1>0, <1>1, <2>4 DEF Inv, FileSound, WriteSound, Saving
  <2>7. CutSound'
    BY <1>0, <2>3, <2>4 DEF Inv, CutSound
  <2>8. UNCHANGED A!vars
    BY <1>0, <2>4 DEF A!vars, Saving
  <2>9. QED
    BY <2>5, <2>6, <2>7, <2>8 DEF Inv
<1>7. QED
  BY <1>3, <1>4, <1>5, <1>6

LEMMA NextGenerationStep ==
  ASSUME Inv, NextGeneration
  PROVE  Inv' /\ \E v \in Snapshots : A!Change(v)
<1>1. live \in Snapshots /\ phase = "idle" /\ disk[Cwd] = Whole(live)
  BY DEF NextGeneration, Inv, WriteSound, Saving
<1>2. live' \in Snapshots
  BY <1>1, PersistenceAssumption DEF NextGeneration, Snapshots
<1>3. phase' = "opening" /\ UNCHANGED <<disk, written, sum, sessions, cut, lost>>
  BY DEF NextGeneration, history
<1>4. TypeOK'
  BY <1>2, <1>3 DEF Inv, TypeOK, Phases
<1>5. FileSound' /\ WriteSound'
  BY <1>2, <1>3 DEF Inv, FileSound, WriteSound, Saving
<1>6. CutSound'
  BY <1>1, <1>3 DEF Inv, CutSound
<1>7. A!Change(live')
  BY <1>1, <1>3 DEF A!Change, Saving
<1>8. QED
  BY <1>2, <1>4, <1>5, <1>6, <1>7 DEF Inv

LEMMA OpenStep ==
  ASSUME Inv, Open, DataDir = Cwd
  PROVE  Inv' /\ A!Tear
<1>1. /\ phase = "opening" /\ phase' = "writing" /\ written' = <<>>
      /\ UNCHANGED <<live, sum, sessions, cut, lost>>
  BY DEF Open, history
<1>2. Empty \in Content /\ Empty.cs = <<>> /\ <<>> \in Seq(Block)
  BY DEF Empty, Content
<1>3. disk'[Cwd] = Empty /\ disk' \in [Dirs -> Content \cup {NoFile}]
  BY <1>2, PersistenceAssumption DEF Open, Inv, TypeOK
<1>4. Empty # NoFile /\ File(Empty) = Torn
  BY <1>2, UnsealedIsTorn
<1>5. TypeOK'
  BY <1>1, <1>2, <1>3 DEF Inv, TypeOK, Phases
<1>6. FileSound'
  BY <1>2, <1>3 DEF FileSound
<1>7. WriteSound'
  BY <1>1, <1>2, <1>3, <1>4, PersistenceAssumption DEF Inv, WriteSound, Saving
<1>8. CutSound'
  BY <1>1 DEF Inv, CutSound
<1>9. A!Tear
  BY <1>1, <1>3, <1>4 DEF A!Tear, Saving
<1>10. QED
  BY <1>5, <1>6, <1>7, <1>8, <1>9 DEF Inv

LEMMA PutBlockStep ==
  ASSUME Inv, PutBlock
  PROVE  Inv' /\ UNCHANGED A!vars
<1>1. /\ phase = "writing" /\ Len(written) < Blocks
      /\ UNCHANGED <<disk, phase, live, sum, sessions, cut, lost>>
  BY DEF PutBlock, history
<1>2. live \in Snapshots /\ written \in Seq(Block) /\ Blocks \in Nat
  BY <1>1, PersistenceAssumption DEF Inv, WriteSound, TypeOK, Saving
<1> DEFINE b == <<live, Len(written) + 1>>
<1>3. b \in Block
  BY <1>1, <1>2, LenProperties DEF Block
<1>4. written' = Append(written, b)
  BY DEF PutBlock
<1>5. /\ written' \in Seq(Block) /\ Len(written') = Len(written) + 1
      /\ \A i \in 1 .. Len(written) : written'[i] = written[i]
      /\ written'[Len(written) + 1] = b
  BY <1>2, <1>3, <1>4, AppendProperties
<1>6. \A i \in 1 .. Len(written') : written'[i] = <<live, i>>
  BY <1>1, <1>2, <1>5, LenProperties DEF Inv, WriteSound
<1>7. Len(written') <= Blocks
  BY <1>1, <1>2, <1>5, LenProperties
<1>8. TypeOK'
  BY <1>1, <1>5 DEF Inv, TypeOK
<1>9. WriteSound'
  BY <1>1, <1>6, <1>7 DEF Inv, WriteSound, Saving
<1>10. FileSound' /\ CutSound'
  BY <1>1 DEF Inv, FileSound, CutSound
<1>11. QED
  BY <1>1, <1>8, <1>9, <1>10 DEF Inv, A!vars

LEMMA FlushStep ==
  ASSUME Inv, Flush, DataDir = Cwd
  PROVE  Inv' /\ UNCHANGED A!vars
<1>1. /\ phase = "writing" /\ Cwd \in Dirs
      /\ UNCHANGED <<phase, live, written, sum, sessions, cut, lost>>
  BY PersistenceAssumption DEF Flush, history
<1>2. disk[Cwd] \in Content /\ disk[Cwd].cs = <<>> /\ written \in Seq(Block)
  BY <1>1 DEF Inv, WriteSound, TypeOK
<1>3. PICK n \in Len(disk[Cwd].data) + 1 .. Len(written) :
        disk' = [disk EXCEPT ![Cwd].data = SubSeq(written, 1, n)]
  BY DEF Flush
<1>4. SubSeq(written, 1, n) \in Seq(Block)
  <2>1. Len(disk[Cwd].data) \in Nat /\ Len(written) \in Nat
    BY <1>2, LenProperties DEF Content
  <2>2. n \in 1 .. Len(written)
    BY <2>1, <1>3
  <2>3. QED
    BY <1>2, <2>1, <2>2, SubSeqProperties
<1>5. /\ disk'[Cwd] = [disk[Cwd] EXCEPT !.data = SubSeq(written, 1, n)]
      /\ \A d \in Dirs \ {Cwd} : disk'[d] = disk[d]
      /\ DOMAIN disk' = Dirs /\ disk' = [d \in Dirs |-> disk'[d]]
  BY <1>1, <1>3 DEF Inv, TypeOK
<1>6. disk'[Cwd] \in Content /\ disk'[Cwd].cs = <<>>
  BY <1>2, <1>4, <1>5 DEF Content
<1>7. disk' \in [Dirs -> Content \cup {NoFile}]
  BY <1>5, <1>6 DEF Inv, TypeOK
<1>8. disk'[Cwd] # NoFile /\ File(disk'[Cwd]) = Torn /\ File(disk[Cwd]) = Torn
  BY <1>2, <1>6, UnsealedIsTorn
<1>9. TypeOK'
  BY <1>1, <1>7 DEF Inv, TypeOK
<1>10. FileSound' /\ CutSound'
  BY <1>1, <1>6 DEF Inv, FileSound, CutSound
<1>11. WriteSound'
  BY <1>1, <1>6, <1>8 DEF Inv, WriteSound, Saving
<1>12. UNCHANGED A!vars
  BY <1>1, <1>8 DEF A!vars
<1>13. QED
  BY <1>9, <1>10, <1>11, <1>12 DEF Inv

LEMMA ReadBackStep ==
  ASSUME Inv, ReadBack, DataDir = Cwd
  PROVE  Inv' /\ UNCHANGED A!vars
<1>1. /\ phase = "writing" /\ phase' = "sealing" /\ Cwd \in Dirs
      /\ Len(written) = Blocks
      /\ disk' = [disk EXCEPT ![Cwd].data = written]
      /\ sum' = disk'[Cwd].data
      /\ UNCHANGED <<live, written, sessions, cut, lost>>
  BY PersistenceAssumption DEF ReadBack, history
<1>2. /\ disk[Cwd] \in Content /\ disk[Cwd].cs = <<>>
      /\ written \in Seq(Block) /\ live \in Snapshots
  BY <1>1 DEF Inv, WriteSound, TypeOK, Saving
<1>3. written = BlocksOf(live)
  <2>1. BlocksOf(live) \in Seq(Block) /\ Len(BlocksOf(live)) = Blocks
    BY <1>2, BlocksOfSnapshot
  <2>2. \A i \in 1 .. Len(written) : written[i] = BlocksOf(live)[i]
    BY <1>1 DEF Inv, WriteSound, BlocksOf
  <2>3. QED
    BY <1>1, <1>2, <2>1, <2>2, SeqEqual
<1>4. /\ disk'[Cwd] = [disk[Cwd] EXCEPT !.data = written]
      /\ \A d \in Dirs \ {Cwd} : disk'[d] = disk[d]
      /\ disk' = [d \in Dirs |-> disk'[d]]
  BY <1>1 DEF Inv, TypeOK
<1>5. disk'[Cwd] = [cs |-> <<>>, data |-> BlocksOf(live)]
  BY <1>2, <1>3, <1>4 DEF Content
<1>6. disk'[Cwd] \in Content /\ disk'[Cwd].cs = <<>>
  BY <1>2, <1>4 DEF Content
<1>7. disk' \in [Dirs -> Content \cup {NoFile}]
  BY <1>4, <1>6 DEF Inv, TypeOK
<1>8. File(disk'[Cwd]) = Torn /\ File(disk[Cwd]) = Torn
  BY <1>2, <1>6, UnsealedIsTorn
<1>9. sum' = BlocksOf(live) /\ sum' \in Seq(Block)
  BY <1>1, <1>2, <1>3, <1>5
<1>10. TypeOK'
  BY <1>1, <1>7, <1>9 DEF Inv, TypeOK, Phases
<1>11. FileSound' /\ CutSound'
  BY <1>1, <1>6 DEF Inv, FileSound, CutSound
<1>12. WriteSound'
  BY <1>1, <1>2, <1>5, <1>9 DEF Inv, WriteSound, Saving
<1>13. UNCHANGED A!vars
  BY <1>1, <1>8 DEF A!vars, Saving
<1>14. QED
  BY <1>10, <1>11, <1>12, <1>13 DEF Inv

LEMMA SealStep ==
  ASSUME Inv, Seal, DataDir = Cwd
  PROVE  Inv' /\ A!Complete
<1>1. /\ phase = "sealing" /\ phase' = "idle" /\ Cwd \in Dirs
      /\ disk' = [disk EXCEPT ![Cwd].cs = sum]
      /\ written' = <<>> /\ sum' = <<>> /\ cut' = FALSE
      /\ UNCHANGED <<live, sessions, lost>>
  BY PersistenceAssumption DEF Seal
<1>2. /\ disk[Cwd] = [cs |-> <<>>, data |-> BlocksOf(live)]
      /\ sum = BlocksOf(live) /\ live \in Snapshots
  BY <1>1 DEF Inv, WriteSound, Saving
<1>3. /\ disk'[Cwd] = [disk[Cwd] EXCEPT !.cs = sum]
      /\ \A d \in Dirs \ {Cwd} : disk'[d] = disk[d]
      /\ disk' = [d \in Dirs |-> disk'[d]]
  BY <1>1 DEF Inv, TypeOK
<1>4. disk'[Cwd] = Whole(live)
  BY <1>2, <1>3 DEF Whole
<1>5. disk' \in [Dirs -> Content \cup {NoFile}]
  BY <1>2, <1>3, <1>4, WholeIsRead DEF Inv, TypeOK
<1>6. Whole(live).cs # <<>> /\ File(disk'[Cwd]) = live
  BY <1>2, <1>4, BlocksOfSnapshot, WholeIsRead DEF Whole
<1>7. TypeOK'
  <2>1. cut' \in BOOLEAN
    BY <1>1
  <2>2. <<>> \in Seq(Block)
    OBVIOUS
  <2>3. QED
    BY <1>1, <1>5, <2>1, <2>2 DEF Inv, TypeOK, Phases
<1>8. FileSound'
  BY <1>1, <1>2, <1>4 DEF FileSound
<1>9. WriteSound'
  BY <1>1, <1>2, <1>4 DEF Inv, WriteSound, Saving
<1>10. CutSound'
  BY <1>1, <1>4, <1>6 DEF Inv, CutSound
<1>11. A!Complete
  BY <1>1, <1>6 DEF A!Complete, Saving
<1>12. QED
  BY <1>7, <1>8, <1>9, <1>10, <1>11 DEF Inv

LEMMA KillStep ==
  ASSUME Inv, Kill
  PROVE  Inv' /\ A!Kill
<1>1. /\ phase \in Saving \cup {"idle"} /\ phase' = "down" /\ live' = NoState
      /\ written' = <<>> /\ sum' = <<>>
      /\ UNCHANGED <<disk, sessions, lost>>
  BY DEF Kill
<1>2. cut' = (cut \/ phase \in {"writing", "sealing"})
  BY DEF Kill
<1>3. <<>> \in Seq(Block) /\ cut' \in BOOLEAN
  BY <1>2
<1>4. TypeOK'
  BY <1>1, <1>3 DEF Inv, TypeOK, Phases
<1>5. FileSound' /\ WriteSound'
  BY <1>1 DEF Inv, FileSound, WriteSound, Saving
<1>6. CutSound'
  BY <1>1, <1>2 DEF Inv, CutSound
<1>7. A!Kill
  BY <1>1 DEF A!Kill, Saving
<1>8. QED
  BY <1>4, <1>5, <1>6, <1>7 DEF Inv

\* Every step keeps the invariant and is a step of SessionFile or none.
LEMMA Step ==
  ASSUME Inv, [Next]_vars, DataDir = Cwd
  PROVE  Inv' /\ [A!Next]_(A!vars)
<1>1. CASE DoInit
  BY <1>1, DoInitStep DEF A!Next
<1>2. CASE NextGeneration
  BY <1>2, NextGenerationStep DEF A!Next
<1>3. CASE Open
  BY <1>3, OpenStep DEF A!Next
<1>4. CASE PutBlock
  BY <1>4, PutBlockStep
<1>5. CASE Flush
  BY <1>5, FlushStep
<1>6. CASE ReadBack
  BY <1>6, ReadBackStep
<1>7. CASE Seal
  BY <1>7, SealStep DEF A!Next
<1>8. CASE Kill
  BY <1>8, KillStep DEF A!Next
<1>9. CASE UNCHANGED vars
  <2>1. UNCHANGED <<disk, phase, live, written, sum, sessions, cut, lost>>
    BY <1>9 DEF vars
  <2>2. Inv'
    BY <2>1 DEF Inv, TypeOK, FileSound, WriteSound, CutSound
  <2>3. UNCHANGED A!vars
    BY <2>1 DEF A!vars
  <2>4. QED
    BY <2>2, <2>3
<1>10. QED
  BY <1>1, <1>2, <1>3, <1>4, <1>5, <1>6, <1>7, <1>8, <1>9 DEF Next

-----------------------------------------------------------------------------
(* Theorems *)

\* The invariant on which the theorems below rest.
THEOREM Invariance ==
  ASSUME DataDir = Cwd
  PROVE  Spec => []Inv
<1>1. Init => Inv
  BY InitInv
<1>2. Inv /\ [Next]_vars => Inv'
  BY Step
<1>3. QED
  BY <1>1, <1>2, PTL DEF Spec

\* The files, the stream and the snapshot at work are of their types: what a
\* start has read from a file is a snapshot, never a piece of one.
THEOREM TypeCorrect ==
  ASSUME DataDir = Cwd
  PROVE  Spec => []TypeOK
<1>1. Inv => TypeOK
  BY DEF Inv
<1>2. QED
  BY <1>1, Invariance, PTL

\* do_init exits with "corrupted" only after a kill that cut a write short.
THEOREM RefusalIsJustified ==
  ASSUME DataDir = Cwd
  PROVE  Spec => []RefusalMeansKill
<1>1. Inv => RefusalMeansKill
  BY DEF Inv, CutSound, RefusalMeansKill
<1>2. QED
  BY <1>1, Invariance, PTL

\* A trainer that takes requests has its snapshot in the file, whole.
THEOREM RestIsOnDisk ==
  ASSUME DataDir = Cwd
  PROVE  Spec => []RestFindsLast
<1>1. Inv => RestFindsLast
  <2> SUFFICES ASSUME Inv, phase = "idle"
               PROVE  /\ disk[DataDir] # NoFile /\ Integrity(disk[DataDir])
                      /\ Decoded(disk[DataDir]) = live
    BY DEF RestFindsLast
  <2>1. live \in Snapshots /\ disk[Cwd] = Whole(live)
    BY DEF Inv, WriteSound
  <2>2. QED
    BY <2>1, WholeIsRead
<1>2. QED
  BY <1>1, Invariance, PTL

\* No session is overwritten by another without the user's answer.
THEOREM OverwriteIsAsked ==
  ASSUME DataDir = Cwd
  PROVE  Spec => []AskedBeforeOverwrite
<1>1. Inv => AskedBeforeOverwrite
  BY DEF Inv, CutSound, AskedBeforeOverwrite
<1>2. QED
  BY <1>1, Invariance, PTL

\* training.dat, as it is written and read, is the file of SessionFile.
THEOREM FileIsSessionFile ==
  ASSUME DataDir = Cwd
  PROVE  Spec => ImplementsSessionFile
<1>1. Init => A!Init
  <2>1. Init => File(disk[DataDir]) = NoFile
    BY PersistenceAssumption DEF Init, File
  <2>2. QED
    BY <2>1 DEF Init, A!Init, Saving
<1>2. Inv /\ [Next]_vars => [A!Next]_(A!vars)
  BY Step
<1>3. QED
  BY <1>1, <1>2, Invariance, PTL DEF Spec, A!Spec, ImplementsSessionFile

=============================================================================
