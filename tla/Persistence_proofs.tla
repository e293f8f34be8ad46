------------------------- MODULE Persistence_proofs -------------------------
(* Proofs about saving and loading, for any files, bounds and clients that  *)
(* ask for saves, also while others are under way.                          *)
EXTENDS Persistence, TLAPS

-----------------------------------------------------------------------------
LEMMA PositionsAreNumbers ==
  /\ Len(SaveOrder) \in Nat /\ Positions = 1 .. Len(SaveOrder) /\ 1 \in Positions
  /\ \A i \in Positions : SaveOrder[i] \in Files
<1>1. SaveOrder \in Seq(Files) /\ SaveOrder # <<>>
  BY PersistenceAssumption
<1>2. Len(SaveOrder) \in Nat /\ Positions = 1 .. Len(SaveOrder)
  BY <1>1 DEF Positions
<1>3. Len(SaveOrder) # 0
  BY <1>1
<1>4. QED
  BY <1>2, <1>3 DEF Files

LEMMA SentinelsApart ==
  /\ Missing \notin Nat /\ Empty \notin Nat /\ Torn \notin Nat
  /\ Missing # Empty /\ Missing # Torn /\ Empty # Torn /\ None \notin Files
BY PersistenceAssumption

-----------------------------------------------------------------------------
(* Type correctness. *)

LEMMA InitType == Init => TypeOK
<1> SUFFICES ASSUME Init PROVE TypeOK
  OBVIOUS
<1>1. Idle \in SaveRecords
  BY PositionsAreNumbers DEF Idle, SaveRecords
<1>2. changed \in BOOLEAN /\ failed \in BOOLEAN /\ overlap \in BOOLEAN
  BY DEF Init
<1>3. QED
  BY <1>1, <1>2 DEF Init, TypeOK, Contents

LEMMA IdleTyped == Idle \in SaveRecords
BY PositionsAreNumbers DEF Idle, SaveRecords

LEMMA StartingType == TypeOK /\ Starting => TypeOK'
<1> SUFFICES ASSUME TypeOK, Starting PROVE TypeOK'
  OBVIOUS
<1>1. CASE Load
  BY <1>1 DEF TypeOK, Load, Run, outcomes, bounds
<1>2. CASE Repair
  BY <1>2 DEF TypeOK, Repair, memory, outcomes, bounds
<1>3. ASSUME NEW f \in Files, Create(f) PROVE TypeOK'
  BY <1>3 DEF TypeOK, Create, memory, outcomes, bounds, Contents
<1>4. CASE Fill
  BY <1>4 DEF TypeOK, Fill, memory, outcomes, bounds, Contents
<1>5. CASE Created
  BY <1>5 DEF TypeOK, Created, Run, outcomes, bounds
<1>6. QED
  BY <1>1, <1>2, <1>3, <1>4, <1>5 DEF Starting

LEMMA FileTyped == TypeOK => \A s \in Savers : File(s) \in Files
BY PositionsAreNumbers DEF TypeOK, SaveRecords, File

\* What a saver's record becomes.
LEMMA RecordTyped ==
  ASSUME NEW r \in SaveRecords, r.at # Len(SaveOrder)
  PROVE  /\ [r EXCEPT !.stage = "open"] \in SaveRecords
         /\ [r EXCEPT !.at = @ + 1, !.stage = "closed"] \in SaveRecords
<1>1. r.at \in 1 .. Len(SaveOrder) /\ Len(SaveOrder) \in Nat
  BY PositionsAreNumbers DEF SaveRecords
<1>2. r.at + 1 \in Positions
  BY <1>1, PositionsAreNumbers
<1>3. QED
  BY <1>2 DEF SaveRecords

LEMMA SavingType ==
  ASSUME TypeOK, NEW s \in Savers, BeginSave(s) \/ FileStep(s) \/ Fail(s)
  PROVE  TypeOK'
<1>0. File(s) \in Files
  BY FileTyped
<1>1. CASE BeginSave(s)
  <2>1. [image |-> version, at |-> 1, stage |-> "closed", alone |-> Others(s) = {}]
          \in SaveRecords
    BY PositionsAreNumbers DEF TypeOK, SaveRecords
  <2>2. \A t \in Savers : [save[t] EXCEPT !.alone = FALSE] \in SaveRecords
    BY DEF TypeOK, SaveRecords
  <2>3. save' \in [Savers -> SaveRecords]
    BY <1>1, <2>1, <2>2 DEF BeginSave
  <2>4. overlap' \in BOOLEAN /\ changed' \in BOOLEAN /\ failed' \in BOOLEAN
    BY <1>1 DEF BeginSave, TypeOK
  <2>5. QED
    BY <1>1, <2>3, <2>4 DEF TypeOK, BeginSave, bounds
<1>2. CASE Open(s)
  <2>1. [save[s] EXCEPT !.stage = "open"] \in SaveRecords
    BY DEF TypeOK, SaveRecords
  <2>2. disk' \in [Files -> Contents]
    BY <1>0, <1>2 DEF TypeOK, Open, Contents
  <2>3. QED
    BY <1>2, <2>1, <2>2 DEF TypeOK, Open, memory, outcomes, bounds
<1>3. CASE Write(s)
  <2>1. save[s] \in SaveRecords /\ Image(s) \in Nat
    BY DEF TypeOK, SaveRecords, Image
  <2>2. disk' \in [Files -> Contents]
    BY <1>0, <1>3, <2>1 DEF TypeOK, Write, Contents
  <2>3. save' \in [Savers -> SaveRecords]
    <3>1. CASE IsLast(save[s].at)
      BY <3>1, <1>3, IdleTyped DEF Write, TypeOK
    <3>2. CASE ~IsLast(save[s].at)
      BY <3>2, <1>3, <2>1, RecordTyped DEF Write, TypeOK, IsLast
    <3>3. QED
      BY <3>1, <3>2
  <2>4. secured' \in Nat
    BY <1>3, <2>1 DEF Write, TypeOK, SaveRecords, outcomes
  <2>6. failed' \in BOOLEAN /\ changed' \in BOOLEAN /\ overlap' \in BOOLEAN
    BY <1>3 DEF Write, TypeOK, FlagAfterSave, outcomes
  <2>5. QED
    BY <1>3, <2>2, <2>3, <2>4, <2>6 DEF TypeOK, Write, bounds
<1>4. CASE Fail(s)
  <2>1. disk' \in [Files -> Contents]
    BY <1>0, <1>4 DEF TypeOK, Fail, Contents
  <2>2. QED
    BY <1>4, <2>1, IdleTyped DEF TypeOK, Fail, memory
<1>5. QED
  BY <1>1, <1>2, <1>3, <1>4 DEF FileStep

LEMMA NextType == TypeOK /\ [Next]_vars => TypeOK'
<1> SUFFICES ASSUME TypeOK, [Next]_vars PROVE TypeOK'
  OBVIOUS
<1>1. CASE Starting
  BY <1>1, StartingType
<1>2. CASE Change
  BY <1>2 DEF TypeOK, Change, outcomes, bounds
<1>3. CASE QuietChange
  BY <1>3 DEF TypeOK, QuietChange, outcomes, bounds
<1>4. ASSUME NEW s \in Savers, BeginSave(s) \/ FileStep(s) \/ Fail(s) PROVE TypeOK'
  BY <1>4, SavingType
<1>5. CASE Crash
  <2>1. changed' \in BOOLEAN /\ failed' \in BOOLEAN /\ overlap' \in BOOLEAN
    BY <1>5 DEF TypeOK, Crash, memory
  <2>2. QED
    BY <1>5, <2>1, IdleTyped DEF TypeOK, Crash, memory
<1>6. CASE UNCHANGED vars
  BY <1>6 DEF TypeOK, vars, memory, outcomes, bounds
<1>7. QED
  BY <1>1, <1>2, <1>3, <1>4, <1>5, <1>6 DEF Next

\* Every variable keeps its type (TypeOK), for any files and requesters.
THEOREM TypeCorrect == Spec => []TypeOK
<1>1. QED
  BY InitType, NextType, PTL DEF Spec

-----------------------------------------------------------------------------
(* What saves leave on disk.                                                 *)

\* Files are only missing before the first start that succeeded, and until then
\* nothing was saved.
CreationInv ==
  /\ mode = "running" => \A f \in Files : disk[f] # Missing
  /\ creating # None => mode = "creating" /\ creating \in Files
  /\ mode = "creating" \/ (\E f \in Files : disk[f] = Missing)
       => secured = 0 /\ \A f \in Files : Readable(f) => disk[f] = 0

\* Every file lies between the last state secured and memory.
Bounded == \A f \in Files : Readable(f) => secured <= disk[f] /\ disk[f] <= version

\* Every image under way was taken after the last state secured.
SaveInv(s) ==
  Saving(s) =>
    /\ mode = "running"
    /\ secured <= save[s].image /\ save[s].image <= version

\* A save that is alone writes the newest state on disk, and what is before it
\* is written.
LoneInv(s) ==
  Saving(s) /\ save[s].alone =>
    /\ \A t \in Savers : Saving(t) => t = s
    /\ \A f \in Files : Readable(f) => disk[f] <= save[s].image
    /\ \A i \in Positions : i < save[s].at => disk[SaveOrder[i]] = save[s].image
    /\ save[s].stage = "open" => disk[File(s)] = Empty

\* Without an overlap, what is under way is alone.
OverlapInv == overlap \/ \A s \in Savers : Saving(s) => save[s].alone

DiskInv ==
  /\ CreationInv /\ Bounded /\ SavedCut /\ OverlapInv
  /\ secured <= version
  /\ \A s \in Savers : SaveInv(s) /\ LoneInv(s)

LEMMA InitDisk == Init => DiskInv
BY SentinelsApart, PositionsAreNumbers
   DEF Init, DiskInv, CreationInv, Bounded, SavedCut, OverlapInv, SaveInv, LoneInv,
       Saving, Idle, Readable

\* Steps that leave the disk and the saves alone and do not go back in memory.
LEMMA QuietStep ==
  ASSUME TypeOK, TypeOK', DiskInv,
         UNCHANGED <<disk, secured, overlap, creating, save>>, version <= version',
         mode' = mode
           \/ (mode' = "running" /\ \A f \in Files : disk[f] # Missing)
           \/ (mode' = "creating" /\ \E f \in Files : disk[f] = Missing),
         mode = "creating" => mode' # "down",
         creating = None \/ mode' = mode,
         \A s \in Savers : Saving(s) => mode' = "running"
  PROVE  DiskInv'
<1>1. CreationInv'
  BY DEF DiskInv, CreationInv, Readable
<1>2. Bounded' /\ (secured <= version)'
  BY DEF DiskInv, Bounded, Readable, TypeOK
<1>3. SavedCut' /\ OverlapInv'
  BY DEF DiskInv, SavedCut, OverlapInv, Saving, Readable
<1>4. ASSUME NEW s \in Savers PROVE SaveInv(s)'
  <2>1. SUFFICES ASSUME Saving(s) PROVE SaveInv(s)'
    BY DEF SaveInv, Saving
  <2>2. save[s] \in SaveRecords /\ SaveInv(s)
    BY DEF TypeOK, DiskInv
  <2>3. QED
    BY <2>1, <2>2 DEF SaveInv, Saving, TypeOK, SaveRecords
<1>5. ASSUME NEW s \in Savers PROVE LoneInv(s)'
  BY DEF DiskInv, LoneInv, Saving, Readable, File
<1>6. QED
  BY <1>1, <1>2, <1>3, <1>4, <1>5 DEF DiskInv

LEMMA StartingDisk ==
  ASSUME TypeOK, TypeOK', DiskInv, Starting
  PROVE  DiskInv'
<1>0. \A s \in Savers : ~Saving(s)
  BY DEF DiskInv, SaveInv, Starting, Load, Repair, Create, Fill, Created
<1>1. CASE Load
  BY <1>0, <1>1, QuietStep, SentinelsApart
     DEF Load, Run, DiskInv, CreationInv, Readable, TypeOK, outcomes
<1>2. CASE Repair
  BY <1>0, <1>2, QuietStep DEF Repair, memory, DiskInv, CreationInv, TypeOK, outcomes
<1>3. CASE Created
  BY <1>0, <1>3, QuietStep DEF Created, Run, TypeOK, outcomes
<1>4. ASSUME NEW f \in Files, Create(f) PROVE DiskInv'
  <2>1. \A g \in Files : disk'[g] = IF g = f THEN Empty ELSE disk[g]
    BY <1>4 DEF Create, TypeOK
  <2>2. \A g \in Files : Readable(g)' <=> Readable(g) /\ g # f
    BY <1>4, <2>1, SentinelsApart DEF Readable, Create
  <2>3. CreationInv'
    BY <1>4, <2>1, <2>2, SentinelsApart DEF Create, DiskInv, CreationInv, outcomes
  <2>4. Bounded' /\ SavedCut'
    BY <1>4, <2>1, <2>2, PositionsAreNumbers
       DEF Create, DiskInv, Bounded, SavedCut, memory, outcomes
  <2>5. OverlapInv' /\ \A s \in Savers : SaveInv(s)' /\ LoneInv(s)'
    BY <1>0, <1>4 DEF Create, SaveInv, LoneInv, OverlapInv, Saving
  <2>6. QED
    BY <1>4, <2>3, <2>4, <2>5 DEF DiskInv, Create, memory, outcomes
<1>5. CASE Fill
  <2>1. creating \in Files
    BY <1>5 DEF Fill, DiskInv, CreationInv
  <2>2. \A g \in Files : disk'[g] = IF g = creating THEN 0 ELSE disk[g]
    BY <1>5, <2>1 DEF Fill, TypeOK
  <2>3. secured = 0 /\ \A g \in Files : Readable(g)' => disk'[g] = 0
    BY <1>5, <2>2 DEF Fill, DiskInv, CreationInv, Readable
  <2>4. CreationInv'
    BY <1>5, <2>3 DEF Fill, CreationInv, outcomes
  <2>5. Bounded' /\ SavedCut'
    BY <1>5, <2>3, PositionsAreNumbers DEF Fill, Bounded, SavedCut, memory, outcomes, TypeOK
  <2>6. OverlapInv' /\ \A s \in Savers : SaveInv(s)' /\ LoneInv(s)'
    BY <1>0, <1>5 DEF Fill, SaveInv, LoneInv, OverlapInv, Saving
  <2>7. QED
    BY <1>5, <2>4, <2>5, <2>6 DEF DiskInv, Fill, memory, outcomes
<1>6. QED
  BY <1>1, <1>2, <1>3, <1>4, <1>5 DEF Starting

-----------------------------------------------------------------------------
LEMMA BeginDisk ==
  ASSUME TypeOK, DiskInv, NEW s \in Savers, BeginSave(s)
  PROVE  DiskInv'
<1>1. CreationInv' /\ Bounded' /\ (secured <= version)'
  BY DEF BeginSave, DiskInv, CreationInv, Bounded, Readable
<1>2. SavedCut'
  BY DEF BeginSave, DiskInv, SavedCut, Readable
<1>3. /\ save'[s] = [image |-> version, at |-> 1, stage |-> "closed",
                     alone |-> Others(s) = {}]
      /\ \A t \in Savers \ {s} : save'[t] = [save[t] EXCEPT !.alone = FALSE]
  BY DEF BeginSave
<1>4. \A t \in Savers \ {s} : (Saving(t)' <=> Saving(t)) /\ ~save'[t].alone
                               /\ save'[t].image = save[t].image
  <2>1. \A t \in Savers : save[t] \in SaveRecords
    BY DEF TypeOK
  <2>2. \A t \in Savers \ {s} : /\ save'[t].stage = save[t].stage /\ ~save'[t].alone
                                 /\ save'[t].image = save[t].image
    BY <1>3, <2>1 DEF SaveRecords
  <2>3. QED
    BY <2>2 DEF Saving
<1>9. save'[s].alone <=> \A u \in Savers : Saving(u)' => u = s
  <2>1. save'[s].alone = (Others(s) = {})
    BY <1>3
  <2>2. Others(s) = {} <=> \A u \in Savers \ {s} : ~Saving(u)
    BY DEF Others
  <2>3. QED
    BY <1>4, <2>1, <2>2
<1>5. OverlapInv'
  <2>1. CASE Others(s) = {}
    <3>1. \A u \in Savers : Saving(u)' => u = s
      BY <1>4, <2>1 DEF Others
    <3>2. \A u \in Savers : Saving(u)' => save'[u].alone
      BY <1>9, <3>1
    <3>3. QED
      BY <3>2 DEF OverlapInv
  <2>2. CASE Others(s) # {}
    BY <2>2 DEF OverlapInv, BeginSave
  <2>3. QED
    BY <2>1, <2>2
<1>6. ASSUME NEW t \in Savers PROVE SaveInv(t)'
  <2>1. CASE t = s
    BY <1>3, <2>1 DEF BeginSave, SaveInv, DiskInv, TypeOK
  <2>2. CASE t # s
    BY <1>4, <2>2 DEF BeginSave, SaveInv, DiskInv
  <2>3. QED
    BY <2>1, <2>2
<1>7. ASSUME NEW t \in Savers PROVE LoneInv(t)'
  <2>1. CASE t = s
    <3>1. \A i \in Positions : ~(i < 1)
      BY PositionsAreNumbers
    <3>2. save'[s].alone => \A u \in Savers : Saving(u)' => u = s
      BY <1>9
    <3>3. \A f \in Files : Readable(f)' => disk'[f] <= save'[s].image
      BY <1>3 DEF BeginSave, DiskInv, Bounded, Readable
    <3>4. QED
      BY <1>3, <2>1, <3>1, <3>2, <3>3 DEF LoneInv
  <2>2. CASE t # s
    BY <1>4, <2>2 DEF LoneInv
  <2>3. QED
    BY <2>1, <2>2
<1>8. QED
  BY <1>1, <1>2, <1>5, <1>6, <1>7 DEF DiskInv

\* Truncating the next file, or leaving it torn, only takes a readable file away.
LEMMA OpenDisk ==
  ASSUME TypeOK, DiskInv, NEW s \in Savers, Open(s)
  PROVE  DiskInv'
<1>1. File(s) \in Files /\ save[s] \in SaveRecords
  BY FileTyped DEF TypeOK
<1>2. \A g \in Files : disk'[g] = IF g = File(s) THEN Empty ELSE disk[g]
  BY <1>1 DEF Open, TypeOK
<1>3. \A g \in Files : Readable(g)' <=> Readable(g) /\ g # File(s)
  BY <1>2, SentinelsApart DEF Readable
<1>4. /\ Saving(s) /\ mode = "running"
      /\ UNCHANGED <<mode, creating, version, secured, overlap>>
  BY DEF Open, Saving, DiskInv, SaveInv, memory, outcomes
<1>5. CreationInv'
  BY <1>2, <1>3, <1>4, SentinelsApart DEF DiskInv, CreationInv
<1>6. Bounded' /\ SavedCut' /\ (secured <= version)'
  BY <1>2, <1>3, <1>4, PositionsAreNumbers DEF DiskInv, Bounded, SavedCut
<1>7. /\ save'[s] = [save[s] EXCEPT !.stage = "open"]
      /\ \A t \in Savers \ {s} : save'[t] = save[t]
  BY DEF Open, TypeOK
<1>8. /\ save'[s].image = save[s].image /\ save'[s].at = save[s].at
      /\ save'[s].stage = "open" /\ save'[s].alone = save[s].alone
  BY <1>1, <1>7 DEF SaveRecords
<1>9. \A t \in Savers : (Saving(t)' <=> Saving(t)) /\ save'[t].alone = save[t].alone
                         /\ save'[t].image = save[t].image
  BY <1>4, <1>7, <1>8 DEF Saving
<1>10. OverlapInv' /\ \A t \in Savers : SaveInv(t)'
  BY <1>4, <1>9 DEF DiskInv, OverlapInv, SaveInv
<1>11. ASSUME NEW t \in Savers PROVE LoneInv(t)'
  <2>0. SUFFICES ASSUME Saving(t), save[t].alone PROVE LoneInv(t)'
    BY <1>9 DEF LoneInv
  <2>1. t = s
    BY <1>4, <2>0 DEF DiskInv, LoneInv
  <2>3. File(s)' = File(s)
    BY <1>8 DEF File
  <2>4. \A i \in Positions : i < save[s].at => SaveOrder[i] # File(s)
    BY <1>1, PositionsAreNumbers, PersistenceAssumption DEF File, SaveRecords
  <2>5. LoneInv(s) /\ Saving(s) /\ save[s].alone
    BY <1>4, <2>0, <2>1 DEF DiskInv
  <2>6. \A i \in Positions : i < save[s].at => disk'[SaveOrder[i]] = save[s].image
    BY <1>2, <2>4, <2>5, PositionsAreNumbers DEF LoneInv
  <2>7. QED
    BY <1>1, <1>2, <1>3, <1>8, <1>9, <2>1, <2>3, <2>5, <2>6 DEF LoneInv
<1>12. QED
  BY <1>5, <1>6, <1>10, <1>11 DEF DiskInv

\* A write by a save that is alone: everything up to its place is its image.
LEMMA LoneWrite ==
  ASSUME TypeOK, DiskInv, NEW s \in Savers, Write(s), save[s].alone
  PROVE  /\ \A g \in Files : disk'[g] = IF g = File(s) THEN Image(s) ELSE disk[g]
         /\ \A g \in Files : Readable(g)' => disk'[g] <= Image(s)
         /\ \A i \in Positions : i <= save[s].at => disk'[SaveOrder[i]] = Image(s)
         /\ SavedCut'
<1> DEFINE image == save[s].image
           at == save[s].at
<1>1. File(s) \in Files /\ save[s] \in SaveRecords
  BY FileTyped DEF TypeOK
<1>2. image \in Nat /\ at \in Positions /\ File(s) = SaveOrder[at] /\ Image(s) = image
  BY <1>1 DEF SaveRecords, File, Image
<1>3. LoneInv(s) /\ Saving(s)
  BY DEF DiskInv, Write, Saving
<1>4. disk[File(s)] = Empty
  BY <1>3 DEF Write, LoneInv
<1>5. \A g \in Files : disk'[g] = IF g = File(s) THEN image ELSE disk[g]
  BY <1>1, <1>4 DEF Write, Image, TypeOK
<1>6. \A g \in Files : Readable(g)' => disk'[g] <= image
  BY <1>2, <1>3, <1>5 DEF Readable, LoneInv
<1>7. \A i \in Positions : i <= at => disk'[SaveOrder[i]] = image
  <2> SUFFICES ASSUME NEW i \in Positions, i <= at PROVE disk'[SaveOrder[i]] = image
    OBVIOUS
  <2>1. CASE i = at
    BY <2>1, <1>1, <1>2, <1>5
  <2>2. CASE i < at
    BY <2>2, <1>2, <1>3, <1>5, PositionsAreNumbers DEF LoneInv
  <2>3. QED
    BY <1>2, <2>1, <2>2, PositionsAreNumbers
<1>8. SavedCut'
  <2>0. CASE overlap'
    BY <2>0 DEF SavedCut
  <2>5. ASSUME ~overlap', NEW i \in Positions, NEW k \in Positions, i < k,
               Readable(SaveOrder[i])', Readable(SaveOrder[k])'
        PROVE  disk'[SaveOrder[i]] >= disk'[SaveOrder[k]]
    <3>1. SaveOrder[i] \in Files /\ SaveOrder[k] \in Files /\ i \in Int /\ k \in Int
          /\ at \in Int
      BY <1>2, PositionsAreNumbers
    <3>2. disk'[SaveOrder[k]] <= image /\ disk'[SaveOrder[k]] \in Nat
      BY <1>6, <2>5, <3>1 DEF Readable
    <3>3. CASE i <= at
      BY <1>2, <1>7, <3>2, <3>3
    <3>4. CASE i > at
      <4>1. SaveOrder[i] # File(s) /\ SaveOrder[k] # File(s)
        BY <1>2, <2>5, <3>1, <3>4, PersistenceAssumption
      <4>2. ~IsLast(at)
        BY <3>1, <3>4, PositionsAreNumbers DEF IsLast
      <4>3. ~overlap
        BY <2>5, <4>2 DEF Write, outcomes
      <4>4. QED
        BY <1>5, <2>5, <3>1, <4>1, <4>3 DEF DiskInv, SavedCut, Readable
    <3>5. QED
      BY <3>1, <3>3, <3>4
  <2>6. QED
    BY <2>0, <2>5 DEF SavedCut
<1>9. QED
  BY <1>2, <1>5, <1>6, <1>7, <1>8

LEMMA WriteDisk ==
  ASSUME TypeOK, DiskInv, NEW s \in Savers, Write(s)
  PROVE  DiskInv'
<1> DEFINE image == save[s].image
           at == save[s].at
           lone == save[s].alone
<1>1. File(s) \in Files /\ save[s] \in SaveRecords
  BY FileTyped DEF TypeOK
<1>2. image \in Nat /\ at \in Positions /\ Image(s) = image
  BY <1>1 DEF SaveRecords, Image
<1>3. SaveInv(s) /\ LoneInv(s) /\ Saving(s)
  BY DEF DiskInv, Write, Saving
<1>4. mode = "running" /\ UNCHANGED <<mode, creating, version>>
  BY <1>3 DEF Write, SaveInv
<1>5. /\ disk'[File(s)] \in {image, Torn}
      /\ \A g \in Files \ {File(s)} : disk'[g] = disk[g]
  BY <1>1, <1>2 DEF Write, TypeOK
<1>6. secured' \in Nat /\ secured <= secured' /\ secured' <= image /\ secured' <= version'
  BY <1>2, <1>3, <1>4 DEF Write, SaveInv, DiskInv, TypeOK, outcomes
<1>7. SavedCut'
  <2>1. CASE lone
    BY <2>1, LoneWrite
  <2>2. CASE ~lone
    <3>1. overlap
      BY <1>3, <2>2 DEF DiskInv, OverlapInv
    <3>2. overlap'
      BY <2>2, <3>1 DEF Write, outcomes
    <3>3. QED
      BY <3>2 DEF SavedCut
  <2>3. QED
    BY <2>1, <2>2
<1>8. Bounded'
  <2> SUFFICES ASSUME NEW f \in Files, Readable(f)'
               PROVE  secured' <= disk'[f] /\ disk'[f] <= version'
    BY DEF Bounded
  <2>1. CASE IsLast(at) /\ lone
    <3>1. PICK i \in Positions : f = SaveOrder[i]
      BY DEF Files
    <3>2. i <= at
      BY <2>1, PositionsAreNumbers DEF IsLast
    <3>3. disk'[f] = image
      BY <2>1, <3>1, <3>2, <1>2, LoneWrite
    <3>4. QED
      BY <1>2, <1>3, <1>4, <1>6, <3>3 DEF SaveInv
  <2>2. CASE ~(IsLast(at) /\ lone)
    <3>1. secured' = secured
      BY <2>2 DEF Write, outcomes
    <3>2. CASE f = File(s)
      BY <1>2, <1>3, <1>4, <1>5, <3>1, <3>2, SentinelsApart DEF SaveInv, Readable
    <3>3. CASE f # File(s)
      BY <1>4, <1>5, <3>1, <3>3 DEF DiskInv, Bounded, Readable
    <3>4. QED
      BY <3>2, <3>3
  <2>3. QED
    BY <2>1, <2>2
<1>9. CreationInv'
  <2>1. \A f \in Files : disk'[f] # Missing
    BY <1>2, <1>4, <1>5, SentinelsApart DEF DiskInv, CreationInv
  <2>2. QED
    BY <1>4, <2>1 DEF DiskInv, CreationInv
<1>10. \A t \in Savers \ {s} : save'[t] = save[t]
  BY DEF Write, TypeOK
<1>11. CASE IsLast(at)
  <2>1. save'[s] = Idle /\ ~Saving(s)'
    BY <1>11 DEF Write, TypeOK, Saving, Idle
  <2>2. \A t \in Savers : Saving(t)' => t # s /\ Saving(t) /\ save'[t] = save[t] /\ ~lone
    BY <1>3, <1>10, <2>1 DEF Saving, LoneInv
  <2>3. \A t \in Savers : Saving(t)' => ~save'[t].alone
    BY <1>3, <2>2 DEF DiskInv, LoneInv
  <2>4. OverlapInv'
    <3>1. CASE lone
      BY <2>2, <3>1 DEF OverlapInv
    <3>2. CASE ~lone
      BY <1>3, <1>11, <3>2 DEF Write, DiskInv, OverlapInv, outcomes
    <3>3. QED
      BY <3>1, <3>2
  <2>5. \A t \in Savers : SaveInv(t)'
    <3>1. \A t \in Savers : Saving(t)' => secured' = secured
      BY <2>2, <1>11 DEF Write
    <3>2. QED
      BY <1>4, <2>2, <3>1 DEF DiskInv, SaveInv
  <2>6. \A t \in Savers : LoneInv(t)'
    BY <2>3 DEF LoneInv
  <2>7. QED
    BY <1>6, <1>7, <1>8, <1>9, <2>4, <2>5, <2>6 DEF DiskInv
<1>12. CASE ~IsLast(at)
  <2>1. save'[s] = [save[s] EXCEPT !.at = at + 1, !.stage = "closed"]
    BY <1>12 DEF Write, TypeOK
  <2>2. /\ save'[s].image = image /\ save'[s].at = at + 1
        /\ save'[s].stage = "closed" /\ save'[s].alone = lone
    BY <1>1, <2>1 DEF SaveRecords
  <2>3. UNCHANGED <<secured, overlap>>
    BY <1>12 DEF Write, outcomes
  <2>4. \A t \in Savers : (Saving(t)' <=> Saving(t)) /\ save'[t].alone = save[t].alone
                           /\ save'[t].image = save[t].image
    BY <1>3, <1>10, <2>2 DEF Saving
  <2>5. OverlapInv' /\ \A t \in Savers : SaveInv(t)'
    BY <1>4, <2>3, <2>4 DEF DiskInv, OverlapInv, SaveInv
  <2>6. ASSUME NEW t \in Savers PROVE LoneInv(t)'
    <3>0. SUFFICES ASSUME Saving(t), save[t].alone PROVE LoneInv(t)'
      BY <2>4 DEF LoneInv
    <3>1. t = s
      BY <1>3, <3>0 DEF DiskInv, LoneInv
    <3>2. \A i \in Positions : i < at + 1 => disk'[SaveOrder[i]] = image
      BY <1>2, <3>0, <3>1, LoneWrite, PositionsAreNumbers
    <3>3. \A g \in Files : Readable(g)' => disk'[g] <= image
      BY <1>2, <3>0, <3>1, LoneWrite
    <3>4. QED
      BY <1>3, <2>2, <2>4, <3>0, <3>1, <3>2, <3>3 DEF LoneInv
  <2>7. QED
    BY <1>6, <1>7, <1>8, <1>9, <2>5, <2>6 DEF DiskInv
<1>13. QED
  BY <1>11, <1>12

LEMMA FailDisk ==
  ASSUME TypeOK, DiskInv, NEW s \in Savers, Fail(s)
  PROVE  DiskInv'
<1>1. /\ File(s) \in Files /\ mode = "running"
      /\ UNCHANGED <<mode, creating, version, secured, overlap>>
  BY FileTyped DEF Fail, DiskInv, SaveInv, memory
<1>2. \A g \in Files : disk'[g] = disk[g] \/ disk'[g] = Torn
  BY <1>1 DEF Fail, TypeOK
<1>3. \A g \in Files : Readable(g)' => Readable(g) /\ disk'[g] = disk[g]
  BY <1>2, SentinelsApart DEF Readable
<1>4. CreationInv'
  BY <1>1, <1>2, <1>3, SentinelsApart DEF DiskInv, CreationInv
<1>5. Bounded' /\ SavedCut' /\ (secured <= version)'
  BY <1>1, <1>3, PositionsAreNumbers DEF DiskInv, Bounded, SavedCut
<1>6. \A t \in Savers : Saving(t)' => t # s /\ Saving(t) /\ save'[t] = save[t]
  BY DEF Fail, TypeOK, Saving, Idle
<1>7. OverlapInv' /\ \A t \in Savers : SaveInv(t)'
  BY <1>1, <1>6 DEF DiskInv, OverlapInv, SaveInv
<1>8. \A t \in Savers : LoneInv(t)'
  <2>1. Saving(s)
    BY DEF Fail
  <2>2. \A t \in Savers : Saving(t)' => ~save[t].alone
    BY <1>6, <2>1 DEF DiskInv, LoneInv
  <2>3. QED
    BY <1>6, <2>2 DEF LoneInv
<1>9. QED
  BY <1>4, <1>5, <1>7, <1>8 DEF DiskInv

LEMMA CrashDisk ==
  ASSUME TypeOK, DiskInv, Crash
  PROVE  DiskInv'
<1>1. OverlapInv' /\ \A s \in Savers : SaveInv(s)' /\ LoneInv(s)'
  BY DEF Crash, SaveInv, LoneInv, OverlapInv, Saving, Idle
<1>2. CreationInv'
  BY DEF Crash, DiskInv, CreationInv, Readable
<1>3. Bounded' /\ SavedCut' /\ (secured <= version)'
  BY DEF Crash, DiskInv, Bounded, SavedCut, Readable, memory
<1>4. QED
  BY <1>1, <1>2, <1>3 DEF DiskInv

LEMMA NextDisk ==
  ASSUME TypeOK, TypeOK', DiskInv, [Next]_vars
  PROVE  DiskInv'
<1>1. CASE Starting
  BY <1>1, StartingDisk
<1>2. CASE Change \/ QuietChange
  <2>1. version <= version' /\ UNCHANGED <<mode, creating, disk, save, secured, overlap>>
    BY <1>2 DEF Change, QuietChange, TypeOK, outcomes
  <2>2. \A s \in Savers : Saving(s) => mode' = "running"
    BY <2>1 DEF DiskInv, SaveInv
  <2>3. mode = "creating" => mode' # "down"
    BY <2>1
  <2>4. QED
    BY <2>1, <2>2, <2>3, QuietStep
<1>3. ASSUME NEW s \in Savers, BeginSave(s) \/ FileStep(s) \/ Fail(s) PROVE DiskInv'
  BY <1>3, BeginDisk, OpenDisk, WriteDisk, FailDisk DEF FileStep
<1>4. CASE Crash
  BY <1>4, CrashDisk
<1>5. CASE UNCHANGED vars
  BY <1>5 DEF vars, memory, outcomes, DiskInv, CreationInv, Bounded, SavedCut, SaveInv,
              LoneInv, OverlapInv, Saving, Readable, File
<1>6. QED
  BY <1>1, <1>2, <1>3, <1>4, <1>5 DEF Next

LEMMA DiskInvariant == Spec => []DiskInv
<1>1. Init => DiskInv
  BY InitDisk
<1>2. TypeOK /\ TypeOK' /\ DiskInv /\ [Next]_vars => DiskInv'
  BY NextDisk
<1>3. QED
  BY <1>1, <1>2, TypeCorrect, PTL DEF Spec

\* A start that succeeds finds no file older than the last state that a save
\* running alone was answered Saved for, and no new database in its place
\* (Durable), whatever saves overlapped, failed or were cut by crashes.
THEOREM SavesAreDurable == Spec => Durable
<1>1. ASSUME TypeOK, DiskInv, [Next]_vars, mode # "running", mode' = "running"
      PROVE  secured = 0 \/ (mode = "down" /\ \A f \in Files : disk[f] >= secured)
  <2>1. \A s \in Savers : ~(BeginSave(s) \/ FileStep(s) \/ Fail(s))
    BY <1>1 DEF BeginSave, FileStep, Open, Write, Fail, DiskInv, SaveInv, Saving
  <2>2. Load \/ Created
    BY <1>1, <2>1 DEF Next, Starting, Repair, Create, Fill, Change, QuietChange, Crash, vars
  <2>3. CASE Load
    BY <1>1, <2>3 DEF Load, DiskInv, Bounded, Readable, TypeOK
  <2>4. CASE Created
    BY <1>1, <2>4 DEF Created, DiskInv, CreationInv
  <2>5. QED
    BY <2>2, <2>3, <2>4
<1>2. QED
  BY <1>1, TypeCorrect, DiskInvariant, PTL DEF Spec, Durable

\* Unless saves overlapped and none that was alone has ended since, the states
\* files hold get no newer along the order in which a save writes them
\* (SavedCut), whatever crashes and restarts happened.
THEOREM FilesAreCut == Spec => []SavedCut
<1>1. DiskInv => SavedCut
  BY DEF DiskInv
<1>2. QED
  BY <1>1, DiskInvariant, PTL
=============================================================================
