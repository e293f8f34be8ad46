-------------------------- MODULE Memories_proofs ---------------------------
(* Proofs about memories and media, for any access modes, tasks, clients,    *)
(* savers, lengths, hashes and bounds.                                       *)
EXTENDS Memories, TLAPS, SequenceTheorems

-----------------------------------------------------------------------------
(* The strengthening.  The index in memory has what the saved one and those  *)
(* being saved have, until a restart; what an access mode names, in any of   *)
(* them or in what a client will send back, is in it and was made for that   *)
(* mode; and the text under way to a file is of the mode the file is for.    *)

Indexed(image) == \A i \in Ids : image.index[i] # None => i < image.latest
Kept(index, later) == \A i \in Ids : index[i] # None => later[i] = index[i]

IndexesGrow ==
  /\ Indexed(db) /\ Indexed(disk) /\ \A s \in Savers : Indexed(save[s].image)
  /\ Kept(disk.index, db.index) /\ \A s \in Savers : Kept(save[s].image.index, db.index)

\* A memory that may be called the persistent one of m.
OwnIn(index, m, i) == i # None =>
  index[i] # None /\ index[i].mode = m /\ index[i].kind = "persistent"

\* What a client took is still what it was.
TakenIn(index, taken) ==
  IF taken.item = "mode" THEN OwnIn(index, taken.mode, taken.memory)
  ELSE index[taken.memory] # None /\ index[taken.memory].mode = taken.mode

NamesAreOwn == ~astray =>
  /\ \A m \in Modes : OwnIn(db.index, m, db.persistent[m])
  /\ \A m \in Modes : OwnIn(db.index, m, disk.persistent[m])
  /\ \A s \in Savers, m \in Modes : OwnIn(db.index, m, save[s].image.persistent[m])
  /\ \A c \in Clients : copy[c] # None /\ ~copy[c].lost => TakenIn(db.index, copy[c])

MemoriesTaken ==
  \A c \in Clients : copy[c] # None /\ copy[c].item = "memory" => copy[c].memory \in Ids

\* While a save is alone, nothing else writes what it has written.
LoneSaves ==
  \A s \in Savers : save[s].stage # "idle" =>
    /\ save[s].alone => \A u \in Savers \ {s} : save[u].stage = "idle"
    /\ save[s].alone /\ save[s].stage # "modes" => disk.persistent = save[s].image.persistent
    /\ ~astray => Closed(save[s].image)

TextOf(m) == Seq({m, Blank})

NotesArePure ==
  /\ \A i \in Ids : db.index[i] # None => db.index[i].name[1] = db.index[i].mode
  /\ ~astray =>
       /\ \A n \in Names : files[n] # None => files[n] \in TextOf(n[1])
       /\ \A t \in Tasks : call[t] # None => call[t].data \in TextOf(call[t].mode)

IInv == /\ TypeOK /\ EveryMemoryHasItsFile /\ MediaHaveTheirData
        /\ IndexesGrow /\ NamesAreOwn /\ MemoriesTaken /\ LoneSaves /\ SavedTogether
        /\ NotesArePure /\ ThreadSurvives
-----------------------------------------------------------------------------
(* Data and names *)

LEMMA DataIsNotNone == \A data \in Data : data # None
BY NoneAssumption

LEMMA TextIsOf ==
  ASSUME NEW lines, NEW m \in lines, NEW length \in Nat
  PROVE  Text(m, length) \in Seq(lines)
BY DEF Text

LEMMA TextOfIsData == \A m \in Modes : TextOf(m) \subseteq Data
<1>1. ASSUME NEW m \in Modes, NEW data \in Seq({m, Blank}) PROVE data \in Seq(Modes \cup {Blank})
  <2>1. Len(data) \in Nat /\ data \in [1 .. Len(data) -> {m, Blank}]
    BY LenProperties
  <2>2. data \in [1 .. Len(data) -> Modes \cup {Blank}]
    BY <2>1
  <2>3. QED BY <2>1, <2>2, SeqDef
<1>2. QED BY <1>1 DEF TextOf, Data

\* What the tool writes has no lines but those there were, those added and
\* blank ones.
LEMMA ExtendedKeeps ==
  ASSUME NEW lines, Blank \in lines, NEW data \in Seq(lines) \cup {None}, NEW input \in Seq(lines)
  PROVE  Extended(data, input) \in Seq(lines)
<1>1. CASE data = None
  BY <1>1 DEF Extended
<1>2. CASE data # None
  <2>1. data \in Seq(lines)
    BY <1>2
  <2>2. Trimmed(data) \in Seq(lines)
    BY <2>1, HeadTailProperties DEF Trimmed
  <2>3. <<Blank>> \in Seq(lines)
    OBVIOUS
  <2>4. QED
    BY <1>2, <2>2, <2>3, ConcatProperties DEF Extended
<1>3. QED BY <1>1, <1>2

LEMMA WithoutKeeps ==
  ASSUME NEW lines, NEW data \in Seq(lines), NEW number \in Nat
  PROVE  Without(data, number) \in Seq(lines)
<1>1. CASE number < Len(data)
  <2>1. data \in Seq(lines) /\ Len(data) \in Nat
    BY LenProperties
  <2>2. SubSeq(data, 1, number) \in Seq(lines)
    <3>1. \A k \in 1 .. number : data[k] \in lines
      BY <1>1, <2>1, ElementOfSeq
    <3>2. QED BY <2>1, <3>1, SubSeqProperties
  <2>3. SubSeq(data, number + 2, Len(data)) \in Seq(lines)
    <3>1. \A k \in number + 2 .. Len(data) : data[k] \in lines
      BY <2>1, ElementOfSeq
    <3>2. QED BY <2>1, <3>1, SubSeqProperties
  <2>4. QED
    BY <1>1, <2>2, <2>3, ConcatProperties DEF Without
<1>2. CASE ~(number < Len(data))
  BY <1>2 DEF Without
<1>3. QED BY <1>1, <1>2

\* The name a memory is given is a name, and no file has it.
LEMMA NamesAreFree ==
  ASSUME TypeOK, db.latest < MaxMemories, NEW m \in Modes, NEW kind \in Kinds,
         NEW name \in FreeNames(m, kind)
  PROVE  name \in Names /\ files[name] = None
<1>1. db.latest \in Nat /\ MaxMemories \in Nat /\ NameSpan \in Nat
  BY MemoriesAssumption DEF TypeOK, Images
<1>2. \A k \in db.latest .. db.latest + NameSpan - 1 : k \in 0 .. MaxMemories + NameSpan
  BY <1>1
<1>3. db.latest \in 0 .. MaxMemories + NameSpan
  BY <1>1
<1>4. QED BY <1>2, <1>3 DEF FreeNames, Names

LEMMA AddedFields ==
  ASSUME TypeOK, db.latest < MaxMemories, NEW m \in Modes, NEW kind \in Kinds,
         NEW name \in Names
  PROVE  /\ Added(m, kind, name) \in Images
         /\ Added(m, kind, name).persistent = db.persistent
         /\ Added(m, kind, name).media = db.media
         /\ Added(m, kind, name).index =
              [db.index EXCEPT ![db.latest] = [mode |-> m, kind |-> kind, name |-> name]]
         /\ Added(m, kind, name).latest = db.latest + 1
         /\ db.latest \in Ids
<1>1. db.latest \in Ids /\ db.latest + 1 \in 0 .. MaxMemories
  BY MemoriesAssumption DEF TypeOK, Images, Ids
<1>2. [mode |-> m, kind |-> kind, name |-> name] \in Memory
  BY DEF Memory
<1>3. QED BY <1>1, <1>2 DEF Added, Images, TypeOK

LEMMA MediaNameProperties ==
  ASSUME NEW h \in Hashes, NEW n \in FirstBytes .. HashLength, NEW under \in MediaNames
  PROVE  MediaName(h, n, under) \in MediaNames /\ Head(MediaName(h, n, under))[1] = h
<1>1. <<<<h, n>>>> \in MediaNames /\ Len(<<<<h, n>>>>) = 1 /\ <<<<h, n>>>>[1] = <<h, n>>
  BY DEF MediaNames
<1>2. MediaName(h, n, under) \in MediaNames
  BY <1>1, ConcatProperties DEF MediaName, MediaNames
<1>3. MediaName(h, n, under)[1] = <<h, n>>
  BY <1>1, ConcatProperties DEF MediaName, MediaNames
<1>4. Head(MediaName(h, n, under)) = MediaName(h, n, under)[1]
  BY <1>1, <1>2, ConcatProperties, HeadTailProperties, EmptySeq DEF MediaName, MediaNames
<1>5. QED BY <1>2, <1>3, <1>4

-----------------------------------------------------------------------------
(* Type correctness *)

SaveRecords == [stage : Stages, image : Images, alone : BOOLEAN]
Calls == [Tasks -> CallRecords \cup {None}]
Taken == [Clients -> Copies \cup {None}]
Folder == [Names -> Data \cup {None}]

LEMMA NoSaveType == NewDatabase \in Images /\ NoSave \in SaveRecords
<1>1. NewDatabase \in Images
  BY MemoriesAssumption DEF NewDatabase, Images
<1>2. QED BY <1>1 DEF NoSave, SaveRecords, Stages

LEMMA TypeInit == Init => TypeOK
<1> SUFFICES ASSUME Init PROVE TypeOK
  OBVIOUS
<1>1. db \in Images /\ disk \in Images /\ save \in [Savers -> SaveRecords]
  BY NoSaveType DEF Init
<1>2. files \in Folder /\ call \in Calls /\ copy \in Taken
  BY DEF Init, Folder, Calls, Taken
<1>3. /\ thread \in {"running", "dead", "malformed"} /\ garbled \subseteq Names
      /\ mediaFiles \subseteq MediaNames /\ cut \subseteq mediaFiles
      /\ changed \in BOOLEAN /\ whole \in BOOLEAN /\ astray \in BOOLEAN
      /\ calls \in Nat /\ faults \in Nat
  BY DEF Init
<1>4. QED BY <1>1, <1>2, <1>3 DEF TypeOK, SaveRecords, Folder, Calls, Taken

LEMMA NotesType ==
  ASSUME TypeOK, NEW m \in Modes, Reachable(m)
  PROVE  NotesOf(m) \in Data \cup {None}
<1>1. CASE db.persistent[m] = None
  BY <1>1 DEF NotesOf
<1>2. CASE db.persistent[m] # None
  <2>1. db.index[db.persistent[m]].name \in Names
    BY <1>2 DEF Reachable, Known, TypeOK, Images, Memory
  <2>2. QED BY <1>2, <2>1 DEF NotesOf, TypeOK
<1>3. QED BY <1>1, <1>2

LEMMA CallType ==
  ASSUME TypeOK, NEW t \in Tasks, NEW m \in Modes, NEW data \in Data, GetAndEdit(t, m, data)
  PROVE  TypeOK'
<1>1. call' \in Calls
  BY DEF GetAndEdit, CallRecords, TypeOK, Calls
<1>2. calls' \in Nat
  BY DEF GetAndEdit, TypeOK
<1>3. QED BY <1>1, <1>2 DEF GetAndEdit, TypeOK, Calls, notes, media, saving

LEMMA WriteType ==
  ASSUME TypeOK, NEW name \in Names, NEW data \in Data, WriteNotes(name, data)
  PROVE  files' \in Folder /\ garbled' \subseteq Names
BY DEF WriteNotes, TypeOK, Folder

LEMMA TakeType ==
  ASSUME TypeOK, NEW c \in Clients, NEW item \in {"mode", "memory"}, NEW m \in Modes,
         NEW i \in Ids \cup {None}, Take(c, item, m, i)
  PROVE  TypeOK'
<1>1. [item |-> item, mode |-> m, memory |-> i, lost |-> FALSE] \in Copies
  BY DEF Copies
<1>2. copy' \in Taken /\ calls' \in Nat
  BY <1>1 DEF Take, TypeOK, Taken
<1>3. QED BY <1>2 DEF Take, TypeOK, Taken, notes, media, saving

\* Adding a medium stores it in a new file that is named after its hash, or
\* ends the thread when there is no name for one.
LEMMA StoreMediaEffect ==
  ASSUME TypeOK, NEW h \in Hashes, NEW under \in MediaNames, NEW indexed,
         StoreMedia(h, under, indexed)
  PROVE  \/ /\ UNCHANGED thread
            /\ \E name \in MediaNames \ mediaFiles :
                 /\ Head(name)[1] = h
                 /\ mediaFiles' = mediaFiles \cup {name}
                 /\ db' = [db EXCEPT !.media = [indexed EXCEPT ![h] = name]]
                 /\ changed' = TRUE
         \/ /\ thread' = "dead" /\ UNCHANGED <<mediaFiles, db, changed>>
            /\ Unnameable(h, under)
<1>1. CASE \E n \in MediaBytes(h, under) :
             /\ mediaFiles' = mediaFiles \cup {MediaName(h, n, under)}
             /\ db' = [db EXCEPT !.media = [indexed EXCEPT ![h] = MediaName(h, n, under)]]
             /\ changed' = TRUE
             /\ UNCHANGED thread
  <2>1. PICK n \in MediaBytes(h, under) :
             /\ mediaFiles' = mediaFiles \cup {MediaName(h, n, under)}
             /\ db' = [db EXCEPT !.media = [indexed EXCEPT ![h] = MediaName(h, n, under)]]
             /\ changed' = TRUE
             /\ UNCHANGED thread
    BY <1>1
  <2>2. n \in FirstBytes .. HashLength /\ MediaName(h, n, under) \notin mediaFiles
    BY DEF MediaBytes
  <2>3. QED BY <2>1, <2>2, MediaNameProperties
<1>2. QED BY <1>1 DEF StoreMedia

\* What AddMedia and UpdateMedia give StoreMedia.
LEMMA UnderIsName ==
  ASSUME TypeOK
  PROVE  /\ <<>> \in MediaNames
         /\ \A h \in Hashes : db.media[h] # None => db.media[h] \in MediaNames
         /\ \A h \in Hashes :
              [db.media EXCEPT ![h] = None] \in [Hashes -> MediaNames \cup {None}]
         /\ db.media \in [Hashes -> MediaNames \cup {None}]
<1>1. <<>> \in MediaNames
  BY DEF MediaNames
<1>2. QED BY <1>1 DEF TypeOK, Images

LEMMA StoreMediaType ==
  ASSUME TypeOK, NEW h \in Hashes, NEW under \in MediaNames,
         NEW indexed \in [Hashes -> MediaNames \cup {None}], StoreMedia(h, under, indexed)
  PROVE  /\ thread' \in {"running", "dead", "malformed"} /\ db' \in Images
         /\ mediaFiles' \subseteq MediaNames /\ cut \subseteq mediaFiles'
         /\ changed' \in BOOLEAN
<1>1. CASE UNCHANGED thread
  <2>1. CASE thread' = "dead" /\ UNCHANGED <<mediaFiles, db, changed>>
    BY <2>1 DEF TypeOK
  <2>2. CASE \E name \in MediaNames \ mediaFiles :
               /\ Head(name)[1] = h
               /\ mediaFiles' = mediaFiles \cup {name}
               /\ db' = [db EXCEPT !.media = [indexed EXCEPT ![h] = name]]
               /\ changed' = TRUE
    <3>1. PICK name \in MediaNames \ mediaFiles :
            /\ mediaFiles' = mediaFiles \cup {name}
            /\ db' = [db EXCEPT !.media = [indexed EXCEPT ![h] = name]]
            /\ changed' = TRUE
      BY <2>2
    <3>2. [indexed EXCEPT ![h] = name] \in [Hashes -> MediaNames \cup {None}]
      OBVIOUS
    <3>3. db' \in Images
      BY <3>1, <3>2 DEF TypeOK, Images
    <3>4. QED BY <1>1, <3>1, <3>3 DEF TypeOK
  <2>3. QED BY <2>1, <2>2, StoreMediaEffect
<1>2. CASE thread' # thread
  BY <1>2, StoreMediaEffect DEF TypeOK
<1>3. QED BY <1>1, <1>2

LEMMA CutType ==
  ASSUME TypeOK, CutWrite
  PROVE  /\ files' \in Folder /\ garbled' \subseteq Names
         /\ mediaFiles' \subseteq MediaNames /\ cut' \subseteq mediaFiles'
<1>1. CASE UNCHANGED <<notes, media>>
  BY <1>1 DEF TypeOK, Folder, notes, media
<1>2. CASE /\ db.latest < MaxMemories
           /\ \E n \in BeingWritten :
                /\ files' = [files EXCEPT ![n] = <<>>]
                /\ garbled' \in {garbled \ {n}, garbled \cup {n}}
           /\ UNCHANGED media
  <2>1. BeingWritten \subseteq Names
    <3>1. \A i \in Ids : db.index[i] # None => db.index[i].name \in Names
      BY DEF TypeOK, Images, Memory
    <3>2. QED BY <1>2, <3>1, NamesAreFree DEF BeingWritten
  <2>2. <<>> \in Data
    BY DEF Data
  <2>3. QED BY <1>2, <2>1, <2>2 DEF TypeOK, Folder, media
<1>3. CASE /\ \E n \in MediaBeingWritten : mediaFiles' = mediaFiles \cup {n} /\ cut' = cut \cup {n}
           /\ UNCHANGED notes
  <2>1. \A n \in MediaBeingWritten : n \in MediaNames
    BY UnderIsName, MediaNameProperties DEF MediaBeingWritten, MediaBytes
  <2>2. QED BY <1>3, <2>1 DEF TypeOK, Folder, notes
<1>4. QED BY <1>1, <1>2, <1>3 DEF CutWrite

LEMMA SaveType ==
  ASSUME TypeOK, NEW s \in Savers, SaveStep(s)
  PROVE  /\ save' \in [Savers -> SaveRecords] /\ disk' \in Images /\ whole' \in BOOLEAN
         /\ changed' \in BOOLEAN /\ faults' \in Nat
         /\ UNCHANGED <<thread, db, notes, media, call, copy, astray, calls>>
<1>1. /\ save \in [Savers -> SaveRecords] /\ db \in Images /\ disk \in Images
      /\ whole \in BOOLEAN /\ changed \in BOOLEAN /\ faults \in Nat
  BY DEF TypeOK, SaveRecords
<1>2. CASE BeginSave(s)
  <2>1. \A u \in Savers : [save[u] EXCEPT !.alone = FALSE] \in SaveRecords
    BY <1>1 DEF SaveRecords
  <2>2. [stage |-> "modes", image |-> db, alone |-> Others(s) = {}] \in SaveRecords
    BY <1>1 DEF SaveRecords, Stages
  <2>3. save' \in [Savers -> SaveRecords]
    BY <1>2, <2>1, <2>2 DEF BeginSave
  <2>4. QED BY <1>1, <1>2, <2>3 DEF BeginSave, bounds
<1>3. ASSUME NEW stage \in Stages, save' = [save EXCEPT ![s] = [@ EXCEPT !.stage = stage]]
      PROVE  save' \in [Savers -> SaveRecords]
  BY <1>1, <1>3 DEF SaveRecords
<1>4. CASE SaveModes(s)
  <2>1. save[s].image.persistent \in [Modes -> Ids \cup {None}] /\ "media" \in Stages
    BY <1>1 DEF SaveRecords, Images, Stages
  <2>2. disk' \in Images /\ save' \in [Savers -> SaveRecords]
    BY <1>1, <1>3, <1>4, <2>1 DEF SaveModes, Cloned, Images
  <2>3. QED BY <1>1, <1>4, <2>2 DEF SaveModes, bounds
<1>5. CASE SaveMedia(s)
  <2>1. save[s].image.media \in [Hashes -> MediaNames \cup {None}] /\ "memories" \in Stages
    BY <1>1 DEF SaveRecords, Images, Stages
  <2>2. disk' \in Images /\ save' \in [Savers -> SaveRecords]
    BY <1>1, <1>3, <1>5, <2>1 DEF SaveMedia, Cloned, Images
  <2>3. QED BY <1>1, <1>5, <2>2 DEF SaveMedia, bounds
<1>6. CASE SaveMemories(s)
  <2>1. /\ save[s].image.index \in [Ids -> Memory \cup {None}]
        /\ save[s].image.latest \in 0 .. MaxMemories /\ save[s].alone \in BOOLEAN
    BY <1>1 DEF SaveRecords, Images
  <2>2. disk' \in Images /\ save' \in [Savers -> SaveRecords]
    BY <1>1, <1>6, <2>1, NoSaveType DEF SaveMemories, Images
  <2>3. QED BY <1>1, <1>6, <2>1, <2>2 DEF SaveMemories, bounds
<1>7. CASE SaveFails(s)
  BY <1>1, <1>7, NoSaveType DEF SaveFails
<1>8. QED BY <1>2, <1>4, <1>5, <1>6, <1>7 DEF SaveStep

LEMMA TypeNext == TypeOK /\ [Next]_vars => TypeOK'
<1> SUFFICES ASSUME TypeOK, [Next]_vars PROVE TypeOK'
  OBVIOUS
<1>1. ASSUME NEW t \in Tasks, NEW m \in Modes, NEW length \in Lengths, PersistentAdd(t, m, length)
      PROVE  TypeOK'
  <2>1. Extended(NotesOf(m), Text(m, length)) \in Data
    BY <1>1, NotesType, ExtendedKeeps, TextIsOf, MemoriesAssumption DEF PersistentAdd, Data
  <2>2. QED BY <1>1, <2>1, CallType DEF PersistentAdd
<1>2. ASSUME NEW t \in Tasks, NEW m \in Modes, NEW numbers \in Removals,
             PersistentRemove(t, m, numbers)
      PROVE  TypeOK'
  <2>1. numbers[1] \in Nat /\ numbers[2] \in Nat
    BY MemoriesAssumption
  <2>2. Without(Without(NotesOf(m), numbers[1]), numbers[2]) \in Data
    BY <1>2, <2>1, NotesType, WithoutKeeps DEF PersistentRemove, Data
  <2>3. QED BY <1>2, <2>2, CallType DEF PersistentRemove
<1>3. ASSUME NEW t \in Tasks, Update(t) PROVE TypeOK'
  <2> DEFINE m == call[t].mode
  <2>1. m \in Modes /\ call[t].data \in Data /\ call' \in Calls
    BY <1>3 DEF Update, TypeOK, CallRecords, Calls
  <2>2. CASE db.persistent[m] # None
    <3>1. WriteNotes(db.index[db.persistent[m]].name, call[t].data) /\ UNCHANGED db
      BY <1>3, <2>2 DEF Update, MemoryOf
    <3>2. db.index[db.persistent[m]].name \in Names
      BY <1>3, <2>1, <2>2 DEF Update, Known, TypeOK, Images, Memory
    <3>3. files' \in Folder /\ garbled' \subseteq Names
      BY <2>1, <3>1, <3>2, WriteType
    <3>4. QED BY <1>3, <2>1, <3>1, <3>3 DEF Update, TypeOK, Folder, Calls, media, saving, bounds
  <2>3. CASE db.persistent[m] = None
    <3>1. PICK name \in FreeNames(m, "persistent") :
            /\ db.latest < MaxMemories
            /\ WriteNotes(name, call[t].data)
            /\ db' = [Added(m, "persistent", name) EXCEPT !.persistent[m] = db.latest]
      BY <1>3, <2>3 DEF Update
    <3>2. "persistent" \in Kinds
      BY DEF Kinds
    <3>3. name \in Names
      BY <2>1, <3>1, <3>2, NamesAreFree
    <3>4. db' \in Images
      <4> DEFINE added == Added(m, "persistent", name)
      <4>1. added \in Images /\ db.latest \in Ids
        BY <2>1, <3>1, <3>2, <3>3, AddedFields
      <4>2. db' = [added EXCEPT !.persistent[m] = db.latest]
        BY <3>1
      <4> HIDE DEF added
      <4>3. QED BY <2>1, <4>1, <4>2 DEF Images
    <3>5. files' \in Folder /\ garbled' \subseteq Names
      BY <2>1, <3>1, <3>3, WriteType
    <3>6. QED BY <1>3, <2>1, <3>4, <3>5 DEF Update, TypeOK, Folder, Calls, media, saving, bounds
  <2>4. QED BY <2>2, <2>3
<1>4. ASSUME NEW t \in Tasks, NEW m \in Modes, NEW length \in Lengths, Record(t, m, length)
      PROVE  TypeOK'
  <2>1. PICK name \in FreeNames(m, "fleeting") :
          /\ db.latest < MaxMemories
          /\ WriteNotes(name, Text(m, length))
          /\ db' = Added(m, "fleeting", name)
    BY <1>4 DEF Record
  <2>2. "fleeting" \in Kinds /\ Text(m, length) \in Data
    BY TextIsOf, MemoriesAssumption DEF Kinds, Data
  <2>3. name \in Names
    BY <2>1, <2>2, NamesAreFree
  <2>4. db' \in Images
    BY <2>1, <2>2, <2>3, AddedFields
  <2>5. files' \in Folder /\ garbled' \subseteq Names
    BY <2>1, <2>2, <2>3, WriteType
  <2>6. QED BY <1>4, <2>4, <2>5 DEF Record, TypeOK, Folder, media, saving
<1>5. CASE Panic
  BY <1>5 DEF Panic, TypeOK, notes, media, saving, bounds
<1>6. ASSUME NEW c \in Clients, NEW m \in Modes, TakeMode(c, m) PROVE TypeOK'
  <2>1. db.persistent[m] \in Ids \cup {None}
    BY DEF TypeOK, Images
  <2>2. QED BY <1>6, <2>1, TakeType DEF TakeMode
<1>7. ASSUME NEW c \in Clients, NEW i \in Ids, TakeMemory(c, i) PROVE TypeOK'
  <2>1. db.index[i].mode \in Modes
    BY <1>7 DEF TakeMemory, TypeOK, Images, Memory
  <2>2. QED BY <1>7, <2>1, TakeType DEF TakeMemory
<1>8. ASSUME NEW c \in Clients, UpdateMode(c) PROVE TypeOK'
  <2>1. /\ copy[c].mode \in Modes /\ copy[c].memory \in Ids \cup {None}
        /\ copy[c].lost \in BOOLEAN /\ copy' \in Taken
    BY <1>8 DEF UpdateMode, TypeOK, Copies, Taken
  <2>2. db' \in Images
    BY <1>8, <2>1 DEF UpdateMode, TypeOK, Images
  <2>3. QED BY <1>8, <2>1, <2>2 DEF UpdateMode, TypeOK, Taken, notes, media, saving, bounds
<1>9. ASSUME NEW c \in Clients, NEW length \in Lengths, UpdateMemory(c, length)
      PROVE  TypeOK'
  <2>1. copy[c].mode \in Modes /\ copy[c].lost \in BOOLEAN /\ copy' \in Taken
    BY <1>9 DEF UpdateMemory, TypeOK, Copies, Taken
  <2>2. Text(copy[c].mode, length) \in Data
    BY <2>1, TextIsOf, MemoriesAssumption DEF Data
  <2>3. files' \in Folder /\ garbled' \subseteq Names /\ astray' \in BOOLEAN
    <3>1. CASE UNCHANGED <<notes, astray>>
      BY <3>1 DEF TypeOK, Folder, notes
    <3>2. CASE /\ db.index[copy[c].memory] # None
               /\ WriteNotes(db.index[copy[c].memory].name, Text(copy[c].mode, length))
               /\ astray' = (astray \/ copy[c].lost)
      <4>1. astray' \in BOOLEAN
        BY <2>1, <3>2 DEF TypeOK
      <4>2. files' \in Folder /\ garbled' \subseteq Names
        BY <2>2, <3>2 DEF WriteNotes, TypeOK, Folder
      <4>3. QED BY <4>1, <4>2
    <3>3. QED BY <1>9, <3>1, <3>2 DEF UpdateMemory
  <2>4. QED BY <1>9, <2>1, <2>3 DEF UpdateMemory, TypeOK, Taken, Folder, media, saving, bounds
<1>10. ASSUME NEW h \in Hashes, AddMedia(h) PROVE TypeOK'
  <2>1. /\ thread' \in {"running", "dead", "malformed"} /\ db' \in Images
        /\ mediaFiles' \subseteq MediaNames /\ cut \subseteq mediaFiles'
        /\ changed' \in BOOLEAN
    BY <1>10, UnderIsName, StoreMediaType DEF AddMedia
  <2>2. QED BY <1>10, <2>1 DEF AddMedia, TypeOK, notes, saving
<1>11. ASSUME NEW h \in Hashes, NEW new \in Hashes, UpdateMedia(h, new) PROVE TypeOK'
  <2>1. /\ thread' \in {"running", "dead", "malformed"} /\ db' \in Images
        /\ mediaFiles' \subseteq MediaNames /\ cut \subseteq mediaFiles'
        /\ changed' \in BOOLEAN
    BY <1>11, UnderIsName, StoreMediaType DEF UpdateMedia
  <2>2. QED BY <1>11, <2>1 DEF UpdateMedia, TypeOK, notes, saving
<1>12. CASE MalformedMedia
  BY <1>12 DEF MalformedMedia, TypeOK, notes, media, saving
<1>13. ASSUME NEW s \in Savers, SaveStep(s) PROVE TypeOK'
  BY <1>13, SaveType DEF TypeOK, SaveRecords, notes, media
<1>14. CASE Crash
  <2>1. /\ files' \in Folder /\ garbled' \subseteq Names
        /\ mediaFiles' \subseteq MediaNames /\ cut' \subseteq mediaFiles'
    BY <1>14, CutType DEF Crash
  <2>2. copy' \in Taken
    <3>1. \A c \in Clients : copy[c] # None => [copy[c] EXCEPT !.lost = TRUE] \in Copies
      BY DEF TypeOK, Copies
    <3>2. QED BY <1>14, <3>1 DEF Crash, Restart, TypeOK, Taken
  <2>3. astray' \in BOOLEAN
    BY <1>14 DEF Crash, Restart, TypeOK, Closed
  <2>4. save' \in [Savers -> SaveRecords] /\ call' \in Calls
    BY <1>14, NoSaveType DEF Crash, Calls
  <2>5. QED BY <1>14, <2>1, <2>2, <2>3, <2>4
            DEF Crash, Restart, TypeOK, SaveRecords, Folder, Calls, Taken
<1>15. CASE UNCHANGED vars
  BY <1>15 DEF vars, TypeOK, notes, media, saving, bounds
<1>16. QED
  BY <1>1, <1>2, <1>3, <1>4, <1>5, <1>6, <1>7, <1>8, <1>9, <1>10, <1>11, <1>12, <1>13,
     <1>14, <1>15 DEF Next, ToolStep, ClientStep, MediaStep

\* Every variable keeps its type.
THEOREM TypeCorrect == Spec => []TypeOK
BY TypeInit, TypeNext, PTL DEF Spec

-----------------------------------------------------------------------------
(* What a step does to the indexes: nothing, or it adds a memory, or it is a  *)
(* crash.  Saves hand on what there was.                                      *)

FilesRemain == \A n \in Names : files[n] # None => files'[n] # None

IndexStays == db'.index = db.index /\ db'.latest = db.latest

AddsMemory(m, kind, name, data) ==
  /\ db.latest \in Ids /\ files[name] = None
  /\ WriteNotes(name, data)
  /\ db'.index = [db.index EXCEPT ![db.latest] = [mode |-> m, kind |-> kind, name |-> name]]
  /\ db'.latest = db.latest + 1 /\ db'.media = db.media
  /\ UNCHANGED <<thread, media, saving, copy, astray>>

\* Of one image or another.
ImagesHandedOn ==
  /\ \A s \in Savers : save'[s].image \in {save[s].image, db, NewDatabase}
  /\ \/ disk'.index = disk.index /\ disk'.latest = disk.latest
     \/ \E s \in Savers : disk'.index = save[s].image.index /\ disk'.latest = save[s].image.latest
  /\ \/ disk'.persistent = disk.persistent
     \/ \E s \in Savers : disk'.persistent = save[s].image.persistent
  /\ \/ disk'.media = disk.media
     \/ \E s \in Savers : disk'.media = save[s].image.media

\* One file of the folder memories is written.
LEMMA WrittenRemains ==
  ASSUME TypeOK, NEW n \in Names, NEW data \in Data, WriteNotes(n, data)
  PROVE  FilesRemain /\ files'[n] = data /\ \A k \in Names \ {n} : files'[k] = files[k]
BY DataIsNotNone DEF FilesRemain, TypeOK, WriteNotes

LEMMA CutRemains ==
  ASSUME TypeOK, CutWrite
  PROVE  /\ FilesRemain
         /\ \A n \in Names : files'[n] = files[n] \/ files'[n] = <<>>
<1>1. <<>> \in Data
  BY DEF Data
<1>2. CASE UNCHANGED files
  BY <1>2 DEF FilesRemain
<1>3. ASSUME NEW n, files' = [files EXCEPT ![n] = <<>>]
      PROVE  FilesRemain /\ \A k \in Names : files'[k] = files[k] \/ files'[k] = <<>>
  BY <1>1, <1>3, DataIsNotNone DEF FilesRemain, TypeOK
<1>4. QED BY <1>2, <1>3 DEF CutWrite, notes

LEMMA UpdateSteps ==
  ASSUME TypeOK, NEW t \in Tasks, Update(t)
  PROVE  LET m == call[t].mode IN
         /\ m \in Modes /\ call[t].data \in Data
         /\ \/ /\ db.persistent[m] \in Ids /\ UNCHANGED db
               /\ db.index[db.persistent[m]] # None
               /\ db.index[db.persistent[m]].name \in Names
               /\ WriteNotes(db.index[db.persistent[m]].name, call[t].data)
            \/ /\ db.persistent[m] = None
               /\ db'.persistent = [db.persistent EXCEPT ![m] = db.latest]
               /\ \E name \in Names :
                    name[1] = m /\ AddsMemory(m, "persistent", name, call[t].data)
<1> DEFINE m == call[t].mode
<1>1. m \in Modes /\ call[t].data \in Data /\ "persistent" \in Kinds
  BY DEF Update, TypeOK, CallRecords, Kinds
<1>2. CASE db.persistent[m] # None
  <2>1. /\ db.index[db.persistent[m]] # None /\ UNCHANGED db /\ db.persistent[m] \in Ids
        /\ WriteNotes(db.index[db.persistent[m]].name, call[t].data)
    BY <1>1, <1>2 DEF Update, Known, MemoryOf, TypeOK, Images
  <2>2. db.index[db.persistent[m]].name \in Names
    BY <2>1 DEF TypeOK, Images, Memory
  <2>3. QED BY <1>1, <2>1, <2>2
<1>3. CASE db.persistent[m] = None
  <2>1. PICK name \in FreeNames(m, "persistent") :
          /\ db.latest < MaxMemories
          /\ WriteNotes(name, call[t].data)
          /\ db' = [Added(m, "persistent", name) EXCEPT !.persistent[m] = db.latest]
    BY <1>3 DEF Update
  <2>2. name \in Names /\ files[name] = None
    BY <1>1, <2>1, NamesAreFree
  <2>3. name[1] = m
    BY DEF FreeNames
  <2> DEFINE added == Added(m, "persistent", name)
             entry == [mode |-> m, kind |-> "persistent", name |-> name]
  <2>4. /\ added \in Images /\ added.persistent = db.persistent /\ added.media = db.media
        /\ added.index = [db.index EXCEPT ![db.latest] = entry]
        /\ added.latest = db.latest + 1 /\ db.latest \in Ids
    BY <1>1, <2>1, <2>2, AddedFields
  <2>5. db' = [added EXCEPT !.persistent[m] = db.latest]
    BY <2>1
  <2>6. /\ db'.persistent = [added.persistent EXCEPT ![m] = db.latest]
        /\ db'.index = added.index /\ db'.latest = added.latest /\ db'.media = added.media
    <3> HIDE DEF added
    <3>1. QED BY <1>1, <2>4, <2>5 DEF Images
  <2>7. AddsMemory(m, "persistent", name, call[t].data)
    <3>1. UNCHANGED <<thread, media, saving, copy, astray>>
      BY DEF Update
    <3> HIDE DEF added
    <3>2. QED BY <1>1, <2>1, <2>2, <2>4, <2>6, <3>1 DEF AddsMemory
  <2>8. QED
    <3> HIDE DEF added
    <3>1. QED BY <1>1, <1>3, <2>2, <2>3, <2>4, <2>6, <2>7
<1>4. QED BY <1>2, <1>3

LEMMA RecordSteps ==
  ASSUME TypeOK, NEW t \in Tasks, NEW m \in Modes, NEW length \in Lengths, Record(t, m, length)
  PROVE  /\ db'.persistent = db.persistent /\ call' = call
         /\ \E name \in Names :
              name[1] = m /\ AddsMemory(m, "fleeting", name, Text(m, length))
<1>1. "fleeting" \in Kinds /\ Text(m, length) \in Data
  BY TextIsOf, MemoriesAssumption DEF Kinds, Data
<1>2. PICK name \in FreeNames(m, "fleeting") :
        /\ db.latest < MaxMemories
        /\ WriteNotes(name, Text(m, length))
        /\ db' = Added(m, "fleeting", name)
  BY DEF Record
<1>3. name \in Names /\ files[name] = None
  BY <1>1, <1>2, NamesAreFree
<1>4. /\ db'.persistent = db.persistent /\ db'.media = db.media
      /\ db'.index =
           [db.index EXCEPT ![db.latest] = [mode |-> m, kind |-> "fleeting", name |-> name]]
      /\ db'.latest = db.latest + 1 /\ db.latest \in Ids
  BY <1>1, <1>2, <1>3, AddedFields
<1>5. UNCHANGED <<thread, media, saving, copy, astray, call>>
  BY DEF Record
<1>6. name[1] = m
  BY DEF FreeNames
<1>7. QED BY <1>2, <1>3, <1>4, <1>5, <1>6 DEF AddsMemory

LEMMA ClientWrites ==
  ASSUME TypeOK, MemoriesTaken, NEW c \in Clients, NEW length \in Lengths, UpdateMemory(c, length)
  PROVE  LET i == copy[c].memory IN
         /\ i \in Ids /\ copy[c].mode \in Modes /\ UNCHANGED db
         /\ \/ UNCHANGED <<notes, astray>>
            \/ /\ db.index[i] # None /\ db.index[i].name \in Names
               /\ Text(copy[c].mode, length) \in Data
               /\ WriteNotes(db.index[i].name, Text(copy[c].mode, length))
               /\ astray' = (astray \/ copy[c].lost)
<1>1. copy[c].memory \in Ids /\ copy[c].mode \in Modes
  BY DEF UpdateMemory, MemoriesTaken, TypeOK, Copies
<1>2. Text(copy[c].mode, length) \in Data
  BY <1>1, TextIsOf, MemoriesAssumption DEF Data
<1>3. db.index[copy[c].memory] # None => db.index[copy[c].memory].name \in Names
  BY <1>1 DEF TypeOK, Images, Memory
<1>4. QED BY <1>1, <1>2, <1>3 DEF UpdateMemory

LEMMA MediaSteps ==
  ASSUME TypeOK, MediaStep
  PROVE  /\ IndexStays /\ db'.persistent = db.persistent
         /\ UNCHANGED <<notes, saving, call, copy, astray>>
<1>1. ASSUME NEW h \in Hashes, NEW under \in MediaNames, NEW indexed,
             StoreMedia(h, under, indexed)
      PROVE  IndexStays /\ db'.persistent = db.persistent
  <2>1. CASE UNCHANGED db
    BY <2>1 DEF IndexStays
  <2>2. CASE \E name : db' = [db EXCEPT !.media = [indexed EXCEPT ![h] = name]]
    BY <2>2 DEF TypeOK, Images, IndexStays
  <2>3. QED BY <1>1, <2>1, <2>2, StoreMediaEffect
<1>2. QED
  BY <1>1, UnderIsName DEF MediaStep, AddMedia, UpdateMedia, MalformedMedia, IndexStays

LEMMA Steps ==
  ASSUME TypeOK, MemoriesTaken, [Next]_vars
  PROVE  \/ IndexStays /\ FilesRemain
         \/ \E m \in Modes, kind \in Kinds, name \in Names, data \in Data :
              name[1] = m /\ AddsMemory(m, kind, name, data)
         \/ Crash
<1>1. ASSUME UNCHANGED <<db, files>> PROVE IndexStays /\ FilesRemain
  BY <1>1 DEF IndexStays, FilesRemain
<1>2. ASSUME NEW t \in Tasks, ToolStep(t)
      PROVE  \/ IndexStays /\ FilesRemain
             \/ \E m \in Modes, kind \in Kinds, name \in Names, data \in Data :
                  name[1] = m /\ AddsMemory(m, kind, name, data)
  <2>1. ASSUME NEW m, NEW data, GetAndEdit(t, m, data) PROVE UNCHANGED <<db, files>>
    BY <2>1 DEF GetAndEdit, notes
  <2>2. CASE Update(t)
    <3>1. "persistent" \in Kinds
      BY DEF Kinds
    <3>2. CASE /\ UNCHANGED db /\ db.index[db.persistent[call[t].mode]].name \in Names
               /\ WriteNotes(db.index[db.persistent[call[t].mode]].name, call[t].data)
               /\ call[t].data \in Data
      BY <3>2, WrittenRemains DEF IndexStays
    <3>3. QED BY <2>2, <3>1, <3>2, UpdateSteps
  <2>3. ASSUME NEW m \in Modes, NEW length \in Lengths, Record(t, m, length)
        PROVE  \E kind \in Kinds, name \in Names, data \in Data :
                 name[1] = m /\ AddsMemory(m, kind, name, data)
    <3>1. "fleeting" \in Kinds /\ Text(m, length) \in Data
      BY TextIsOf, MemoriesAssumption DEF Kinds, Data
    <3>2. QED BY <2>3, <3>1, RecordSteps
  <2>4. QED BY <1>1, <1>2, <2>1, <2>2, <2>3 DEF ToolStep, PersistentAdd, PersistentRemove
<1>3. ASSUME NEW c \in Clients, ClientStep(c) PROVE IndexStays /\ FilesRemain
  <2>1. ASSUME NEW item, NEW m, NEW i, Take(c, item, m, i) PROVE UNCHANGED <<db, files>>
    BY <2>1 DEF Take, notes
  <2>2. ASSUME UpdateMode(c) PROVE IndexStays /\ FilesRemain
    BY <2>2 DEF UpdateMode, TypeOK, Images, IndexStays, FilesRemain, notes
  <2>3. ASSUME NEW length \in Lengths, UpdateMemory(c, length) PROVE IndexStays /\ FilesRemain
    BY <1>1, <2>3, ClientWrites, WrittenRemains DEF IndexStays, notes
  <2>4. QED BY <1>1, <1>3, <2>1, <2>2, <2>3 DEF ClientStep, TakeMode, TakeMemory
<1>4. CASE MediaStep
  BY <1>4, MediaSteps DEF FilesRemain, notes
<1>5. ASSUME NEW s \in Savers, SaveStep(s) PROVE UNCHANGED <<db, files>>
  BY <1>5, SaveType DEF notes
<1>6. CASE Panic \/ UNCHANGED vars
  BY <1>1, <1>6 DEF Panic, vars, notes
<1>7. QED BY <1>1, <1>2, <1>3, <1>4, <1>5, <1>6 DEF Next

\* Only saves and crashes touch what is saved.
LEMMA Saving ==
  ASSUME [Next]_vars
  PROVE  (\E s \in Savers : SaveStep(s)) \/ Crash \/ UNCHANGED saving
<1>1. CASE \E t \in Tasks : ToolStep(t)
  BY <1>1 DEF ToolStep, PersistentAdd, PersistentRemove, GetAndEdit, Update, Record
<1>2. CASE \E c \in Clients : ClientStep(c)
  BY <1>2 DEF ClientStep, TakeMode, TakeMemory, Take, UpdateMode, UpdateMemory
<1>3. CASE MediaStep
  BY <1>3 DEF MediaStep, AddMedia, UpdateMedia, MalformedMedia
<1>4. QED BY <1>1, <1>2, <1>3 DEF Next, Panic, vars

LEMMA HandedOn ==
  ASSUME TypeOK, [Next]_vars
  PROVE  /\ ImagesHandedOn
         /\ Crash => disk' = disk /\ db' = disk /\ save' = [s \in Savers |-> NoSave]
<1>1. Crash => disk' = disk /\ db' = disk /\ save' = [s \in Savers |-> NoSave]
  BY DEF Crash, Restart
<1>2. CASE Crash
  BY <1>1, <1>2 DEF ImagesHandedOn, NoSave
<1>3. CASE UNCHANGED saving
  BY <1>1, <1>3 DEF ImagesHandedOn, saving
<1>4. ASSUME NEW s \in Savers, SaveStep(s) PROVE ImagesHandedOn
  <2>1. \A u \in Savers : save'[u].image \in {save[u].image, db, NewDatabase}
    BY <1>4 DEF SaveStep, BeginSave, SaveModes, SaveMedia, SaveMemories, SaveFails, NoSave, TypeOK
  <2>2. /\ \/ disk'.index = disk.index /\ disk'.latest = disk.latest
           \/ disk'.index = save[s].image.index /\ disk'.latest = save[s].image.latest
        /\ disk'.persistent = disk.persistent \/ disk'.persistent = save[s].image.persistent
        /\ disk'.media = disk.media \/ disk'.media = save[s].image.media
    BY <1>4 DEF SaveStep, BeginSave, SaveModes, SaveMedia, SaveMemories, SaveFails, Cloned,
                TypeOK, Images
  <2>3. QED BY <2>1, <2>2 DEF ImagesHandedOn
<1>5. QED BY <1>1, <1>2, <1>3, <1>4, Saving

-----------------------------------------------------------------------------
(* Every memory has its file *)

FilesIn(image, folder) ==
  \A i \in Ids : image.index[i] # None =>
    /\ folder[image.index[i].name] # None
    /\ \A k \in Ids \ {i} : image.index[k] # None => image.index[k].name # image.index[i].name

LEMMA NotesRemain ==
  ASSUME TypeOK, MemoriesTaken, [Next]_vars
  PROVE  FilesRemain
<1>1. CASE Crash
  BY <1>1, CutRemains DEF Crash
<1>2. ASSUME NEW m \in Modes, NEW kind \in Kinds, NEW name \in Names, NEW data \in Data,
             AddsMemory(m, kind, name, data)
      PROVE  FilesRemain
  BY <1>2, WrittenRemains DEF AddsMemory
<1>3. QED BY <1>1, <1>2, Steps

LEMMA FilesNext ==
  ASSUME TypeOK, MemoriesTaken, EveryMemoryHasItsFile, [Next]_vars
  PROVE  EveryMemoryHasItsFile'
<1>1. /\ db \in Images /\ disk \in Images
      /\ \A s \in Savers : save[s].image \in Images
  BY DEF TypeOK
<1>2. /\ FilesIn(db, files) /\ FilesIn(disk, files)
      /\ \A s \in Savers : FilesIn(save[s].image, files)
  BY DEF EveryMemoryHasItsFile, FilesOf, FilesIn
<1>3. SUFFICES /\ FilesIn(db', files') /\ FilesIn(disk', files')
               /\ \A s \in Savers : FilesIn(save'[s].image, files')
  BY DEF EveryMemoryHasItsFile, FilesOf, FilesIn
<1>4. FilesRemain
  BY NotesRemain
<1>5. ASSUME NEW image \in Images, NEW later, later.index = image.index, FilesIn(image, files)
      PROVE  FilesIn(later, files')
  <2>1. \A i \in Ids : image.index[i] # None => image.index[i].name \in Names
    BY DEF Images, Memory
  <2>2. QED BY <1>4, <1>5, <2>1 DEF FilesIn, FilesRemain
<1>6. FilesIn(NewDatabase, files')
  BY DEF NewDatabase, FilesIn
<1>7. \A s \in Savers : FilesIn(save'[s].image, files')
  <2>1. \A s \in Savers : save'[s].image \in {save[s].image, db, NewDatabase}
    BY HandedOn DEF ImagesHandedOn
  <2>2. QED BY <1>1, <1>2, <1>5, <1>6, <2>1
<1>8. FilesIn(disk', files')
  BY <1>1, <1>2, <1>5, HandedOn DEF ImagesHandedOn
<1>9. FilesIn(db', files')
  <2>1. CASE IndexStays
    BY <1>1, <1>2, <1>5, <2>1 DEF IndexStays
  <2>2. ASSUME NEW m \in Modes, NEW kind \in Kinds, NEW name \in Names, NEW data \in Data,
               AddsMemory(m, kind, name, data)
        PROVE  FilesIn(db', files')
    <3>1. files'[name] # None /\ files[name] = None
      BY <2>2, WrittenRemains, DataIsNotNone DEF AddsMemory
    <3>2. \A i \in Ids \ {db.latest} :
            /\ db'.index[i] = db.index[i]
            /\ db.index[i] # None =>
                 db.index[i].name \in Names /\ files[db.index[i].name] # None
      BY <1>1, <1>2, <2>2 DEF AddsMemory, FilesIn, Images, Memory
    <3>3. db'.index[db.latest].name = name
      BY <1>1, <2>2 DEF AddsMemory, Images
    <3>4. \A i \in Ids \ {db.latest} : db.index[i] # None => db.index[i].name # name
      BY <3>1, <3>2
    <3>5. QED BY <1>2, <1>4, <2>2, <3>1, <3>2, <3>3, <3>4 DEF FilesIn, FilesRemain
  <2>3. CASE Crash
    BY <1>1, <1>2, <1>5, <2>3, HandedOn
  <2>4. QED BY <2>1, <2>2, <2>3, Steps
<1>10. QED BY <1>7, <1>8, <1>9

-----------------------------------------------------------------------------
(* Indexes grow *)

LEMMA IndexesNext ==
  ASSUME TypeOK, MemoriesTaken, IndexesGrow, [Next]_vars
  PROVE  IndexesGrow' /\ (Crash \/ Kept(db.index, db'.index))
<1>1. /\ db \in Images /\ disk \in Images /\ \A s \in Savers : save[s].image \in Images
  BY DEF TypeOK
<1>2. Indexed(NewDatabase) /\ \A index : Kept(NewDatabase.index, index)
  BY DEF NewDatabase, Indexed, Kept
<1>3. ASSUME NEW image, NEW later, later.index = image.index, later.latest = image.latest,
             Indexed(image)
      PROVE  Indexed(later)
  BY <1>3 DEF Indexed
<1>4. Indexed(disk') /\ \A s \in Savers : Indexed(save'[s].image)
  <2>1. \A s \in Savers : save'[s].image \in {save[s].image, db, NewDatabase}
    BY HandedOn DEF ImagesHandedOn
  <2>2. \A s \in Savers : Indexed(save'[s].image)
    BY <1>2, <2>1 DEF IndexesGrow
  <2>3. Indexed(disk')
    BY <1>3, HandedOn DEF ImagesHandedOn, IndexesGrow
  <2>4. QED BY <2>2, <2>3
<1>5. CASE Indexed(db') /\ Kept(db.index, db'.index)
  <2>1. ASSUME NEW index, Kept(index, db.index) PROVE Kept(index, db'.index)
    BY <1>5, <2>1 DEF Kept
  <2>2. Kept(db.index, db.index)
    BY DEF Kept
  <2>3. \A s \in Savers : save'[s].image \in {save[s].image, db, NewDatabase}
    BY HandedOn DEF ImagesHandedOn
  <2>4. \A s \in Savers : Kept(save'[s].image.index, db.index)
    BY <1>2, <2>2, <2>3 DEF IndexesGrow
  <2>5. Kept(disk'.index, db.index)
    BY HandedOn DEF ImagesHandedOn, IndexesGrow
  <2>6. QED BY <1>4, <1>5, <2>1, <2>4, <2>5 DEF IndexesGrow
<1>6. CASE IndexStays
  BY <1>3, <1>5, <1>6 DEF IndexStays, IndexesGrow, Kept
<1>7. ASSUME NEW m \in Modes, NEW kind \in Kinds, NEW name \in Names, NEW data \in Data,
             AddsMemory(m, kind, name, data)
      PROVE  Indexed(db') /\ Kept(db.index, db'.index)
  <2>1. db.index[db.latest] = None /\ db.latest \in Nat
    BY <1>7 DEF AddsMemory, IndexesGrow, Indexed, Ids
  <2>2. \A i \in Ids \ {db.latest} : db'.index[i] = db.index[i]
    BY <1>1, <1>7 DEF AddsMemory, Images
  <2>3. Kept(db.index, db'.index)
    BY <2>1, <2>2 DEF Kept
  <2>4. \A i \in Ids : i \in Nat
    BY DEF Ids
  <2>5. Indexed(db')
    BY <1>7, <2>1, <2>2, <2>4 DEF AddsMemory, IndexesGrow, Indexed
  <2>6. QED BY <2>3, <2>5
<1>8. CASE Crash
  <2>1. disk' = disk /\ db' = disk /\ \A s \in Savers : save'[s].image = NewDatabase
    BY <1>8, HandedOn DEF NoSave
  <2>2. QED BY <1>2, <1>4, <1>8, <2>1 DEF IndexesGrow, Kept
<1>9. QED BY <1>5, <1>6, <1>7, <1>8, Steps

-----------------------------------------------------------------------------
(* What clients have taken *)

LEMMA TakenNext ==
  ASSUME TypeOK, MemoriesTaken, [Next]_vars
  PROVE  MemoriesTaken'
<1>1. ASSUME UNCHANGED copy PROVE MemoriesTaken'
  BY <1>1 DEF MemoriesTaken
<1>2. ASSUME NEW c \in Clients, ClientStep(c) PROVE MemoriesTaken'
  <2>1. ASSUME NEW m \in Modes, TakeMode(c, m) PROVE MemoriesTaken'
    BY <2>1 DEF TakeMode, Take, TypeOK, MemoriesTaken
  <2>2. ASSUME NEW i \in Ids, TakeMemory(c, i) PROVE MemoriesTaken'
    BY <2>2 DEF TakeMemory, Take, TypeOK, MemoriesTaken
  <2>3. ASSUME copy' = [copy EXCEPT ![c] = None] PROVE MemoriesTaken'
    BY <2>3 DEF TypeOK, MemoriesTaken
  <2>4. QED BY <1>2, <2>1, <2>2, <2>3 DEF ClientStep, UpdateMode, UpdateMemory
<1>3. CASE Crash
  <2>1. \A c \in Clients : copy'[c] # None =>
          copy[c] # None /\ copy'[c].item = copy[c].item /\ copy'[c].memory = copy[c].memory
    BY <1>3 DEF Crash, Restart, TypeOK, Copies
  <2>2. QED BY <2>1 DEF MemoriesTaken
<1>4. CASE \E t \in Tasks : ToolStep(t)
  BY <1>1, <1>4 DEF ToolStep, PersistentAdd, PersistentRemove, GetAndEdit, Update, Record
<1>5. CASE MediaStep
  BY <1>1, <1>5, MediaSteps
<1>6. CASE \E s \in Savers : SaveStep(s)
  BY <1>1, <1>6, SaveType
<1>7. QED BY <1>1, <1>2, <1>3, <1>4, <1>5, <1>6 DEF Next, Panic, vars

-----------------------------------------------------------------------------
(* What access modes name *)

\* What a step that is not a crash makes of the names in memory and of what
\* clients have taken.
NamesHandedOn ==
  /\ astray => astray'
  /\ \A m \in Modes :
       \/ db'.persistent[m] = db.persistent[m]
       \/ \E c \in Clients :
            /\ copy[c] # None /\ copy[c].item = "mode" /\ copy[c].mode = m
            /\ copy[c].lost => astray'
            /\ db'.persistent[m] = copy[c].memory
       \/ OwnIn(db'.index, m, db'.persistent[m])
  /\ \A c \in Clients : copy'[c] # None =>
       \/ copy'[c] = copy[c]
       \/ /\ copy'[c].item = "mode" /\ copy'[c].mode \in Modes
          /\ copy'[c].memory = db.persistent[copy'[c].mode]
       \/ copy'[c].item = "memory" /\ TakenIn(db.index, copy'[c])

LEMMA NameSteps ==
  ASSUME TypeOK, TypeOK', MemoriesTaken, [Next]_vars
  PROVE  NamesHandedOn \/ Crash
<1>1. ASSUME db'.persistent = db.persistent, UNCHANGED <<copy, astray>> PROVE NamesHandedOn
  BY <1>1 DEF NamesHandedOn
<1>2. ASSUME NEW t \in Tasks, ToolStep(t) PROVE NamesHandedOn
  <2>1. ASSUME NEW m, NEW data, GetAndEdit(t, m, data) PROVE NamesHandedOn
    BY <1>1, <2>1 DEF GetAndEdit
  <2>2. ASSUME NEW m \in Modes, NEW length \in Lengths, Record(t, m, length) PROVE NamesHandedOn
    BY <1>1, <2>2, RecordSteps DEF AddsMemory
  <2>3. CASE Update(t)
    <3> DEFINE m == call[t].mode
    <3>1. UNCHANGED <<copy, astray>> /\ m \in Modes
      BY <2>3, UpdateSteps DEF Update
    <3>2. ASSUME NEW name \in Names, AddsMemory(m, "persistent", name, call[t].data),
                 db'.persistent = [db.persistent EXCEPT ![m] = db.latest]
          PROVE  NamesHandedOn
      <4>1. [mode |-> m, kind |-> "persistent", name |-> name] \in Memory
        BY <3>1 DEF Memory, Kinds
      <4>2. db'.index[db.latest] = [mode |-> m, kind |-> "persistent", name |-> name]
        BY <3>2 DEF AddsMemory, TypeOK, Images
      <4>3. OwnIn(db'.index, m, db.latest)
        BY <4>1, <4>2, NoneAssumption DEF OwnIn
      <4>4. \A n \in Modes : \/ db'.persistent[n] = db.persistent[n]
                             \/ n = m /\ db'.persistent[n] = db.latest
        BY <3>1, <3>2 DEF TypeOK, Images
      <4>5. QED BY <3>1, <4>3, <4>4 DEF NamesHandedOn
    <3>3. QED BY <1>1, <2>3, <3>1, <3>2, UpdateSteps
  <2>4. QED BY <1>2, <2>1, <2>2, <2>3 DEF ToolStep, PersistentAdd, PersistentRemove
<1>3. ASSUME NEW c \in Clients, ClientStep(c) PROVE NamesHandedOn
  <2>1. ASSUME NEW m \in Modes, TakeMode(c, m) PROVE NamesHandedOn
    <3>1. \A k \in Clients :
            \/ copy'[k] = copy[k]
            \/ copy'[k] = [item |-> "mode", mode |-> m, memory |-> db.persistent[m], lost |-> FALSE]
      BY <2>1 DEF TakeMode, Take, TypeOK
    <3>2. QED BY <2>1, <3>1 DEF TakeMode, Take, NamesHandedOn
  <2>2. ASSUME NEW i \in Ids, TakeMemory(c, i) PROVE NamesHandedOn
    <3>1. \A k \in Clients :
            \/ copy'[k] = copy[k]
            \/ copy'[k] = [item |-> "memory", mode |-> db.index[i].mode, memory |-> i, lost |-> FALSE]
      BY <2>2 DEF TakeMemory, Take, TypeOK
    <3>2. TakenIn(db.index, [item |-> "memory", mode |-> db.index[i].mode, memory |-> i, lost |-> FALSE])
      BY <2>2 DEF TakeMemory, TakenIn
    <3>3. QED BY <2>2, <3>1, <3>2 DEF TakeMemory, Take, NamesHandedOn
  <2>3. CASE UpdateMode(c)
    <3>1. copy[c] # None /\ copy[c].mode \in Modes /\ copy[c].item = "mode"
      BY <2>3 DEF UpdateMode, TypeOK, Copies
    <3>2. \A m \in Modes : \/ db'.persistent[m] = db.persistent[m]
                           \/ m = copy[c].mode /\ db'.persistent[m] = copy[c].memory
      BY <2>3, <3>1 DEF UpdateMode, TypeOK, Images
    <3>3. \A k \in Clients : copy'[k] # None => copy'[k] = copy[k]
      BY <2>3 DEF UpdateMode, TypeOK
    <3>4. (astray => astray') /\ (copy[c].lost => astray')
      BY <2>3 DEF UpdateMode
    <3>5. QED BY <3>1, <3>2, <3>3, <3>4 DEF NamesHandedOn
  <2>4. ASSUME NEW length \in Lengths, UpdateMemory(c, length) PROVE NamesHandedOn
    <3>1. \A k \in Clients : copy'[k] # None => copy'[k] = copy[k]
      BY <2>4 DEF UpdateMemory, TypeOK
    <3>2. astray => astray'
      BY <2>4 DEF UpdateMemory
    <3>3. db' = db
      BY <2>4 DEF UpdateMemory
    <3>4. QED BY <3>1, <3>2, <3>3 DEF NamesHandedOn
  <2>5. QED BY <1>3, <2>1, <2>2, <2>3, <2>4 DEF ClientStep
<1>4. CASE MediaStep
  BY <1>1, <1>4, MediaSteps
<1>5. CASE \E s \in Savers : SaveStep(s)
  BY <1>1, <1>5, SaveType
<1>6. CASE Panic \/ UNCHANGED vars
  BY <1>1, <1>6 DEF Panic, vars
<1>7. QED BY <1>2, <1>3, <1>4, <1>5, <1>6 DEF Next

LEMMA NamesNext ==
  ASSUME TypeOK, TypeOK', MemoriesTaken, IndexesGrow, NamesAreOwn, [Next]_vars
  PROVE  NamesAreOwn'
<1> SUFFICES ASSUME ~astray'
             PROVE  /\ \A m \in Modes : OwnIn(db'.index, m, db'.persistent[m])
                    /\ \A m \in Modes : OwnIn(db'.index, m, disk'.persistent[m])
                    /\ \A s \in Savers, m \in Modes :
                         OwnIn(db'.index, m, save'[s].image.persistent[m])
                    /\ \A c \in Clients :
                         copy'[c] # None /\ ~copy'[c].lost => TakenIn(db'.index, copy'[c])
  BY DEF NamesAreOwn
<1>1. ~astray
  <2>1. CASE NamesHandedOn
    BY <2>1 DEF NamesHandedOn
  <2>2. CASE Crash
    BY <2>2 DEF Crash, Restart
  <2>3. QED BY <2>1, <2>2, NameSteps
<1>2. /\ \A m \in Modes : OwnIn(db.index, m, db.persistent[m])
      /\ \A m \in Modes : OwnIn(db.index, m, disk.persistent[m])
      /\ \A s \in Savers, m \in Modes : OwnIn(db.index, m, save[s].image.persistent[m])
      /\ \A c \in Clients : copy[c] # None /\ ~copy[c].lost => TakenIn(db.index, copy[c])
  BY <1>1 DEF NamesAreOwn
<1>3. /\ \A m \in Modes : db.persistent[m] \in Ids \cup {None}
      /\ \A m \in Modes : disk.persistent[m] \in Ids \cup {None}
      /\ \A s \in Savers, m \in Modes : save[s].image.persistent[m] \in Ids \cup {None}
      /\ \A c \in Clients : copy[c] # None =>
           /\ copy[c].mode \in Modes /\ copy[c].memory \in Ids \cup {None}
           /\ copy[c].item \in {"mode", "memory"}
           /\ copy[c].item = "memory" => copy[c].memory \in Ids
  BY DEF TypeOK, Images, Copies, MemoriesTaken
<1>4. \A m \in Modes : \A index : OwnIn(index, m, None)
  BY DEF OwnIn
<1>5. CASE NamesHandedOn /\ Kept(db.index, db'.index)
  <2>1. \A m \in Modes, i \in Ids \cup {None} : OwnIn(db.index, m, i) => OwnIn(db'.index, m, i)
    BY <1>5 DEF OwnIn, Kept
  <2>2. \A m \in Modes : OwnIn(db'.index, m, db'.persistent[m])
    <3>1. ASSUME NEW m \in Modes, NEW c \in Clients, copy[c] # None, copy[c].item = "mode",
                 copy[c].mode = m, copy[c].lost => astray', db'.persistent[m] = copy[c].memory
          PROVE  OwnIn(db'.index, m, db'.persistent[m])
      <4>1. OwnIn(db.index, m, copy[c].memory)
        BY <1>2, <3>1 DEF TakenIn
      <4>2. QED BY <1>3, <2>1, <3>1, <4>1
    <3>2. \A m \in Modes : OwnIn(db'.index, m, db.persistent[m])
      BY <1>2, <1>3, <2>1
    <3>3. QED BY <1>5, <3>1, <3>2 DEF NamesHandedOn
  <2>3. \A m \in Modes : OwnIn(db'.index, m, disk'.persistent[m])
    <3>1. \/ disk'.persistent = disk.persistent
          \/ \E s \in Savers : disk'.persistent = save[s].image.persistent
      BY HandedOn DEF ImagesHandedOn
    <3>2. QED BY <1>2, <1>3, <2>1, <3>1
  <2>4. \A s \in Savers, m \in Modes : OwnIn(db'.index, m, save'[s].image.persistent[m])
    <3>1. \A s \in Savers : save'[s].image \in {save[s].image, db, NewDatabase}
      BY HandedOn DEF ImagesHandedOn
    <3>2. \A m \in Modes : NewDatabase.persistent[m] = None
      BY DEF NewDatabase
    <3>3. QED BY <1>2, <1>3, <1>4, <2>1, <3>1, <3>2
  <2>5. ASSUME NEW c \in Clients, copy'[c] # None, ~copy'[c].lost
        PROVE  TakenIn(db'.index, copy'[c])
    <3>1. CASE copy'[c] = copy[c]
      <4>1. TakenIn(db.index, copy[c]) /\ copy[c] # None
        BY <1>2, <2>5, <3>1
      <4>2. CASE copy[c].item = "mode"
        BY <1>3, <2>1, <3>1, <4>1, <4>2 DEF TakenIn
      <4>3. CASE copy[c].item = "memory"
        BY <1>3, <1>5, <3>1, <4>1, <4>3 DEF TakenIn, Kept
      <4>4. QED BY <1>3, <4>1, <4>2, <4>3
    <3>2. CASE /\ copy'[c].item = "mode" /\ copy'[c].mode \in Modes
               /\ copy'[c].memory = db.persistent[copy'[c].mode]
      BY <1>2, <1>3, <2>1, <3>2 DEF TakenIn
    <3>3. CASE copy'[c].item = "memory" /\ TakenIn(db.index, copy'[c])
      <4>1. copy'[c].memory \in Ids
        BY <2>5, <3>3, TakenNext DEF MemoriesTaken
      <4>2. QED BY <1>5, <3>3, <4>1 DEF TakenIn, Kept
    <3>4. QED BY <1>5, <2>5, <3>1, <3>2, <3>3 DEF NamesHandedOn
  <2>6. QED BY <2>2, <2>3, <2>4, <2>5
<1>6. CASE Crash
  <2>1. /\ db' = disk /\ disk' = disk /\ \A s \in Savers : save'[s].image = NewDatabase
        /\ Closed(disk)
    BY <1>6, HandedOn DEF Crash, Restart, NoSave
  <2>2. \A m \in Modes : OwnIn(disk.index, m, disk.persistent[m])
    <3>1. \A m \in Modes : disk.persistent[m] # None =>
            disk.persistent[m] \in Ids /\ disk.index[disk.persistent[m]] # None
      BY <1>3, <2>1 DEF Closed
    <3>2. QED BY <1>2, <3>1 DEF OwnIn, IndexesGrow, Kept
  <2>3. \A s \in Savers, m \in Modes : OwnIn(disk.index, m, save'[s].image.persistent[m])
    BY <2>1 DEF NewDatabase, OwnIn
  <2>4. ASSUME NEW c \in Clients, copy'[c] # None, ~copy'[c].lost
        PROVE  TakenIn(disk.index, copy'[c])
    <3>1. /\ copy[c] # None /\ copy'[c] = copy[c]
          /\ copy[c].memory # None => disk.index[copy[c].memory] # None
      BY <1>6, <2>4 DEF Crash, Restart, TypeOK, Copies
    <3>2. TakenIn(db.index, copy[c])
      BY <1>2, <2>4, <3>1
    <3>3. copy[c].memory # None =>
            copy[c].memory \in Ids /\ disk.index[copy[c].memory] = db.index[copy[c].memory]
      BY <1>3, <3>1 DEF IndexesGrow, Kept
    <3>4. copy[c].item = "memory" => copy[c].memory # None
      BY <1>3, <3>1, NoneAssumption
    <3>5. QED BY <1>3, <3>1, <3>2, <3>3, <3>4 DEF TakenIn, OwnIn
  <2>5. QED BY <2>1, <2>2, <2>3, <2>4
<1>7. QED BY <1>5, <1>6, NameSteps, IndexesNext

-----------------------------------------------------------------------------
(* Saves *)

LEMMA StayAstray ==
  ASSUME TypeOK, TypeOK', MemoriesTaken, [Next]_vars
  PROVE  astray => astray'
<1>1. CASE NamesHandedOn
  BY <1>1 DEF NamesHandedOn
<1>2. CASE Crash
  BY <1>2 DEF Crash, Restart
<1>3. QED BY <1>1, <1>2, NameSteps

LEMMA ClosedIn == \A image, later :
  /\ later.persistent = image.persistent /\ later.index = image.index /\ Closed(image)
  => Closed(later)
BY DEF Closed

LEMMA DatabaseClosed ==
  ASSUME NamesAreOwn, ~astray
  PROVE  Closed(db)
BY DEF NamesAreOwn, OwnIn, Closed

\* What a save says of itself, with its record, the saved persistent memories
\* and the records of all.
LoneIn(s, saves, persistent, lost) ==
  saves[s].stage # "idle" =>
    /\ saves[s].alone => \A u \in Savers \ {s} : saves[u].stage = "idle"
    /\ saves[s].alone /\ saves[s].stage # "modes" => persistent = saves[s].image.persistent
    /\ ~lost => Closed(saves[s].image)

LEMMA SavesNext ==
  ASSUME TypeOK, TypeOK', MemoriesTaken, NamesAreOwn, LoneSaves, SavedTogether, [Next]_vars
  PROVE  LoneSaves' /\ SavedTogether'
<1> SUFFICES /\ \A u \in Savers : LoneIn(u, save', disk'.persistent, astray')
             /\ whole' /\ ~astray' => Closed(disk')
  BY DEF LoneSaves, SavedTogether, LoneIn, Closed
<1>1. /\ \A u \in Savers : LoneIn(u, save, disk.persistent, astray)
      /\ whole /\ ~astray => Closed(disk)
  BY DEF LoneSaves, SavedTogether, LoneIn, Closed
<1>2. astray => astray'
  BY StayAstray
<1>3. CASE UNCHANGED saving
  <2>1. disk' = disk /\ save' = save /\ whole' = whole
    BY <1>3 DEF saving
  <2>2. QED BY <1>1, <1>2, <2>1 DEF LoneIn
<1>4. CASE Crash
  <2>1. /\ disk' = disk /\ whole' = whole
        /\ \A u \in Savers : save'[u].stage = "idle"
    BY <1>4 DEF Crash, NoSave
  <2>2. QED BY <1>1, <1>2, <2>1 DEF LoneIn
<1>5. ASSUME NEW s \in Savers, SaveStep(s)
      PROVE  /\ \A u \in Savers : LoneIn(u, save', disk'.persistent, astray')
             /\ whole' /\ ~astray' => Closed(disk')
  <2>1. astray' = astray
    BY <1>5, SaveType
  <2>2. CASE BeginSave(s)
    <3>1. /\ \A u \in Savers \ {s} : save'[u].stage = save[u].stage /\ ~save'[u].alone
                                      /\ save'[u].image = save[u].image
          /\ disk' = disk /\ whole' = whole
      BY <2>2 DEF BeginSave, TypeOK
    <3>2. /\ save'[s].stage = "modes" /\ save'[s].image = db
          /\ save'[s].alone => \A u \in Savers \ {s} : save[u].stage = "idle"
      BY <2>2 DEF BeginSave, Others
    <3>3. LoneIn(s, save', disk'.persistent, astray')
      BY <2>1, <3>1, <3>2, DatabaseClosed DEF LoneIn
    <3>4. \A u \in Savers \ {s} : LoneIn(u, save', disk'.persistent, astray')
      BY <1>1, <2>1, <3>1 DEF LoneIn
    <3>5. QED BY <1>1, <2>1, <3>1, <3>3, <3>4
  <2>3. CASE SaveModes(s) \/ SaveMedia(s)
    <3>1. /\ \A u \in Savers \ {s} : save'[u] = save[u]
          /\ save'[s].image = save[s].image /\ save'[s].alone = save[s].alone
          /\ save[s].stage # "idle" /\ save'[s].stage \in {"media", "memories"}
          /\ whole' = FALSE
      BY <2>3 DEF SaveModes, SaveMedia, TypeOK
    <3>2. \/ disk'.persistent = save[s].image.persistent
          \/ save[s].stage # "modes" /\ disk'.persistent = disk.persistent
      BY <2>3 DEF SaveModes, SaveMedia, Cloned, TypeOK, Images
    <3>3. LoneIn(s, save', disk'.persistent, astray')
      BY <1>1, <2>1, <3>1, <3>2 DEF LoneIn
    <3>4. \A u \in Savers \ {s} : LoneIn(u, save', disk'.persistent, astray')
      BY <1>1, <2>1, <3>1 DEF LoneIn
    <3>5. QED BY <3>1, <3>3, <3>4
  <2>4. CASE SaveMemories(s) \/ SaveFails(s)
    <3>1. /\ \A u \in Savers \ {s} : save'[u] = save[u]
          /\ save'[s].stage = "idle" /\ disk'.persistent = disk.persistent
      <4>1. CASE SaveMemories(s)
        BY <4>1 DEF SaveMemories, NoSave, TypeOK, Images
      <4>2. CASE SaveFails(s)
        BY <4>2 DEF SaveFails, NoSave, TypeOK
      <4>3. QED BY <2>4, <4>1, <4>2
    <3>2. \A u \in Savers : LoneIn(u, save', disk'.persistent, astray')
      BY <1>1, <2>1, <3>1 DEF LoneIn
    <3>3. whole' /\ ~astray' => Closed(disk')
      <4>1. CASE SaveMemories(s)
        <5>1. /\ save[s].stage = "memories" /\ whole' = save[s].alone
              /\ disk'.index = save[s].image.index
          BY <4>1 DEF SaveMemories, TypeOK, Images
        <5>2. save[s].alone /\ ~astray =>
                disk.persistent = save[s].image.persistent /\ Closed(save[s].image)
          BY <1>1, <5>1 DEF LoneIn
        <5>3. QED BY <2>1, <3>1, <5>1, <5>2, ClosedIn
      <4>2. CASE SaveFails(s)
        BY <1>1, <2>1, <4>2 DEF SaveFails
      <4>3. QED BY <2>4, <4>1, <4>2
    <3>4. QED BY <3>2, <3>3
  <2>5. QED BY <1>5, <2>2, <2>3, <2>4 DEF SaveStep
<1>6. QED BY <1>3, <1>4, <1>5, Saving

-----------------------------------------------------------------------------
(* Media *)

WholeIn(image, folder, broken) ==
  \A h \in Hashes : image.media[h] # None =>
    image.media[h] \in folder \ broken /\ Head(image.media[h])[1] = h

\* The media folder keeps its files, and no file of it is broken later.
MediaRemain == mediaFiles \subseteq mediaFiles' /\ cut' \cap mediaFiles = cut \cap mediaFiles

LEMMA MediaFolder ==
  ASSUME TypeOK, [Next]_vars
  PROVE  MediaRemain
<1>1. ASSUME UNCHANGED media PROVE MediaRemain
  BY <1>1 DEF media, MediaRemain
<1>2. CASE \E t \in Tasks : ToolStep(t)
  BY <1>1, <1>2 DEF ToolStep, PersistentAdd, PersistentRemove, GetAndEdit, Update, Record
<1>3. CASE \E c \in Clients : ClientStep(c)
  BY <1>1, <1>3 DEF ClientStep, TakeMode, TakeMemory, Take, UpdateMode, UpdateMemory
<1>4. CASE MediaStep
  <2>1. mediaFiles \subseteq mediaFiles' /\ cut' = cut
    BY <1>4 DEF MediaStep, AddMedia, UpdateMedia, MalformedMedia, StoreMedia, media
  <2>2. QED BY <2>1 DEF MediaRemain
<1>5. CASE Crash
  <2>1. CASE UNCHANGED media
    BY <1>1, <2>1
  <2>2. CASE \E n \in MediaBeingWritten : mediaFiles' = mediaFiles \cup {n} /\ cut' = cut \cup {n}
    <3>1. \A n \in MediaBeingWritten : n \notin mediaFiles
      BY DEF MediaBeingWritten, MediaBytes
    <3>2. QED BY <2>2, <3>1 DEF MediaRemain
  <2>3. QED BY <1>5, <2>1, <2>2 DEF Crash, CutWrite
<1>6. CASE \E s \in Savers : SaveStep(s)
  BY <1>1, <1>6, SaveType
<1>7. CASE Panic \/ UNCHANGED vars
  BY <1>1, <1>7 DEF Panic, vars
<1>8. QED BY <1>2, <1>3, <1>4, <1>5, <1>6, <1>7 DEF Next

\* Which media the index in memory has.
LEMMA MediaIndexes ==
  ASSUME TypeOK, [Next]_vars
  PROVE  MediaStep \/ db'.media \in {db.media, disk.media}
<1>1. CASE \E t \in Tasks : ToolStep(t)
  <2>1. ASSUME NEW t \in Tasks, Update(t) PROVE db'.media = db.media
    BY <2>1, UpdateSteps DEF AddsMemory
  <2>2. ASSUME NEW t \in Tasks, NEW m \in Modes, NEW length \in Lengths, Record(t, m, length)
        PROVE  db'.media = db.media
    BY <2>2, RecordSteps DEF AddsMemory
  <2>3. QED BY <1>1, <2>1, <2>2 DEF ToolStep, PersistentAdd, PersistentRemove, GetAndEdit
<1>2. CASE \E c \in Clients : ClientStep(c)
  <2>1. ASSUME NEW c \in Clients, UpdateMode(c) PROVE db'.media = db.media
    BY <2>1 DEF UpdateMode, TypeOK, Images
  <2>2. QED BY <1>2, <2>1 DEF ClientStep, TakeMode, TakeMemory, Take, UpdateMemory
<1>3. CASE Panic \/ Crash \/ UNCHANGED vars
  BY <1>3 DEF Panic, Crash, Restart, vars
<1>4. CASE \E s \in Savers : SaveStep(s)
  BY <1>4, SaveType
<1>5. QED BY <1>1, <1>2, <1>3, <1>4 DEF Next

LEMMA MediaNext ==
  ASSUME TypeOK, MediaHaveTheirData, [Next]_vars
  PROVE  MediaHaveTheirData'
<1> SUFFICES /\ WholeIn(db', mediaFiles', cut') /\ WholeIn(disk', mediaFiles', cut')
             /\ \A s \in Savers : WholeIn(save'[s].image, mediaFiles', cut')
  BY DEF MediaHaveTheirData, MediaWhole, WholeIn
<1>1. ASSUME NEW image, WholeIn(image, mediaFiles, cut) PROVE WholeIn(image, mediaFiles', cut')
  BY <1>1, MediaFolder DEF WholeIn, MediaRemain
<1>2. /\ WholeIn(db, mediaFiles', cut') /\ WholeIn(disk, mediaFiles', cut')
      /\ \A s \in Savers : WholeIn(save[s].image, mediaFiles', cut')
      /\ WholeIn(NewDatabase, mediaFiles', cut')
  <2>1. WholeIn(NewDatabase, mediaFiles', cut')
    BY DEF WholeIn, NewDatabase
  <2>2. /\ WholeIn(db, mediaFiles, cut) /\ WholeIn(disk, mediaFiles, cut)
        /\ \A s \in Savers : WholeIn(save[s].image, mediaFiles, cut)
    BY DEF MediaHaveTheirData, MediaWhole, WholeIn
  <2>3. QED BY <1>1, <2>1, <2>2
<1>3. ASSUME NEW image, NEW later, later.media = image.media,
             WholeIn(image, mediaFiles', cut')
      PROVE  WholeIn(later, mediaFiles', cut')
  BY <1>3 DEF WholeIn
<1>4. WholeIn(disk', mediaFiles', cut')
  BY <1>2, <1>3, HandedOn DEF ImagesHandedOn
<1>5. \A s \in Savers : WholeIn(save'[s].image, mediaFiles', cut')
  <2>1. \A s \in Savers : save'[s].image \in {save[s].image, db, NewDatabase}
    BY HandedOn DEF ImagesHandedOn
  <2>2. QED BY <1>2, <2>1
<1>6. MediaStep => WholeIn(db', mediaFiles', cut')
  <2> SUFFICES ASSUME MediaStep PROVE WholeIn(db', mediaFiles', cut')
    OBVIOUS
  <2>1. ASSUME NEW h \in Hashes, NEW under \in MediaNames,
               NEW indexed \in [Hashes -> MediaNames \cup {None}],
               \A g \in Hashes : indexed[g] = None \/ indexed[g] = db.media[g],
               StoreMedia(h, under, indexed), UNCHANGED cut
        PROVE  WholeIn(db', mediaFiles', cut')
    <3>1. CASE UNCHANGED db
      BY <1>2, <3>1
    <3>2. ASSUME NEW name \in MediaNames \ mediaFiles, Head(name)[1] = h,
                 mediaFiles' = mediaFiles \cup {name},
                 db' = [db EXCEPT !.media = [indexed EXCEPT ![h] = name]]
          PROVE  WholeIn(db', mediaFiles', cut')
      <4>1. \A g \in Hashes \ {h} : db'.media[g] = indexed[g]
        BY <3>2 DEF TypeOK, Images
      <4>2. db'.media[h] = name
        BY <3>2 DEF TypeOK, Images
      <4>3. name \in mediaFiles' \ cut'
        BY <2>1, <3>2 DEF TypeOK
      <4>4. QED BY <1>2, <2>1, <3>2, <4>1, <4>2, <4>3 DEF WholeIn
    <3>3. QED BY <2>1, <3>1, <3>2, StoreMediaEffect
  <2>2. ASSUME NEW h \in Hashes, AddMedia(h) PROVE WholeIn(db', mediaFiles', cut')
    BY <2>1, <2>2, UnderIsName DEF AddMedia
  <2>3. ASSUME NEW h \in Hashes, NEW new \in Hashes, UpdateMedia(h, new)
        PROVE  WholeIn(db', mediaFiles', cut')
    <3>1. \A g \in Hashes : \/ [db.media EXCEPT ![h] = None][g] = None
                            \/ [db.media EXCEPT ![h] = None][g] = db.media[g]
      BY DEF TypeOK, Images
    <3>2. QED BY <2>1, <2>3, <3>1, UnderIsName DEF UpdateMedia
  <2>4. CASE MalformedMedia
    <3>1. db'.media = db.media
      BY <2>4 DEF MalformedMedia
    <3>2. QED BY <1>2, <1>3, <3>1
  <2>5. QED BY <2>2, <2>3, <2>4 DEF MediaStep
<1>7. CASE db'.media \in {db.media, disk.media}
  <2>1. ASSUME db'.media = db.media PROVE WholeIn(db', mediaFiles', cut')
    BY <1>2, <1>3, <2>1
  <2>2. ASSUME db'.media = disk.media PROVE WholeIn(db', mediaFiles', cut')
    BY <1>2, <1>3, <2>2
  <2>3. WholeIn(db', mediaFiles', cut')
    BY <1>7, <2>1, <2>2
  <2>4. QED BY <1>4, <1>5, <2>3
<1>8. QED BY <1>4, <1>5, <1>6, <1>7, MediaIndexes

-----------------------------------------------------------------------------
(* The database thread *)

\* No name is left for a medium, in this folder.
NoNameIn(folder) ==
  \E h \in Hashes, under \in {<<>>} \cup folder :
    \/ \A n \in FirstBytes .. HashLength : MediaName(h, n, under) \in folder
    \/ Len(under) >= MaxPrefixes

GarbledIn(index, broken) == \E i \in Ids : index[i] # None /\ index[i].name \in broken

LEMMA ThreadNext ==
  ASSUME TypeOK, EveryMemoryHasItsFile, MediaHaveTheirData, NamesAreOwn, ThreadSurvives,
         [Next]_vars
  PROVE  ThreadSurvives'
<1> SUFFICES ASSUME thread' = "dead"
             PROVE  astray' \/ GarbledIn(db'.index, garbled') \/ NoNameIn(mediaFiles')
  BY DEF ThreadSurvives, GarbledIn, NoNameIn, Unnameable
<1>1. CASE thread = "dead" /\ UNCHANGED <<db, notes, media, astray>>
  BY <1>1 DEF ThreadSurvives, GarbledIn, NoNameIn, Unnameable, notes, media
<1>2. CASE Panic
  <2>1. UNCHANGED <<db, notes, astray>>
    BY <1>2 DEF Panic
  <2>2. ASSUME NEW m \in Modes, ~Known(m) PROVE astray
    BY <2>2 DEF Known, NamesAreOwn, OwnIn
  <2>3. ASSUME NEW i \in Ids, db.index[i] # None, ~Readable(i) PROVE GarbledIn(db.index, garbled)
    BY <2>3 DEF Readable, EveryMemoryHasItsFile, FilesOf, GarbledIn
  <2>4. QED BY <1>2, <2>1, <2>2, <2>3 DEF Panic, notes
<1>3. CASE MediaStep
  <2>1. ASSUME NEW h \in Hashes, NEW under \in MediaNames, under \in {<<>>} \cup mediaFiles,
               NEW indexed, StoreMedia(h, under, indexed), thread = "running"
        PROVE  NoNameIn(mediaFiles')
    <3>1. UNCHANGED mediaFiles /\ Unnameable(h, under)
      BY <2>1, StoreMediaEffect
    <3>2. QED BY <2>1, <3>1 DEF NoNameIn, Unnameable
  <2>2. \A h \in Hashes : db.media[h] # None => db.media[h] \in mediaFiles
    BY DEF MediaHaveTheirData, MediaWhole
  <2>3. QED BY <1>3, <2>1, <2>2, UnderIsName DEF MediaStep, AddMedia, UpdateMedia, MalformedMedia
<1>4. CASE \E t \in Tasks : ToolStep(t)
  BY <1>4 DEF ToolStep, PersistentAdd, PersistentRemove, GetAndEdit, Update, Record
<1>5. CASE \E c \in Clients : ClientStep(c)
  BY <1>5 DEF ClientStep, TakeMode, TakeMemory, Take, UpdateMode, UpdateMemory
<1>6. CASE \E s \in Savers : SaveStep(s)
  BY <1>1, <1>6, SaveType
<1>7. CASE Crash
  BY <1>7 DEF Crash, Restart
<1>8. CASE UNCHANGED vars
  BY <1>1, <1>8 DEF vars
<1>9. QED BY <1>2, <1>3, <1>4, <1>5, <1>6, <1>7, <1>8 DEF Next

-----------------------------------------------------------------------------
(* Notes stay in their mode *)

Pure(folder) == \A n \in Names : folder[n] # None => folder[n] \in TextOf(n[1])

LEMMA WritesPure ==
  ASSUME TypeOK, NEW name \in Names, NEW data \in TextOf(name[1]), WriteNotes(name, data),
         Pure(files)
  PROVE  Pure(files')
BY DEF WriteNotes, TypeOK, Pure

LEMMA NamedForMode ==
  ASSUME TypeOK, MemoriesTaken, IndexesGrow, NotesArePure, [Next]_vars
  PROVE  \A i \in Ids : db'.index[i] # None => db'.index[i].name[1] = db'.index[i].mode
<1>1. \A i \in Ids : db.index[i] # None => db.index[i].name[1] = db.index[i].mode
  BY DEF NotesArePure
<1>2. CASE IndexStays
  BY <1>1, <1>2 DEF IndexStays
<1>3. ASSUME NEW m \in Modes, NEW kind \in Kinds, NEW name \in Names, NEW data \in Data,
             name[1] = m, AddsMemory(m, kind, name, data)
      PROVE  \A i \in Ids : db'.index[i] # None => db'.index[i].name[1] = db'.index[i].mode
  <2>1. \A i \in Ids \ {db.latest} : db'.index[i] = db.index[i]
    BY <1>3 DEF AddsMemory, TypeOK, Images
  <2>2. db'.index[db.latest] = [mode |-> m, kind |-> kind, name |-> name]
    BY <1>3 DEF AddsMemory, TypeOK, Images
  <2>3. db'.index[db.latest].name = name /\ db'.index[db.latest].mode = m
    BY <2>2
  <2>4. QED BY <1>1, <1>3, <2>1, <2>3
<1>4. CASE Crash
  BY <1>1, <1>4, HandedOn DEF IndexesGrow, Kept
<1>5. QED BY <1>2, <1>3, <1>4, Steps

LEMMA NotesNext ==
  ASSUME TypeOK, TypeOK', MemoriesTaken, IndexesGrow, NamesAreOwn, NotesArePure, [Next]_vars
  PROVE  NotesArePure'
<1> DEFINE PureCalls(calling) ==
      \A t \in Tasks : calling[t] # None => calling[t].data \in TextOf(calling[t].mode)
<1> SUFFICES ASSUME ~astray' PROVE Pure(files') /\ PureCalls(call')
  BY NamedForMode DEF NotesArePure, Pure
<1>1. ~astray
  BY StayAstray
<1>2. Pure(files) /\ PureCalls(call)
  BY <1>1 DEF NotesArePure, Pure
<1>3. \A i \in Ids : db.index[i] # None => db.index[i].name[1] = db.index[i].mode
  BY DEF NotesArePure
<1>4. ASSUME UNCHANGED <<files, call>> PROVE Pure(files') /\ PureCalls(call')
  BY <1>2, <1>4
<1>5. ASSUME NEW t \in Tasks, NEW m \in Modes, NEW data \in TextOf(m), GetAndEdit(t, m, data)
      PROVE  Pure(files') /\ PureCalls(call')
  <2>1. files' = files
    BY <1>5 DEF GetAndEdit, notes
  <2>2. \A u \in Tasks : call'[u] = call[u] \/ call'[u] = [mode |-> m, data |-> data]
    BY <1>5 DEF GetAndEdit, TypeOK
  <2>3. QED BY <1>2, <2>1, <2>2
<1>6. ASSUME NEW m \in Modes, Reachable(m) PROVE NotesOf(m) \in TextOf(m) \cup {None}
  <2>1. CASE db.persistent[m] = None
    BY <2>1 DEF NotesOf
  <2>2. CASE db.persistent[m] # None
    <3>1. db.persistent[m] \in Ids /\ OwnIn(db.index, m, db.persistent[m])
      BY <1>1, <2>2 DEF TypeOK, Images, NamesAreOwn
    <3>2. /\ db.index[db.persistent[m]].name[1] = m
          /\ db.index[db.persistent[m]].name \in Names
      BY <1>3, <2>2, <3>1 DEF OwnIn, TypeOK, Images, Memory
    <3>3. NotesOf(m) = files[db.index[db.persistent[m]].name]
      BY <2>2 DEF NotesOf
    <3>4. QED BY <1>2, <3>2, <3>3 DEF Pure
  <2>3. QED BY <2>1, <2>2
<1>7. ASSUME NEW t \in Tasks, NEW m \in Modes, NEW length \in Lengths, PersistentAdd(t, m, length)
      PROVE  Pure(files') /\ PureCalls(call')
  <2>1. Text(m, length) \in TextOf(m)
    BY TextIsOf, MemoriesAssumption DEF TextOf
  <2>2. Extended(NotesOf(m), Text(m, length)) \in TextOf(m)
    BY <1>6, <1>7, <2>1, ExtendedKeeps DEF PersistentAdd, TextOf
  <2>3. QED BY <1>5, <1>7, <2>2 DEF PersistentAdd
<1>8. ASSUME NEW t \in Tasks, NEW m \in Modes, NEW numbers \in Removals,
             PersistentRemove(t, m, numbers)
      PROVE  Pure(files') /\ PureCalls(call')
  <2>1. numbers[1] \in Nat /\ numbers[2] \in Nat
    BY MemoriesAssumption
  <2>2. Without(Without(NotesOf(m), numbers[1]), numbers[2]) \in TextOf(m)
    BY <1>6, <1>8, <2>1, WithoutKeeps DEF PersistentRemove, TextOf
  <2>3. QED BY <1>5, <1>8, <2>2 DEF PersistentRemove
<1>9. ASSUME NEW t \in Tasks, Update(t) PROVE Pure(files') /\ PureCalls(call')
  <2> DEFINE m == call[t].mode
  <2>1. call[t].data \in TextOf(m) /\ m \in Modes
    BY <1>2, <1>9, UpdateSteps DEF Update
  <2>2. PureCalls(call')
    BY <1>2, <1>9 DEF Update, TypeOK
  <2>3. CASE /\ db.persistent[m] \in Ids /\ db.index[db.persistent[m]] # None
             /\ db.index[db.persistent[m]].name \in Names
             /\ WriteNotes(db.index[db.persistent[m]].name, call[t].data)
    <3>1. OwnIn(db.index, m, db.persistent[m]) /\ db.persistent[m] # None
      BY <1>1, <2>1, <2>3, NoneAssumption DEF NamesAreOwn
    <3>2. db.index[db.persistent[m]].name[1] = m
      BY <1>3, <2>3, <3>1 DEF OwnIn
    <3>3. QED BY <1>2, <2>1, <2>2, <2>3, <3>2, WritesPure
  <2>4. CASE \E name \in Names : name[1] = m /\ AddsMemory(m, "persistent", name, call[t].data)
    BY <1>2, <2>1, <2>2, <2>4, WritesPure DEF AddsMemory
  <2>5. QED BY <1>9, <2>3, <2>4, UpdateSteps
<1>10. ASSUME NEW t \in Tasks, NEW m \in Modes, NEW length \in Lengths, Record(t, m, length)
       PROVE  Pure(files') /\ PureCalls(call')
  <2>1. Text(m, length) \in TextOf(m)
    BY TextIsOf, MemoriesAssumption DEF TextOf
  <2>2. PICK name \in Names : name[1] = m /\ WriteNotes(name, Text(m, length))
    BY <1>10, RecordSteps DEF AddsMemory
  <2>3. Pure(files')
    BY <1>2, <2>1, <2>2, WritesPure
  <2>4. call' = call
    BY <1>10, RecordSteps
  <2>5. QED BY <1>2, <2>3, <2>4
<1>11. ASSUME NEW c \in Clients, ClientStep(c) PROVE Pure(files') /\ PureCalls(call')
  <2>1. ASSUME NEW length \in Lengths, UpdateMemory(c, length)
        PROVE  Pure(files') /\ PureCalls(call')
    <3> DEFINE i == copy[c].memory
    <3>1. call' = call
      BY <2>1 DEF UpdateMemory
    <3>2. CASE UNCHANGED notes
      BY <1>2, <3>1, <3>2 DEF notes
    <3>3. CASE /\ db.index[i] # None /\ db.index[i].name \in Names
               /\ WriteNotes(db.index[i].name, Text(copy[c].mode, length))
               /\ astray' = (astray \/ copy[c].lost)
      <4>1. TakenIn(db.index, copy[c]) /\ copy[c].item = "memory"
        BY <1>1, <2>1, <3>3 DEF NamesAreOwn, UpdateMemory, TypeOK, Copies
      <4>2. i \in Ids /\ copy[c].mode \in Modes
        BY <2>1, ClientWrites
      <4>3. db.index[i].name[1] = copy[c].mode
        BY <1>3, <3>3, <4>1, <4>2 DEF TakenIn
      <4>4. Text(copy[c].mode, length) \in TextOf(copy[c].mode)
        BY TextIsOf, MemoriesAssumption DEF TextOf
      <4>5. QED BY <1>2, <3>1, <3>3, <4>3, <4>4, WritesPure
    <3>4. QED BY <2>1, <3>2, <3>3, ClientWrites
  <2>2. ASSUME NEW item, NEW m, NEW k, Take(c, item, m, k) PROVE UNCHANGED <<files, call>>
    BY <2>2 DEF Take, notes
  <2>3. UpdateMode(c) => UNCHANGED <<files, call>>
    BY DEF UpdateMode, notes
  <2>4. QED BY <1>4, <1>11, <2>1, <2>2, <2>3 DEF ClientStep, TakeMode, TakeMemory
<1>12. CASE MediaStep
  BY <1>4, <1>12, MediaSteps DEF notes
<1>13. CASE \E s \in Savers : SaveStep(s)
  BY <1>4, <1>13, SaveType DEF notes
<1>14. CASE Crash
  <2>1. \A n \in Names : files'[n] = files[n] \/ files'[n] = <<>>
    BY <1>14, CutRemains DEF Crash
  <2>2. \A m : <<>> \in TextOf(m)
    BY DEF TextOf
  <2>3. Pure(files')
    BY <1>2, <2>1, <2>2 DEF Pure
  <2>4. \A t \in Tasks : call'[t] = None
    BY <1>14 DEF Crash
  <2>5. QED BY <2>3, <2>4
<1>15. CASE Panic \/ UNCHANGED vars
  BY <1>4, <1>15 DEF Panic, vars, notes
<1>16. QED
  BY <1>7, <1>8, <1>9, <1>10, <1>11, <1>12, <1>13, <1>14, <1>15 DEF Next, ToolStep

-----------------------------------------------------------------------------
(* Theorems *)

LEMMA IInvInit == Init => IInv
<1> SUFFICES ASSUME Init PROVE IInv
  OBVIOUS
<1>1. TypeOK
  BY TypeInit
<1>2. /\ db = NewDatabase /\ disk = NewDatabase /\ thread = "running"
      /\ \A s \in Savers : save[s].image = NewDatabase /\ save[s].stage = "idle"
      /\ \A n \in Names : files[n] = None
      /\ \A t \in Tasks : call[t] = None
      /\ \A c \in Clients : copy[c] = None
  BY DEF Init, NoSave
<1>3. /\ \A i \in Ids : NewDatabase.index[i] = None
      /\ \A m \in Modes : NewDatabase.persistent[m] = None
      /\ \A h \in Hashes : NewDatabase.media[h] = None
  BY DEF NewDatabase
<1>4. EveryMemoryHasItsFile /\ MediaHaveTheirData
  BY <1>2, <1>3 DEF EveryMemoryHasItsFile, FilesOf, MediaHaveTheirData, MediaWhole
<1>5. IndexesGrow /\ MemoriesTaken
  BY <1>2, <1>3 DEF IndexesGrow, Indexed, Kept, MemoriesTaken
<1>6. NamesAreOwn /\ LoneSaves /\ SavedTogether
  BY <1>2, <1>3 DEF NamesAreOwn, OwnIn, LoneSaves, SavedTogether, Closed
<1>7. NotesArePure /\ ThreadSurvives
  BY <1>2, <1>3 DEF NotesArePure, ThreadSurvives
<1>8. QED BY <1>1, <1>4, <1>5, <1>6, <1>7 DEF IInv

LEMMA IInvNext == IInv /\ [Next]_vars => IInv'
<1> SUFFICES ASSUME IInv, [Next]_vars PROVE IInv'
  OBVIOUS
<1>1. TypeOK /\ TypeOK'
  BY TypeNext DEF IInv
<1>2. MemoriesTaken /\ MemoriesTaken'
  BY <1>1, TakenNext DEF IInv
<1>3. EveryMemoryHasItsFile' /\ MediaHaveTheirData'
  BY <1>1, <1>2, FilesNext, MediaNext DEF IInv
<1>4. IndexesGrow' /\ NamesAreOwn'
  BY <1>1, <1>2, IndexesNext, NamesNext DEF IInv
<1>5. LoneSaves' /\ SavedTogether'
  BY <1>1, <1>2, SavesNext DEF IInv
<1>6. NotesArePure' /\ ThreadSurvives'
  BY <1>1, <1>2, NotesNext, ThreadNext DEF IInv
<1>7. QED BY <1>1, <1>2, <1>3, <1>4, <1>5, <1>6 DEF IInv

LEMMA Invariant == Spec => []IInv
BY IInvInit, IInvNext, PTL DEF Spec

\* Whatever ids are handed out again after restarts, every memory that an index
\* knows, in memory, saved or being saved, has a file of its own.
THEOREM MemoriesHaveFiles == Spec => []EveryMemoryHasItsFile
<1>1. IInv => EveryMemoryHasItsFile
  BY DEF IInv
<1>2. QED BY <1>1, Invariant, PTL

\* Whatever clients send back of what they took before or after a restart, an
\* access mode names a memory made for it, as long as no restart lost a memory
\* that an access mode or what is sent back names.
THEOREM MemoriesAreOwn == Spec => []OwnMemory
<1>1. IInv => OwnMemory
  BY DEF IInv, NamesAreOwn, OwnIn, OwnMemory
<1>2. QED BY <1>1, Invariant, PTL

\* Every medium that an index names has its data, whole.
THEOREM MediaAreWhole == Spec => []MediaHaveTheirData
<1>1. IInv => MediaHaveTheirData
  BY DEF IInv
<1>2. QED BY <1>1, Invariant, PTL

\* Requests about memories and well-formed media end the database thread only
\* for a lost memory, notes cut inside a character or a medium without a name.
THEOREM ThreadEndsFor == Spec => []ThreadSurvives
<1>1. IInv => ThreadSurvives
  BY DEF IInv
<1>2. QED BY <1>1, Invariant, PTL

\* A save that was alone and ended leaves no access mode without its memory,
\* whatever is changed while it writes.
THEOREM WholeSavesAgree == Spec => []SavedTogether
<1>1. IInv => SavedTogether
  BY DEF IInv
<1>2. QED BY <1>1, Invariant, PTL

\* No line written in one access mode gets into the notes of another.
THEOREM NotesAreApart == Spec => []NotesStayInMode
<1>1. ASSUME IInv, ~astray, NEW i \in Ids, db.index[i] # None
      PROVE  files[db.index[i].name] \in Seq({db.index[i].mode, Blank})
  <2>1. db.index[i].name \in Names /\ files[db.index[i].name] # None
    BY <1>1 DEF IInv, TypeOK, Images, Memory, EveryMemoryHasItsFile, FilesOf
  <2>2. QED BY <1>1, <2>1 DEF IInv, NotesArePure, TextOf
<1>2. IInv => NotesStayInMode
  BY <1>1 DEF NotesStayInMode
<1>3. QED BY <1>2, Invariant, PTL

=============================================================================
