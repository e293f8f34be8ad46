------------------------------ MODULE Memories ------------------------------
(***************************************************************************)
(* Memories and media: src/src/database/memories.rs and media.rs, the      *)
(* requests of src/src/database/mod.rs on them, the Memory tool            *)
(* (memory_tool of src/src/ai_interaction/tools.rs), and what crashes,     *)
(* failed saves and saves that overlap leave of them.  Clients are other   *)
(* processes: what they hold outlives a crash of the server.               *)
(*                                                                         *)
(* The data of a memory or medium is a file of its own, written when the   *)
(* request is handled.  The indexes, and which memory is the persistent    *)
(* one of an access mode, are in the database, which is saved to files     *)
(* written one after the other: access_modes.json, media.json,             *)
(* memories.json.  After a restart the data files that no index knows      *)
(* remain; nothing deletes one.                                            *)
(*                                                                         *)
(* Data is a sequence of lines, and a line stands for the access mode that *)
(* it was written in.  No input has blank lines, so that only the first    *)
(* line of a file can be blank (see Extended).                             *)
(***************************************************************************)
EXTENDS Integers, Sequences

CONSTANTS
  Modes,        \* the access modes
  Tasks,        \* chat rounds, agents and jobs: each makes one tool call at a time
  Clients,      \* clients that edit access modes and memories
  Savers,       \* who asks for saves: the saving thread, clients
  Lengths,      \* lines in what a call or a client writes
  Removals,     \* what a call removes: two line numbers, the highest first
  NameSpan,     \* how many numbers add_memory may add to an id: 100 in the code
  Hashes,       \* the hashes of media, which stand for their data
  FirstBytes,   \* how many bytes of its hash name a medium at least: 12
  HashLength,   \* bytes of a hash: 32
  MaxPrefixes,  \* prefixes that the file system lets a file name take
  MaxMemories,  \* bound: memories indexed at a time
  MaxCalls,     \* bound: tool calls and requests of clients
  MaxFaults,    \* bound: crashes and saves that fail
  Blank, None

Ids == 0 .. MaxMemories - 1
Kinds == {"persistent", "fleeting"}

ASSUME MemoriesAssumption ==
  /\ Lengths \subseteq Nat /\ Blank \notin Modes
  /\ Removals \subseteq {r \in Nat \X Nat : r[1] >= r[2]}
  /\ NameSpan \in Nat \ {0} /\ MaxMemories \in Nat
  /\ FirstBytes \in Nat /\ HashLength \in Nat /\ FirstBytes <= HashLength
  /\ MaxPrefixes \in Nat \ {0}
  /\ MaxCalls \in Nat /\ MaxFaults \in Nat

Data == Seq(Modes \cup {Blank})
Text(m, length) == [i \in 1 .. length |-> m]

\* The access modes of a memory are the one it was recorded in and mode 0.  A
\* file name holds them, a number and the kind; the order in which the hash set
\* gives the modes, which can only keep names apart, is left out.
Names == Modes \X Kinds \X (0 .. MaxMemories + NameSpan)
Memory == [mode : Modes, kind : Kinds, name : Names]

\* The file of a medium: some bytes of its hash before the name it was added
\* under, which is a client's (one client name, the empty sequence, for all) or,
\* for a medium that a client updates, that of its file.
MediaNames == Seq(Hashes \X (FirstBytes .. HashLength))

\* What is saved of the database: persistent_memory of each access mode
\* (access_modes.json), the media, the index and last_memory_id (memories.json).
Images == [persistent : [Modes -> Ids \cup {None}],
           media : [Hashes -> MediaNames \cup {None}],
           index : [Ids -> Memory \cup {None}],
           latest : 0 .. MaxMemories]

\* A call between its Get and its Update: the data it will write.
CallRecords == [mode : Modes, data : Data]

\* An access mode or a memory that a client is about to send back; lost when
\* the index of a later start does not have the memory.
Copies == [item : {"mode", "memory"}, mode : Modes, memory : Ids \cup {None}, lost : BOOLEAN]

Stages == {"idle", "modes", "media", "memories"}

ASSUME NoneAssumption ==
  None \notin Ids \cup Hashes \cup Data \cup Memory \cup MediaNames \cup CallRecords \cup Copies

VARIABLES
  thread,     \* the database thread: running, dead after a panic, or dead
              \* after data that is not base64
  db,         \* the database in memory
  files,      \* the files of the folder memories
  garbled,    \* those of them that a crash cut inside a character
  mediaFiles, \* the files of the folder media
  cut,        \* those of them whose writing was cut by a crash
  changed,    \* changed_since_last_save
  disk,       \* what the saved files hold
  save,       \* the save under way for each requester
  call,       \* the tool call each task has under way
  copy,       \* what each client is about to send back
  whole,      \* history: the saved files are those of one save that was alone
  astray,     \* history: a start found an access mode whose memory was not saved,
              \* or a client sent back an item that names a memory lost in a crash
  calls, faults

notes == <<files, garbled>>
media == <<mediaFiles, cut>>
saving == <<disk, save, whole>>
bounds == <<calls, faults>>
vars == <<thread, db, notes, media, changed, saving, call, copy, astray, bounds>>

NewDatabase == [persistent |-> [m \in Modes |-> None],
                media |-> [h \in Hashes |-> None],
                index |-> [i \in Ids |-> None], latest |-> 0]
NoSave == [stage |-> "idle", image |-> NewDatabase, alone |-> FALSE]

Init ==
  /\ thread = "running"
  /\ db = NewDatabase /\ disk = NewDatabase
  /\ files = [n \in Names |-> None] /\ garbled = {}
  /\ mediaFiles = {} /\ cut = {}
  /\ changed = TRUE
  /\ save = [s \in Savers |-> NoSave] /\ whole = TRUE
  /\ call = [t \in Tasks |-> None]
  /\ copy = [c \in Clients |-> None]
  /\ astray = FALSE
  /\ calls = 0 /\ faults = 0

-----------------------------------------------------------------------------
(* The collection *)

\* Mutants: the random number is drawn once; the memory is not indexed; its id
\* is used again.
NamesDrawnOnce(m, kind) ==
  IF files[<<m, kind, db.latest>>] = None THEN {<<m, kind, db.latest>>}
  ELSE {m} \X {kind} \X (db.latest .. db.latest + NameSpan - 1)
AddedWithoutIndex(m, kind, name) == [db EXCEPT !.latest = @ + 1]
AddedUnderOldId(m, kind, name) ==
  [db EXCEPT !.index[db.latest] = [mode |-> m, kind |-> kind, name |-> name]]

\* The names add_memory may give: the id, or, if that file exists, the id plus
\* a random number, drawn until the file does not exist.
FreeNames(m, kind) ==
  IF files[<<m, kind, db.latest>>] = None THEN {<<m, kind, db.latest>>}
  ELSE {n \in {m} \X {kind} \X (db.latest .. db.latest + NameSpan - 1) : files[n] = None}

Added(m, kind, name) ==
  [db EXCEPT !.index[db.latest] = [mode |-> m, kind |-> kind, name |-> name],
             !.latest = @ + 1]

\* add_memory and update_memory replace the whole file.
WriteNotes(name, data) ==
  /\ files' = [files EXCEPT ![name] = data]
  /\ garbled' = garbled \ {name}

\* Mutant: the memory added last is written.
NewestOf(m) == db.latest - 1

MemoryOf(m) == db.persistent[m]
Closed(image) ==
  \A m \in Modes : image.persistent[m] # None => image.index[image.persistent[m]] # None

\* The memory an access mode names is indexed (the unwraps after
\* get_memory_with_data); its file is there and is text (read_to_string).
Known(m) == db.persistent[m] # None => db.index[db.persistent[m]] # None
Readable(i) == LET name == db.index[i].name IN files[name] # None /\ name \notin garbled
Reachable(m) == Known(m) /\ (db.persistent[m] # None => Readable(db.persistent[m]))

\* What GetPersistentMemoryFor answers; None stands for NoPersistentMemory.
NotesOf(m) == IF db.persistent[m] = None THEN None
              ELSE files[db.index[db.persistent[m]].name]

-----------------------------------------------------------------------------
(* The Memory tool *)

Trimmed(data) == IF data # <<>> /\ Head(data) = Blank THEN Tail(data) ELSE data

\* persistent_add: a newline between what there was and what is added, also
\* when there was nothing.
Extended(data, input) ==
  IF data = None THEN input
  ELSE (IF Trimmed(data) = <<>> THEN <<Blank>> ELSE Trimmed(data)) \o input

Without(data, number) ==
  IF number < Len(data)
  THEN SubSeq(data, 1, number) \o SubSeq(data, number + 2, Len(data)) ELSE data

\* The Get of a call and, with its answer, the data of the Update it will send.
GetAndEdit(t, m, data) ==
  /\ thread = "running" /\ call[t] = None /\ calls < MaxCalls
  /\ call' = [call EXCEPT ![t] = [mode |-> m, data |-> data]]
  /\ calls' = calls + 1
  /\ UNCHANGED <<thread, db, notes, media, changed, saving, copy, astray, faults>>

PersistentAdd(t, m, length) ==
  Reachable(m) /\ GetAndEdit(t, m, Extended(NotesOf(m), Text(m, length)))

\* Numbers are removed from the highest down; one beyond the end is passed
\* over, one given twice removes two lines.
PersistentRemove(t, m, numbers) ==
  /\ Reachable(m) /\ NotesOf(m) # None
  /\ GetAndEdit(t, m, Without(Without(NotesOf(m), numbers[1]), numbers[2]))

\* UpdatePersistentMemoryFor.  The flag is not set.  Of two calls that overlap,
\* the later one drops the lines that the other added.
Update(t) ==
  LET m == call[t].mode IN
  /\ thread = "running" /\ call[t] # None /\ Known(m)
  /\ \/ /\ db.persistent[m] # None
        /\ WriteNotes(db.index[MemoryOf(m)].name, call[t].data)
        /\ UNCHANGED db
     \/ /\ db.persistent[m] = None /\ db.latest < MaxMemories
        /\ \E name \in FreeNames(m, "persistent") :
             /\ WriteNotes(name, call[t].data)
             /\ db' = [Added(m, "persistent", name) EXCEPT !.persistent[m] = db.latest]
  /\ call' = [call EXCEPT ![t] = None]
  /\ UNCHANGED <<thread, media, changed, saving, copy, astray, bounds>>

\* record: an Add request.
Record(t, m, length) ==
  /\ thread = "running" /\ call[t] = None
  /\ calls < MaxCalls /\ db.latest < MaxMemories
  /\ \E name \in FreeNames(m, "fleeting") :
       /\ WriteNotes(name, Text(m, length))
       /\ db' = Added(m, "fleeting", name)
  /\ changed' = TRUE
  /\ calls' = calls + 1
  /\ UNCHANGED <<thread, media, saving, call, copy, astray, faults>>

\* A tool call or the automatic memory of a round (GetAutoMemoryFor) asks for
\* notes that are not indexed, or anyone for a memory that cannot be read.
Panic ==
  /\ thread = "running"
  /\ \/ \E m \in Modes : ~Known(m)
     \/ \E i \in Ids : db.index[i] # None /\ ~Readable(i)
  /\ thread' = "dead"
  /\ UNCHANGED <<db, notes, media, changed, saving, call, copy, astray, bounds>>

-----------------------------------------------------------------------------
(* Clients *)

Take(c, item, m, i) ==
  /\ thread = "running" /\ copy[c] = None /\ calls < MaxCalls
  /\ copy' = [copy EXCEPT ![c] = [item |-> item, mode |-> m, memory |-> i, lost |-> FALSE]]
  /\ calls' = calls + 1
  /\ UNCHANGED <<thread, db, notes, media, changed, saving, call, astray, faults>>

\* A client takes an access mode, or a memory, from its copy of the database,
\* to edit it.
TakeMode(c, m) == Take(c, "mode", m, db.persistent[m])
TakeMemory(c, i) == db.index[i] # None /\ Take(c, "memory", db.index[i].mode, i)

\* Update(AccessMode): the whole item replaces the server's.
UpdateMode(c) ==
  /\ thread = "running" /\ copy[c] # None /\ copy[c].item = "mode"
  /\ db' = [db EXCEPT !.persistent[copy[c].mode] = copy[c].memory]
  /\ changed' = TRUE
  /\ copy' = [copy EXCEPT ![c] = None]
  /\ astray' = (astray \/ copy[c].lost)
  /\ UNCHANGED <<thread, notes, media, saving, call, bounds>>

\* Update(Memory): the data is replaced, the rest of the record is not; an id
\* that is not indexed is ItemNotFound.
UpdateMemory(c, length) ==
  LET i == copy[c].memory IN
  /\ thread = "running" /\ copy[c] # None /\ copy[c].item = "memory"
  /\ \/ /\ db.index[i] # None
        /\ WriteNotes(db.index[i].name, Text(copy[c].mode, length))
        /\ astray' = (astray \/ copy[c].lost)
     \/ /\ db.index[i] = None
        /\ UNCHANGED <<notes, astray>>
  /\ changed' = TRUE
  /\ copy' = [copy EXCEPT ![c] = None]
  /\ UNCHANGED <<thread, db, media, saving, call, bounds>>

-----------------------------------------------------------------------------
(* Media *)

MediaName(h, bytes, under) == <<<<h, bytes>>>> \o under

\* Mutant: the first name is taken, whether or not the file exists.
MediaBytesAnyway(h, under) == {FirstBytes}

\* The shortest prefix of the hash that gives a name no file has.
MediaBytes(h, under) ==
  {n \in FirstBytes .. HashLength :
     /\ MediaName(h, n, under) \notin mediaFiles
     /\ \A k \in FirstBytes .. n - 1 : MediaName(h, k, under) \in mediaFiles}

\* When the whole hash is not enough, the loop of add_media indexes the hash
\* beyond its end; when the name is too long, the file cannot be created.
Unnameable(h, under) ==
  \/ \A n \in FirstBytes .. HashLength : MediaName(h, n, under) \in mediaFiles
  \/ Len(under) >= MaxPrefixes

\* add_media, into the media of the database given.  It panics on a medium
\* that cannot be named.
StoreMedia(h, under, indexed) ==
  \/ /\ ~Unnameable(h, under)
     /\ \E n \in MediaBytes(h, under) :
          /\ mediaFiles' = mediaFiles \cup {MediaName(h, n, under)}
          /\ db' = [db EXCEPT !.media = [indexed EXCEPT ![h] = MediaName(h, n, under)]]
     /\ changed' = TRUE
     /\ UNCHANGED thread
  \/ /\ Unnameable(h, under)
     /\ thread' = "dead"
     /\ UNCHANGED <<mediaFiles, db, changed>>

AddMedia(h) ==
  /\ thread = "running" /\ calls < MaxCalls
  /\ StoreMedia(h, <<>>, db.media)
  /\ calls' = calls + 1
  /\ UNCHANGED <<notes, cut, saving, call, copy, astray, faults>>

\* update_media: the medium is removed and added again, with what may be other
\* data, under the name of its file.  (One that is not there is added: AddMedia.)
UpdateMedia(h, new) ==
  /\ thread = "running" /\ calls < MaxCalls
  /\ db.media[h] # None
  /\ StoreMedia(new, db.media[h], [db.media EXCEPT ![h] = None])
  /\ calls' = calls + 1
  /\ UNCHANGED <<notes, cut, saving, call, copy, astray, faults>>

\* Added or updated with data that is not base64: get_data unwraps the error.
MalformedMedia ==
  /\ thread = "running" /\ calls < MaxCalls
  /\ thread' = "malformed"
  /\ calls' = calls + 1
  /\ UNCHANGED <<db, notes, media, changed, saving, call, copy, astray, faults>>

-----------------------------------------------------------------------------
(* Saving, crashes, restarts.  The writes of a saved file are whole here:   *)
(* Persistence cuts them, and a start then fails.                           *)

Others(s) == {u \in Savers \ {s} : save[u].stage # "idle"}

BeginSave(s) ==
  /\ thread = "running" /\ save[s].stage = "idle" /\ changed
  /\ save' = [u \in Savers |->
       IF u = s THEN [stage |-> "modes", image |-> db, alone |-> Others(s) = {}]
                ELSE [save[u] EXCEPT !.alone = FALSE]]
  /\ changed' = FALSE
  /\ UNCHANGED <<thread, db, notes, media, disk, whole, call, copy, astray, bounds>>

\* Mutant: the database of now, not the clone, is written.
Uncloned(s) == db

Cloned(s) == save[s].image

SaveModes(s) ==
  /\ save[s].stage = "modes"
  /\ disk' = [disk EXCEPT !.persistent = Cloned(s).persistent]
  /\ save' = [save EXCEPT ![s] = [@ EXCEPT !.stage = "media"]]
  /\ whole' = FALSE
  /\ UNCHANGED <<thread, db, notes, media, changed, call, copy, astray, bounds>>

SaveMedia(s) ==
  /\ save[s].stage = "media"
  /\ disk' = [disk EXCEPT !.media = Cloned(s).media]
  /\ save' = [save EXCEPT ![s] = [@ EXCEPT !.stage = "memories"]]
  /\ whole' = FALSE
  /\ UNCHANGED <<thread, db, notes, media, changed, call, copy, astray, bounds>>

SaveMemories(s) ==
  /\ save[s].stage = "memories"
  /\ disk' = [disk EXCEPT !.index = save[s].image.index, !.latest = save[s].image.latest]
  /\ save' = [save EXCEPT ![s] = NoSave]
  /\ whole' = save[s].alone
  /\ UNCHANGED <<thread, db, notes, media, changed, call, copy, astray, bounds>>

\* A file that cannot be created: the save ends there, with an error.
SaveFails(s) ==
  /\ save[s].stage # "idle" /\ faults < MaxFaults
  /\ save' = [save EXCEPT ![s] = NoSave]
  /\ faults' = faults + 1
  /\ UNCHANGED <<thread, db, notes, media, changed, disk, whole, call, copy, astray, calls>>

\* A data file that was being written when the process ended: truncated, or
\* created and not indexed.
BeingWritten ==
  {db.index[i].name : i \in {k \in Ids : db.index[k] # None}}
    \cup UNION {FreeNames(m, kind) : m \in Modes, kind \in Kinds}
MediaBeingWritten ==
  UNION {{MediaName(h, n, under) : n \in MediaBytes(h, under)} :
           h \in Hashes, under \in {<<>>} \cup {db.media[k] : k \in {g \in Hashes : db.media[g] # None}}}

\* What was being written is cut: at a line, for which the empty text stands, or
\* inside a character.
CutWrite ==
  \/ UNCHANGED <<notes, media>>
  \/ /\ thread = "running" /\ db.latest < MaxMemories
     /\ \E n \in BeingWritten :
          /\ files' = [files EXCEPT ![n] = <<>>]
          /\ garbled' \in {garbled \ {n}, garbled \cup {n}}
     /\ UNCHANGED media
  \/ /\ thread = "running"
     /\ \E n \in MediaBeingWritten : mediaFiles' = mediaFiles \cup {n} /\ cut' = cut \cup {n}
     /\ UNCHANGED notes

\* Clients log in again, with the items they had taken.
Restart ==
  /\ thread' = "running"
  /\ db' = disk
  /\ changed' = TRUE
  /\ astray' = (astray \/ ~Closed(disk))
  /\ copy' = [c \in Clients |->
       IF copy[c] # None /\ copy[c].memory # None /\ disk.index[copy[c].memory] = None
       THEN [copy[c] EXCEPT !.lost = TRUE] ELSE copy[c]]

\* The process ends, with the tool calls and saves in it, and is started again;
\* between the two nothing here can happen.
Crash ==
  /\ faults < MaxFaults
  /\ CutWrite
  /\ Restart
  /\ save' = [s \in Savers |-> NoSave]
  /\ call' = [t \in Tasks |-> None]
  /\ faults' = faults + 1
  /\ UNCHANGED <<disk, whole, calls>>

-----------------------------------------------------------------------------
ToolStep(t) ==
  \/ Update(t)
  \/ \E m \in Modes :
       \/ \E length \in Lengths : PersistentAdd(t, m, length) \/ Record(t, m, length)
       \/ \E numbers \in Removals : PersistentRemove(t, m, numbers)

ClientStep(c) ==
  \/ \E m \in Modes : TakeMode(c, m)
  \/ \E i \in Ids : TakeMemory(c, i)
  \/ UpdateMode(c)
  \/ \E length \in Lengths : UpdateMemory(c, length)

MediaStep ==
  \/ \E h \in Hashes : AddMedia(h) \/ \E new \in Hashes : UpdateMedia(h, new)
  \/ MalformedMedia

SaveStep(s) == BeginSave(s) \/ SaveModes(s) \/ SaveMedia(s) \/ SaveMemories(s) \/ SaveFails(s)

Next ==
  \/ \E t \in Tasks : ToolStep(t)
  \/ \E c \in Clients : ClientStep(c)
  \/ Panic
  \/ MediaStep
  \/ \E s \in Savers : SaveStep(s)
  \/ Crash

Spec == Init /\ [][Next]_vars

-----------------------------------------------------------------------------
(* Properties *)

\* Every variable keeps its type.
TypeOK ==
  /\ thread \in {"running", "dead", "malformed"}
  /\ db \in Images /\ disk \in Images
  /\ files \in [Names -> Data \cup {None}] /\ garbled \subseteq Names
  /\ mediaFiles \subseteq MediaNames /\ cut \subseteq mediaFiles
  /\ changed \in BOOLEAN
  /\ save \in [Savers -> [stage : Stages, image : Images, alone : BOOLEAN]]
  /\ call \in [Tasks -> CallRecords \cup {None}]
  /\ copy \in [Clients -> Copies \cup {None}]
  /\ whole \in BOOLEAN /\ astray \in BOOLEAN
  /\ calls \in Nat /\ faults \in Nat

\* Every memory of the index, the one in memory, the saved one and those being
\* saved, has a file, and no two of an index have the same: though ids are
\* handed out again after a restart, no file is written over by the memory of
\* another id.  (A crash may have cut the text in the file.)
FilesOf(image) ==
  \A i \in Ids : image.index[i] # None =>
    /\ files[image.index[i].name] # None
    /\ \A k \in Ids \ {i} : image.index[k] # None => image.index[k].name # image.index[i].name
EveryMemoryHasItsFile ==
  FilesOf(db) /\ FilesOf(disk) /\ \A s \in Savers : FilesOf(save[s].image)

\* What an access mode calls its persistent memory was made for it, whatever
\* old copies clients sent back, also over restarts: no two modes write the same
\* notes.  Ids of memories that were not saved are handed out again, so this ends
\* when a start finds an access mode whose memory was not saved or a client sends
\* back an item that names such a memory (astray).
OwnMemory ==
  ~astray => \A m \in Modes : db.persistent[m] # None =>
    /\ db.index[db.persistent[m]] # None
    /\ db.index[db.persistent[m]].mode = m
    /\ db.index[db.persistent[m]].kind = "persistent"

\* A medium that an index names, the one in memory, the saved one or those being
\* saved, has a file of its data, whole: what a crash cuts, and what is
\* added again, goes to other files, and the handler that serves the file named
\* by an answer of the database never finds it half written.
MediaWhole(image) ==
  \A h \in Hashes : image.media[h] # None =>
    /\ image.media[h] \in mediaFiles \ cut
    /\ Head(image.media[h])[1] = h
MediaHaveTheirData ==
  MediaWhole(db) /\ MediaWhole(disk) /\ \A s \in Savers : MediaWhole(save[s].image)

\* A request about a memory or a well-formed medium ends the database thread only
\* when an item that names a lost memory came back, a crash cut an indexed memory
\* inside a character, or a medium was stored again until its name was used up.
\* (Data that is not base64 ends it too, at once: MalformedMedia.)
ThreadSurvives ==
  thread = "dead" =>
    \/ astray
    \/ \E i \in Ids : db.index[i] # None /\ db.index[i].name \in garbled
    \/ \E h \in Hashes, under \in {<<>>} \cup mediaFiles : Unnameable(h, under)

\* After a save that was alone and reached its end, a restart finds every memory
\* that an access mode names, until another save writes: nothing that was changed
\* meanwhile gets into the files.  A save that failed, overlapped another or was
\* cut by a crash may leave an access mode whose memory is not saved.
SavedTogether == whole /\ ~astray => Closed(disk)

\* Nothing written in one access mode gets into the notes of another: not by a
\* call that was under way, an item sent back by a client, an id handed out
\* again or a file that a lost memory left.
NotesStayInMode ==
  ~astray => \A i \in Ids : db.index[i] # None =>
    files[db.index[i].name] \in Seq({db.index[i].mode, Blank})
=============================================================================
