---------------------------- MODULE Persistence -----------------------------
(***************************************************************************)
(* Saving and loading: launch_saving_thread and handle_save of             *)
(* src/src/database/mod.rs, and src/src/database/loading_saving.rs, with   *)
(* crashes and write errors.                                               *)
(*                                                                         *)
(* States of the database are numbered in the order in which memory goes   *)
(* through them.  A save clones the database in one state and writes its   *)
(* collections, one file each, in a fixed order; a file holds the number   *)
(* of the state it was cloned from.  Saves of the saving thread and of     *)
(* clients may overlap.  A crash may fall between any two of the steps on  *)
(* files.  At the next start the files are loaded, or, if one is missing,  *)
(* created with their premade contents.                                    *)
(***************************************************************************)
EXTENDS Integers, Sequences, FiniteSets

CONSTANTS
  SaveOrder,    \* the files, in the order of save_to_disk
  SavingThread, \* asks for a save every minute
  Clients,      \* may send the request Save at any time
  MaxVersion,   \* bound: states of the database
  MaxCrashes,   \* bound: crashes
  MaxFailures,  \* bound: write errors
  Missing, Empty, Torn, None

Savers == Clients \cup {SavingThread}
Positions == DOMAIN SaveOrder
Files == {SaveOrder[i] : i \in Positions}

ASSUME PersistenceAssumption ==
  /\ SaveOrder \in Seq(Files) /\ SaveOrder # <<>>
  /\ \A i, k \in Positions : SaveOrder[i] = SaveOrder[k] => i = k
  /\ MaxVersion \in Nat /\ MaxCrashes \in Nat /\ MaxFailures \in Nat
  /\ {Missing, Empty, Torn} \cap Nat = {}
  /\ Missing # Empty /\ Missing # Torn /\ Empty # Torn
  /\ None \notin Files

VARIABLES
  mode,       \* of the process: down, creating its files, running
  creating,   \* the file being created
  version,    \* number of the state of the database in memory
  noted,      \* number of the state after the last change that set the flag
  changed,    \* changed_since_last_save
  disk,       \* what each file holds
  save,       \* the save under way for each requester
  secured,    \* history: the last state that a save, alone from its begin to
              \* its end, was answered Saved for
  overlap,    \* history: saves overlapped, and none that was alone ended since
  failed,     \* history: the last save that ended, ended with an error
  crashes, failures

memory == <<version, noted, changed>>
outcomes == <<secured, overlap, failed>>
bounds == <<crashes, failures>>
vars == <<mode, creating, memory, disk, save, outcomes, bounds>>

Idle == [image |-> 0, at |-> 1, stage |-> "idle", alone |-> FALSE]
SaveRecords ==
  [image : Nat, at : Positions, stage : {"idle", "closed", "open"}, alone : BOOLEAN]
Contents == Nat \cup {Missing, Empty, Torn}

Readable(f) == disk[f] \in Nat
Saving(s) == save[s].stage # "idle"
Others(s) == {t \in Savers \ {s} : Saving(t)}
File(s) == SaveOrder[save[s].at]

Init ==
  /\ mode = "down" /\ creating = None
  /\ version = 0 /\ noted = 0 /\ changed = FALSE
  /\ disk = [f \in Files |-> Missing]
  /\ save = [s \in Savers |-> Idle]
  /\ secured = 0 /\ overlap = FALSE /\ failed = FALSE
  /\ crashes = 0 /\ failures = 0

-----------------------------------------------------------------------------
(* Starting: ProxDatabase::new *)

\* The database is in memory in a new state; the flag starts set.
Run ==
  /\ mode' = "running"
  /\ version' = version + 1 /\ noted' = version + 1
  /\ changed' = TRUE

\* Every path is there: the files are loaded.  load_from_disk is unwrapped, so
\* the process does not start when a file cannot be read.
Load ==
  /\ mode = "down"
  /\ \A f \in Files : Readable(f)
  /\ Run
  /\ UNCHANGED <<creating, disk, save, outcomes, bounds>>

\* A path is missing: what is missing will be created.
Repair ==
  /\ mode = "down"
  /\ \E f \in Files : disk[f] = Missing
  /\ mode' = "creating"
  /\ UNCHANGED <<creating, memory, disk, save, outcomes, bounds>>

Create(f) ==
  /\ mode = "creating" /\ creating = None
  /\ disk[f] = Missing
  /\ disk' = [disk EXCEPT ![f] = Empty]
  /\ creating' = f
  /\ UNCHANGED <<mode, memory, save, outcomes, bounds>>

\* The premade contents are those of an empty database, state 0.
Fill ==
  /\ mode = "creating" /\ creating # None
  /\ disk' = [disk EXCEPT ![creating] = 0]
  /\ creating' = None
  /\ UNCHANGED <<mode, memory, save, outcomes, bounds>>

\* The database is then a new one: nothing is loaded.
Created ==
  /\ mode = "creating" /\ creating = None
  /\ \A f \in Files : disk[f] # Missing
  /\ Run
  /\ UNCHANGED <<creating, disk, save, outcomes, bounds>>

-----------------------------------------------------------------------------
(* Running *)

\* Adding or updating an item.
Change ==
  /\ mode = "running" /\ version < MaxVersion
  /\ version' = version + 1 /\ noted' = version + 1
  /\ changed' = TRUE
  /\ UNCHANGED <<mode, creating, disk, save, outcomes, bounds>>

\* Removing an item and tool requests do not set the flag.
QuietChange ==
  /\ mode = "running" /\ version < MaxVersion
  /\ version' = version + 1
  /\ UNCHANGED <<mode, creating, noted, changed, disk, save, outcomes, bounds>>

\* handle_save, when the flag is set: clone, and start the thread that writes.
\* When it is not, the answer is Saved and nothing else happens, even while
\* another save is still writing.
BeginSave(s) ==
  /\ mode = "running" /\ ~Saving(s) /\ changed
  /\ save' = [t \in Savers |->
       IF t = s THEN [image |-> version, at |-> 1, stage |-> "closed",
                      alone |-> Others(s) = {}]
                ELSE [save[t] EXCEPT !.alone = FALSE]]
  /\ overlap' = (overlap \/ Others(s) # {})
  /\ changed' = FALSE
  /\ UNCHANGED <<mode, creating, version, noted, disk, secured, failed, bounds>>

\* save_string_into_file: File::create truncates.  A crash before the write
\* leaves the file so, and no later start succeeds.
Open(s) ==
  /\ save[s].stage = "closed"
  /\ disk' = [disk EXCEPT ![File(s)] = Empty]
  /\ save' = [save EXCEPT ![s] = [save[s] EXCEPT !.stage = "open"]]
  /\ UNCHANGED <<mode, creating, memory, outcomes, bounds>>

LastButOne(at) == at + 1 >= Len(SaveOrder)   \* mutant

IsLast(at) == at = Len(SaveOrder)

Uncloned(s) == version   \* mutant

Image(s) == save[s].image

FlagCleared == FALSE   \* mutant

\* The flag is not touched when the save ends.
FlagAfterSave == changed

\* write_all.  A file that another save wrote since it was opened is written
\* over from its start, and keeps the end of the longer of the two.
Write(s) ==
  /\ save[s].stage = "open"
  /\ \E content \in IF disk[File(s)] = Empty THEN {Image(s)} ELSE {Image(s), Torn} :
       disk' = [disk EXCEPT ![File(s)] = content]
  /\ \/ /\ ~IsLast(save[s].at)
        /\ save' = [save EXCEPT ![s] = [save[s] EXCEPT !.at = @ + 1, !.stage = "closed"]]
        /\ UNCHANGED <<changed, outcomes>>
     \/ /\ IsLast(save[s].at)
        /\ save' = [save EXCEPT ![s] = Idle]
        /\ secured' = IF save[s].alone THEN save[s].image ELSE secured
        /\ overlap' = (overlap /\ ~save[s].alone)
        /\ failed' = FALSE
        /\ changed' = FlagAfterSave
  /\ UNCHANGED <<mode, creating, version, noted, bounds>>

\* An error while opening or writing ends the save; SavingError is answered and
\* the flag stays as it is.
Fail(s) ==
  /\ Saving(s) /\ failures < MaxFailures
  /\ failures' = failures + 1
  /\ \/ save[s].stage = "closed" /\ UNCHANGED disk
     \/ /\ save[s].stage = "open"
        /\ disk' = [disk EXCEPT ![File(s)] = Torn]
  /\ save' = [save EXCEPT ![s] = Idle]
  /\ failed' = TRUE
  /\ UNCHANGED <<mode, creating, memory, secured, overlap, crashes>>

Crash ==
  /\ mode # "down" /\ crashes < MaxCrashes
  /\ crashes' = crashes + 1
  /\ mode' = "down" /\ creating' = None
  /\ save' = [s \in Savers |-> Idle]
  /\ failed' = FALSE
  /\ UNCHANGED <<memory, disk, secured, overlap, failures>>

-----------------------------------------------------------------------------
Starting == Load \/ Repair \/ (\E f \in Files : Create(f)) \/ Fill \/ Created
FileStep(s) == Open(s) \/ Write(s)

Next ==
  \/ Starting
  \/ Change \/ QuietChange
  \/ \E s \in Savers : BeginSave(s) \/ FileStep(s) \/ Fail(s)
  \/ Crash

Spec == Init /\ [][Next]_vars

\* The saving thread asks every minute, the writes of every save go on, and
\* someone starts the process again.  No client has to ask.
Fairness ==
  /\ WF_vars(Starting)
  /\ WF_vars(BeginSave(SavingThread))
  /\ \A s \in Savers : WF_vars(FileStep(s))

FairSpec == Spec /\ Fairness

-----------------------------------------------------------------------------
(* Properties *)

\* Every variable keeps its type.
TypeOK ==
  /\ mode \in {"down", "creating", "running"}
  /\ creating \in Files \cup {None}
  /\ version \in Nat /\ noted \in Nat /\ changed \in BOOLEAN
  /\ disk \in [Files -> Contents]
  /\ save \in [Savers -> SaveRecords]
  /\ secured \in Nat /\ overlap \in BOOLEAN /\ failed \in BOOLEAN
  /\ crashes \in Nat /\ failures \in Nat

\* A start that succeeds finds no file older than the last state that a save
\* running alone was answered Saved for, whatever saves overlapped, failed or
\* were cut after it; and it does not find a new database in place of that one.
\* This is not that what was saved is never lost: a crash between the truncation
\* and the write of a file loses what it held, and then no start succeeds.
Durable ==
  [][mode # "running" /\ mode' = "running" =>
       secured = 0 \/ (mode = "down" /\ \A f \in Files : disk[f] >= secured)]_vars

\* Unless saves overlapped, the files that can be read are from states that get
\* no newer along the order of the save.  A restart may thus find references
\* into later files dangling (access modes to memories), never into earlier ones.
\* After an overlap this is so again once a save that was alone has ended.
SavedCut ==
  overlap \/
  \A i, k \in Positions :
    i < k /\ Readable(SaveOrder[i]) /\ Readable(SaveOrder[k])
      => disk[SaveOrder[i]] >= disk[SaveOrder[k]]

\* A change that set the flag reaches every file, also one made during a save,
\* unless the process crashes, a save fails (it is not repeated) or saves overlap
\* (the older may write last, and the flag is clear).
EventuallySaved ==
  \A n \in 0 .. MaxVersion :
    (mode = "running" /\ noted = n)
      ~> \/ \A f \in Files : Readable(f) /\ disk[f] >= n
         \/ mode # "running" \/ failed \/ overlap

=============================================================================
