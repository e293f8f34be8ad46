----------------------------- MODULE Filesystem -----------------------------
(***************************************************************************)
(* The server's filesystem, src/src/database/filesystem.rs: the tree kept  *)
(* by filesystem_thread, the disk it stands for, and the database's copy   *)
(* of the tree, which follows by deltas (apply_update) and is what the     *)
(* thread starts from after a restart.                                     *)
(*                                                                         *)
(* The thread serves one request after the other; a request that works on  *)
(* many elements does so in steps, `work' being the calls still to make,   *)
(* and its first error abandons the rest.  Other programs change the disk  *)
(* meanwhile, and any operation on the disk may fail.                      *)
(*                                                                         *)
(* Only device 0 exists (no code sends CreateDevice).  Permissions are left *)
(* out: every one the code builds lets everybody read, and write           *)
(* permissions are not looked at.  A request whose path resolves to nothing *)
(* is answered with an error and changes nothing.  After a restart the ids *)
(* of elements may be handed out again; the model stops where one is.      *)
(***************************************************************************)
EXTENDS Naturals, Sequences, SequencesExt, FiniteSets, Functions

CONSTANTS
  Names,        \* of files and folders
  Data,         \* contents of files
  None,
  MaxElements,  \* bound: ids handed out in a process
  MaxDepth,     \* bound: the longest path
  MaxRequests,  \* bound: requests to the thread
  MaxOutside,   \* bound: changes of the disk by other programs
  MaxRestarts   \* bound: restarts of the server

ASSUME FilesystemAssumption ==
  /\ MaxElements \in Nat /\ MaxDepth \in Nat /\ MaxRequests \in Nat
  /\ MaxOutside \in Nat /\ MaxRestarts \in Nat
  /\ None \notin Names /\ None \notin Nat
  /\ "empty" \notin Data /\ "folder" \notin Data

VARIABLES
  disk,      \* what is at each path: contents, "empty" or "folder"
  tree,      \* the thread's elements by id
  counter,   \* id_counter
  request,   \* the kind, source and destination of the request under way
  work,      \* its calls still to make
  threadUp,  \* the thread has not panicked
  deltas,    \* updates sent to the database and not applied
  replica,   \* the database's elements
  dbUp,      \* the database thread has not panicked on an update
  saved,     \* the replica of the last save
  touched,   \* history: what other programs changed during the request
  reused,    \* history: an id was handed out that an element still has
  requests, outside, restarts   \* counts, for the bounds

server == <<tree, counter, request, work, threadUp>>
database == <<deltas, replica, dbUp, saved>>
counts == <<requests, outside, restarts>>
vars == <<disk, touched, reused, server, database, counts>>

Root == 0

Element(name, kind, parent) ==
  [name |-> name, kind |-> kind, children |-> <<>>, parent |-> parent]

NewTree == [id \in {Root} |-> Element(None, "folder", None)]

Put(f, x, v) == [y \in DOMAIN f \cup {x} |-> IF y = x THEN v ELSE f[y]]
Without(f, x) == [y \in DOMAIN f \ {x} |-> f[y]]

\* ProximaPath::last and parent
Target(path) == IF path = <<>> THEN Root ELSE Last(path)
Parent(path) == Target(Front(path))

Children(path) == tree[Target(path)].children
IsFile(path) == tree[Target(path)].kind = "file"
IsFolder(path) == tree[Target(path)].kind = "folder"

\* The first child of that name is taken.
Resolves(path) ==
  \A i \in DOMAIN path :
    LET children == tree[Target(SubSeq(path, 1, i - 1))].children
    IN  \E j \in DOMAIN children :
          /\ children[j] = path[i]
          /\ \A k \in 1..(j - 1) : tree[children[k]].name # tree[path[i]].name

Existing == {path \in UNION {[1..n -> DOMAIN tree] : n \in 0..MaxDepth} : Resolves(path)}

\* path_on_device
OnDisk(path) == [i \in DOMAIN path |-> tree[path[i]].name]

-----------------------------------------------------------------------------
(* The disk *)

KindAt(place) == IF disk[place] = "folder" THEN "folder" ELSE "file"
IsDir(place) == place \in DOMAIN disk /\ disk[place] = "folder"
Inside(place) == {p \in DOMAIN disk : p # <<>> /\ Front(p) = place}

CanCreate(place, kind) ==
  /\ place # <<>> /\ IsDir(Front(place))
  /\ IF kind = "file" THEN ~IsDir(place) ELSE place \notin DOMAIN disk

\* File::create truncates a file that is there.
Created(place, kind) == Put(disk, place, IF kind = "file" THEN "empty" ELSE "folder")

RemovableAll(place) == place \in DOMAIN disk   \* mutant
Removable(place) == place \in DOMAIN disk /\ Inside(place) = {}

Erased(place) == [p \in {q \in DOMAIN disk : ~IsPrefix(place, q)} |-> disk[p]]

\* fs::copy of a file to itself truncates it first.
Copied(from, to) == Put(disk, to, IF from = to THEN "empty" ELSE disk[from])

-----------------------------------------------------------------------------
(* The thread's tree and the deltas *)

Inserted(t, parent, id, element) ==
  Put([t EXCEPT ![parent].children = Append(@, id)], id, element)

RemovedFromMap(t, parent, id) == Without(t, id)   \* mutant
Removed(t, parent, id) ==
  Without([t EXCEPT ![parent].children = RemoveFirst(@, id)], id)   \* an id is there once

Insertion(path, element) == [op |-> "insert", path |-> path, element |-> element]
Deletion(path) == [op |-> "delete", path |-> path]

\* create, once the element is on the disk
AddElement(folder, name, kind) ==
  LET element == Element(name, kind, Target(folder))
  IN  /\ tree' = Inserted(tree, Target(folder), counter, element)
      /\ deltas' = Append(deltas, Insertion(Append(folder, counter), element))
      /\ counter' = counter + 1
      /\ reused' = (counter \in DOMAIN tree \cup DOMAIN replica)

DeleteFrame(path, open) == [op |-> "delete", path |-> path, open |-> open]
CopyFrame(from, to) == [op |-> "copy", path |-> from, to |-> to]
MakeFrame(from, to) == [op |-> "make", path |-> from, to |-> to]
ListFrame(path, found) == [op |-> "list", path |-> path, found |-> found]

NoRequest == [kind |-> "none", from |-> <<>>, to |-> <<>>]

Init ==
  /\ disk = [place \in {<<>>} |-> "folder"] /\ touched = {} /\ reused = FALSE
  /\ tree = NewTree /\ counter = 1
  /\ request = NoRequest /\ work = <<>> /\ threadUp = TRUE
  /\ deltas = <<>> /\ replica = NewTree /\ dbUp = TRUE /\ saved = NewTree
  /\ requests = 0 /\ outside = 0 /\ restarts = 0

-----------------------------------------------------------------------------
(* Requests to filesystem_thread *)

Serve ==
  /\ threadUp /\ ~reused /\ work = <<>> /\ requests < MaxRequests
  /\ requests' = requests + 1
  /\ UNCHANGED <<touched, outside, restarts>>

Quiet == UNCHANGED <<replica, dbUp, saved>>

Create(path, name, kind) ==
  LET place == Append(OnDisk(path), name)
  IN  /\ Serve /\ counter < MaxElements /\ Len(path) < MaxDepth
      /\ IsFolder(path) /\ CanCreate(place, kind)
      /\ disk' = Created(place, kind)
      /\ AddElement(path, name, kind)
      /\ UNCHANGED <<request, work, threadUp>> /\ Quiet

\* The id is spent even if the disk refuses.
CreateFails ==
  /\ Serve /\ counter < MaxElements
  /\ counter' = counter + 1
  /\ UNCHANGED <<disk, reused, tree, request, work, threadUp, deltas>> /\ Quiet

\* What the tree has as a file is a folder on the disk by now: get_children_mut
\* of the file is unwrapped.
CreateInFile(path, name, kind) ==
  LET place == Append(OnDisk(path), name)
  IN  /\ Serve /\ Len(path) < MaxDepth
      /\ IsFile(path) /\ CanCreate(place, kind)
      /\ disk' = Created(place, kind)
      /\ threadUp' = FALSE
      /\ UNCHANGED <<reused, tree, counter, request, work, deltas>> /\ Quiet

ListFile(path) ==
  /\ Serve /\ IsFile(path) /\ IsDir(OnDisk(path))
  /\ threadUp' = FALSE
  /\ UNCHANGED <<disk, reused, tree, counter, request, work, deltas>> /\ Quiet

\* A path on another device, or above the root.
LeaveDevice ==
  /\ Serve
  /\ threadUp' = FALSE
  /\ UNCHANGED <<disk, reused, tree, counter, request, work, deltas>> /\ Quiet

\* Entries of the disk that no child matches; a folder matches only without
\* children, so a folder whose children are known is found again.
Unknown(path) ==
  {entry \in {[name |-> Last(p), kind |-> KindAt(p)] : p \in Inside(OnDisk(path))} :
     \A i \in DOMAIN Children(path) :
       LET child == tree[Children(path)[i]]
       IN  ~(child.name = entry.name /\ child.kind = entry.kind /\ child.children = <<>>)}

Start(kind, from, to, calls) ==
  /\ Serve
  /\ request' = [kind |-> kind, from |-> from, to |-> to]
  /\ work' = calls
  /\ UNCHANGED <<disk, reused, tree, counter, threadUp, deltas>> /\ Quiet

\* list, and read of a folder
List(path) ==
  /\ IsFolder(path) /\ IsDir(OnDisk(path)) /\ Unknown(path) # {}
  /\ Start("list", path, path, <<ListFrame(path, Unknown(path))>>)

Delete(path, recursive) ==
  /\ IsFile(path) \/ recursive \/ Children(path) = <<>>
  /\ Start("delete", path, path, <<DeleteFrame(path, FALSE)>>)

Copy(from, to) == Start("copy", from, to, <<CopyFrame(from, to)>>)

Move(from, to) == Start("move", from, to, <<CopyFrame(from, to), DeleteFrame(from, FALSE)>>)

Write(path, data) ==
  /\ Serve
  /\ IsFile(path) /\ CanCreate(OnDisk(path), "file")
  /\ disk' = Put(disk, OnDisk(path), data)
  /\ UNCHANGED <<reused, tree, counter, request, work, threadUp, deltas>> /\ Quiet

-----------------------------------------------------------------------------
(* The steps of a request *)

Step(op) == threadUp /\ ~reused /\ work # <<>> /\ Head(work).op = op
Top == Head(work)

\* The remaining calls; the request is over when there is none.
Continue(calls) ==
  /\ work' = calls
  /\ request' = IF calls = <<>> THEN NoRequest ELSE request
  /\ touched' = IF calls = <<>> THEN {} ELSE touched
  /\ UNCHANGED <<threadUp, counts>> /\ Quiet

Discover ==
  /\ Step("list") /\ counter < MaxElements
  /\ \E entry \in Top.found :
       /\ AddElement(Top.path, entry.name, entry.kind)
       /\ Continue(IF Top.found = {entry} THEN Tail(work)
                   ELSE <<ListFrame(Top.path, Top.found \ {entry})>> \o Tail(work))
  /\ UNCHANGED disk

\* copy_same_device of a file, or of a file or folder just made
CopyContents ==
  /\ Step("copy") /\ IsFile(Top.path) /\ IsFile(Top.to)
  /\ OnDisk(Top.path) \in DOMAIN disk /\ ~IsDir(OnDisk(Top.path))
  /\ CanCreate(OnDisk(Top.to), "file")
  /\ disk' = Copied(OnDisk(Top.path), OnDisk(Top.to))
  /\ Continue(Tail(work))
  /\ UNCHANGED <<reused, tree, counter, deltas>>

NamesIn(path) == {tree[child].name : child \in Range(Children(path))}

CopyFile ==
  /\ Step("copy") /\ IsFile(Top.path) /\ IsFolder(Top.to)
  /\ tree[Target(Top.path)].name \notin NamesIn(Top.to)
  /\ Continue(<<MakeFrame(Top.path, Top.to)>> \o Tail(work))
  /\ UNCHANGED <<disk, reused, tree, counter, deltas>>

\* The children are copied, not the folder itself.
CopyFolder ==
  /\ Step("copy") /\ IsFolder(Top.path) /\ IsFolder(Top.to)
  /\ NamesIn(Top.path) \cap NamesIn(Top.to) = {}
  /\ Continue([i \in DOMAIN Children(Top.path) |->
                 MakeFrame(Append(Top.path, Children(Top.path)[i]), Top.to)] \o Tail(work))
  /\ UNCHANGED <<disk, reused, tree, counter, deltas>>

Make ==
  LET source == tree[Target(Top.path)]
      place == Append(OnDisk(Top.to), source.name)
  IN  /\ Step("make") /\ counter < MaxElements /\ Len(Top.to) < MaxDepth
      /\ CanCreate(place, source.kind)
      /\ disk' = Created(place, source.kind)
      /\ AddElement(Top.to, source.name, source.kind)
      /\ Continue(<<CopyFrame(Top.path, Append(Top.to, counter))>> \o Tail(work))

\* The element itself is next to go.
Deletes == Step("delete") /\ (Top.open \/ Children(Top.path) = <<>>)

OpenFolder ==
  /\ Step("delete") /\ ~Top.open /\ Children(Top.path) # <<>>
  /\ Continue([i \in DOMAIN Children(Top.path) |->
                 DeleteFrame(Append(Top.path, Children(Top.path)[i]), FALSE)]
              \o <<DeleteFrame(Top.path, TRUE)>> \o Tail(work))
  /\ UNCHANGED <<disk, reused, tree, counter, deltas>>

\* The database is not told of a folder that had no children.
DeltasNever == deltas   \* mutant
DeltasAfter == IF IsFile(Top.path) \/ Top.open THEN Append(deltas, Deletion(Top.path)) ELSE deltas

DeleteElement ==
  /\ Deletes
  /\ Top.path # <<>> /\ Removable(OnDisk(Top.path))
  /\ disk' = Erased(OnDisk(Top.path))
  /\ tree' = Removed(tree, Parent(Top.path), Target(Top.path))
  /\ deltas' = DeltasAfter
  /\ Continue(Tail(work))
  /\ UNCHANGED <<reused, counter>>

\* The root's folder is removed before its parent is asked for.
DeleteRoot ==
  /\ Deletes
  /\ Top.path = <<>> /\ Removable(<<>>)
  /\ disk' = Erased(<<>>)
  /\ deltas' = DeltasAfter
  /\ threadUp' = FALSE
  /\ UNCHANGED <<touched, reused, tree, counter, request, work, counts>> /\ Quiet

\* An error of the disk, or names that collide, or a copy into a file.
Abandon(calls) == <<>>

Refused ==
  /\ Step("copy")
  /\ \/ IsFolder(Top.path) /\ IsFile(Top.to)
     \/ IsFile(Top.path) /\ IsFolder(Top.to) /\ tree[Target(Top.path)].name \in NamesIn(Top.to)
     \/ IsFolder(Top.path) /\ IsFolder(Top.to) /\ NamesIn(Top.path) \cap NamesIn(Top.to) # {}
  /\ Continue(Abandon(work))
  /\ UNCHANGED <<disk, reused, tree, counter, deltas>>

DiskFails ==
  /\ \/ Step("copy") /\ IsFile(Top.path) /\ IsFile(Top.to)
     \/ Deletes
  /\ Continue(Abandon(work))
  /\ UNCHANGED <<disk, reused, tree, counter, deltas>>

MakeFails ==
  /\ Step("make")
  /\ counter' = counter + 1
  /\ Continue(Abandon(work))
  /\ UNCHANGED <<disk, reused, tree, deltas>>

RequestStep ==
  \/ Discover \/ CopyContents \/ CopyFile \/ CopyFolder \/ Make
  \/ OpenFolder \/ DeleteElement \/ DeleteRoot
  \/ Refused \/ DiskFails \/ MakeFails

-----------------------------------------------------------------------------
(* Other programs *)

Touch(place, content) ==
  /\ outside' = outside + 1
  /\ touched' = IF work = <<>> THEN {} ELSE touched \cup {<<place, content>>}

OutsideAdds(place, content) ==
  /\ outside < MaxOutside
  /\ place \notin DOMAIN disk /\ IsDir(Front(place))
  /\ disk' = Put(disk, place, content)
  /\ Touch(place, content)
  /\ UNCHANGED <<reused, server, database, requests, restarts>>

OutsideRemoves(place) ==
  /\ outside < MaxOutside
  /\ place # <<>> /\ Removable(place)
  /\ disk' = Erased(place)
  /\ Touch(place, disk[place])
  /\ UNCHANGED <<reused, server, database, requests, restarts>>

-----------------------------------------------------------------------------
(* The database: apply_update, saves and restarts *)

Apply ==
  /\ dbUp /\ ~reused /\ deltas # <<>>
  /\ deltas' = Tail(deltas)
  /\ UNCHANGED <<disk, touched, reused, server, saved, counts>>

ApplyInsertion ==
  LET path == Head(deltas).path
      parent == Parent(path)
      id == Target(path)
      known == parent \in DOMAIN replica /\ replica[parent].kind = "folder"
                 /\ id \notin Range(replica[parent].children)
  IN  /\ Apply /\ Head(deltas).op = "insert"
      /\ replica' = IF known THEN Inserted(replica, parent, id, Head(deltas).element)
                    ELSE Put(replica, id, Head(deltas).element)
      /\ UNCHANGED dbUp

Applicable(path) == Target(path) \in DOMAIN replica /\ Parent(path) \in DOMAIN replica

ApplyDeletion ==
  LET path == Head(deltas).path
  IN  /\ Apply /\ Head(deltas).op = "delete"
      /\ Target(path) \in DOMAIN replica => replica[Target(path)].kind = "file"
      /\ replica' = IF Applicable(path) THEN Removed(replica, Parent(path), Target(path)) ELSE replica
      /\ UNCHANGED dbUp

\* delete of a folder with delete_locally false ends in a todo!
ApplyFolderDeletion ==
  /\ Apply /\ Head(deltas).op = "delete"
  /\ Target(Head(deltas).path) \in DOMAIN replica
  /\ replica[Target(Head(deltas).path)].kind = "folder"
  /\ dbUp' = FALSE
  /\ UNCHANGED replica

Save ==
  /\ dbUp /\ restarts < MaxRestarts /\ saved # replica
  /\ saved' = replica
  /\ UNCHANGED <<disk, touched, reused, server, deltas, replica, dbUp, counts>>

\* The thread gets a clone of what was saved, whose id_counter no update moved.
Restart ==
  /\ restarts < MaxRestarts /\ ~reused
  /\ tree' = saved /\ replica' = saved /\ counter' = 1
  /\ request' = NoRequest /\ work' = <<>> /\ deltas' = <<>>
  /\ threadUp' = TRUE /\ dbUp' = TRUE
  /\ restarts' = restarts + 1
  /\ touched' = {}
  /\ UNCHANGED <<disk, reused, saved, requests, outside>>

Database == ApplyInsertion \/ ApplyDeletion \/ ApplyFolderDeletion

Places == UNION {[1..n -> Names] : n \in 1..MaxDepth}
Kinds == {"file", "folder"}

Requests ==
  \/ \E path \in Existing :
       \/ \E name \in Names, kind \in Kinds : Create(path, name, kind) \/ CreateInFile(path, name, kind)
       \/ List(path) \/ ListFile(path)
       \/ \E recursive \in BOOLEAN : Delete(path, recursive)
       \/ \E to \in Existing : Copy(path, to) \/ Move(path, to)
       \/ \E data \in Data : Write(path, data)
  \/ CreateFails \/ LeaveDevice

Outside ==
  \E place \in Places :
    OutsideRemoves(place) \/ \E content \in Data \cup {"folder"} : OutsideAdds(place, content)

Next == Requests \/ RequestStep \/ Outside \/ Database \/ Save \/ Restart

Spec == Init /\ [][Next]_vars

-----------------------------------------------------------------------------
(* Properties *)

IdPaths == Seq(Nat)
Elements == [name : Names \cup {None}, kind : Kinds, children : IdPaths, parent : Nat \cup {None}]
IsTree(t) == DOMAIN t \subseteq Nat /\ \A id \in DOMAIN t : t[id] \in Elements

Frames ==
  [op : {"delete"}, path : IdPaths, open : BOOLEAN]
    \cup [op : {"copy", "make"}, path : IdPaths, to : IdPaths]
    \cup [op : {"list"}, path : IdPaths, found : SUBSET [name : Names, kind : Kinds]]

Updates ==
  [op : {"insert"}, path : IdPaths, element : Elements] \cup [op : {"delete"}, path : IdPaths]

\* Every variable keeps its type.
TypeOK ==
  /\ DOMAIN disk \subseteq Seq(Names)
  /\ \A place \in DOMAIN disk : disk[place] \in Data \cup {"empty", "folder"}
  /\ touched \subseteq Seq(Names) \X (Data \cup {"empty", "folder"})
  /\ IsTree(tree) /\ IsTree(replica) /\ IsTree(saved)
  /\ counter \in Nat \ {0}
  /\ threadUp \in BOOLEAN /\ dbUp \in BOOLEAN /\ reused \in BOOLEAN
  /\ request \in [kind : {"none", "list", "delete", "copy", "move"}, from : IdPaths, to : IdPaths]
  /\ work \in Seq(Frames) /\ deltas \in Seq(Updates)
  /\ requests \in Nat /\ outside \in Nat /\ restarts \in Nat

Sound(t) ==
  /\ Root \in DOMAIN t /\ t[Root].parent = None /\ t[Root].kind = "folder"
  /\ \A id \in DOMAIN t :
       /\ IsInjective(t[id].children)
       /\ t[id].kind = "file" => t[id].children = <<>>
       /\ \A child \in Range(t[id].children) :
            child \in DOMAIN t \ {Root} /\ t[child].parent = id
       /\ id # Root => t[id].parent \in DOMAIN t /\ id \in Range(t[t[id].parent].children)

\* The thread's elements form a tree under the root, in which each is a child of
\* its parent and of nobody else, and is younger than it in the first process: nothing
\* is lost from the tree or found twice in it, though a request stops at any error and
\* a process starts from whatever the database had applied when it was saved.
TreeSound ==
  ~reused =>
    /\ Sound(tree)
    /\ restarts = 0 => \A id \in DOMAIN tree \ {Root} : tree[id].parent < id /\ id < counter

Pending(op, id) == \E i \in DOMAIN deltas : deltas[i].op = op /\ Target(deltas[i].path) = id

\* The database's copy has what the thread has, but for updates on their way, and
\* besides that only folders, those deleted when they had no children.
ReplicaFollows ==
  dbUp /\ ~reused =>
    /\ \A id \in DOMAIN tree \ {Root} :
         \/ Pending("insert", id)
         \/ /\ id \in DOMAIN replica
            /\ replica[id].name = tree[id].name /\ replica[id].kind = tree[id].kind
            /\ tree[id].parent \in DOMAIN replica
            /\ id \in Range(replica[tree[id].parent].children)
    /\ \A id \in DOMAIN replica \ DOMAIN tree :
         replica[id].kind = "folder" \/ Pending("delete", id)

\* Another program put a file where the tree has the folder that is deleted.
Replaced(place) == Deletes /\ IsFolder(Top.path) /\ OnDisk(Top.path) = place

\* A move to a place outside its source keeps every content it finds there, though
\* the source holds more than the tree knows and any step may fail; only what other
\* programs change meanwhile, and a file that took the place of a folder, are removed
\* unseen.
MoveKeepsData ==
  [][request.kind = "move" /\ ~IsPrefix(request.from, request.to) /\ outside' = outside =>
       \A place \in DOMAIN disk :
         IsPrefix(OnDisk(request.from), place) /\ disk[place] \in Data =>
           \/ disk[place] \in Range(disk')
           \/ \E change \in touched : change[1] = place \/ change[2] = disk[place]
           \/ Replaced(place)]_vars

\* Moving or deleting a folder with its files leaves the database working.
DatabaseStaysUp == threadUp => dbUp
=============================================================================
