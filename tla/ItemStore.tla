----------------------------- MODULE ItemStore ------------------------------
(***************************************************************************)
(* What the database promises the processes that write to it, without its  *)
(* channels, its keys and its loop: a write is asked for, and some time     *)
(* later, before it returns, either takes effect in one step or is refused. *)
(* Nothing else ever changes an item.  An added item gets an id that no     *)
(* item has, and an id handed out is not handed out again.                  *)
(***************************************************************************)
EXTENDS Integers

CONSTANTS Kinds, Deletable, MaxId, Records, Procs, Absent, NoRequest

Items == Kinds \X (0 .. MaxId - 1)

VARIABLES store, latest, pending
vars == <<store, latest, pending>>

Init ==
  /\ latest \in [Kinds -> 0 .. MaxId]
  /\ store \in [Items -> Records \cup {Absent}]
  /\ \A i \in Items : store[i] # Absent => i[2] < latest[i[1]]
  /\ pending = [p \in Procs |-> NoRequest]

Requests == [op : {"add", "update", "remove", "annotate", "configure"}, kind : Kinds,
             item : Items \cup {Absent}, rec : Records \cup {Absent}]

\* Any request, of one process.
Ask(p) ==
  /\ pending[p] = NoRequest /\ pending'[p] \in Requests
  /\ pending' = [pending EXCEPT ![p] = pending'[p]]
  /\ UNCHANGED <<store, latest>>

Return(p) ==
  /\ pending[p] # NoRequest
  /\ pending' = [pending EXCEPT ![p] = NoRequest]

Add(p) ==
  LET r == pending[p]  i == <<r.kind, latest[r.kind]>> IN
  /\ r.op = "add"
  /\ i \in Items /\ store[i] = Absent
  /\ store' = [store EXCEPT ![i] = r.rec]
  /\ latest' = [latest EXCEPT ![r.kind] = @ + 1]

Update(p) ==
  LET r == pending[p] IN
  /\ r.op = "update"
  /\ r.item[2] < latest[r.item[1]]
  /\ store' = [store EXCEPT ![r.item] = r.rec]
  /\ UNCHANGED latest

Remove(p) ==
  LET r == pending[p] IN
  /\ r.op = "remove" /\ r.item[1] \in Deletable
  /\ store' = [store EXCEPT ![r.item] = Absent]
  /\ UNCHANGED latest

\* Tool requests change one part of an item that is there.
Amend(p) ==
  LET r == pending[p] IN
  /\ r.op \in {"annotate", "configure"} /\ store[r.item] # Absent
  /\ store' = [store EXCEPT ![r.item].note = r.rec.note]
  /\ UNCHANGED latest

Refuse(p) == UNCHANGED <<store, latest>>

Next == \E p \in Procs :
  \/ /\ Return(p)
     /\ Add(p) \/ Update(p) \/ Remove(p) \/ Amend(p) \/ Refuse(p)
  \/ Ask(p)

Spec == Init /\ [][Next]_vars
=============================================================================
