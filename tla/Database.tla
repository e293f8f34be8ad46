------------------------------ MODULE Database ------------------------------
(***************************************************************************)
(* The database thread of src/src/database/mod.rs and everything that      *)
(* talks to it: the actix web workers (db_post_handler, auth_post_handler),*)
(* the internal tasks of the AI endpoint and of the job thread, which send *)
(* requests without an authentication key, and the saving thread.          *)
(*                                                                         *)
(* The thread owns the database and two unbounded channels.  It waits up   *)
(* to 30 s for a priority request, then serves the normal channel for as   *)
(* long as it sees the priority channel empty (handling_loop).  Handling a *)
(* request is one step: nothing else reads or writes the database.         *)
(*                                                                         *)
(* An item is a kind with an id.  Its record has a body, which only        *)
(* clients and agents write as a whole, and a note, which the tool         *)
(* requests overwrite in place (a chat's title, tags and context, an       *)
(* access mode's tags and settings).                                       *)
(*                                                                         *)
(* view[s] is a history variable: the copy of the database a client of     *)
(* session s has once it has applied every update its session's channel    *)
(* was sent and the replies to its own requests, in the order in which the *)
(* thread produced them.  unaware is another: the items a client's own     *)
(* update brought back to life, which it does not know, as the update was  *)
(* answered ItemNotFound and is not announced to the session that made it. *)
(* Module Sessions models the channels themselves.                         *)
(***************************************************************************)
EXTENDS Integers, Sequences, FiniteSets

CONSTANTS
  Kinds,         \* kinds of items
  Deletable,     \* the kinds remove_request deletes: chats, jobs, notifications
  JobKinds,      \* the kinds handle_add_request forwards to the job thread
  Annotatable,   \* the kinds a tool request changes and announces
  Configurable,  \* the kinds a tool request changes silently (settings)
  Bodies, Notes, \* what the two parts of a record can hold
  FirstRecord,   \* the record of the items a database is created with
  InitialItems,  \* how many items of each kind a database is created with
  MaxId,         \* bound: ids handed out stay below MaxId
  MaxOrphans,    \* bound: tunnel requests in the queue that nobody waits for
  Sessions,      \* the authentication keys the thread may generate
  Workers,       \* web handler threads
  Agents,        \* internal tasks: AI endpoint, tools, job thread
  Savers,        \* the saving thread
  WebOps,        \* the requests web workers make
  AgentOps,      \* the requests internal tasks make
  Local, NoItem, Absent

Procs == Workers \cup Agents \cup Savers
Ids == 0 .. MaxId - 1
Items == Kinds \X Ids
Records == [body : Bodies, note : Notes]
Keys == Sessions \cup {Local}
Ops == {"idle", "newkey", "getall", "get", "add", "update", "remove",
        "annotate", "configure", "save", "tunnel", "respond"}
Stages == {"idle", "verify", "verified", "execute", "got", "panicked"}
CallRecords == [op : Ops, key : Keys, kind : Kinds, item : Items \cup {NoItem},
                rec : Records \cup {Absent}, stage : Stages]
Calls == {c \in CallRecords :
  /\ c.op \in {"get", "update", "remove", "annotate", "configure", "respond"}
       => c.item \in Items
  /\ c.op \in {"add", "update", "annotate", "configure"} \/ c.stage = "got"
       => c.rec \in Records
  /\ c.op \in {"getall", "tunnel"} => c.key \in Sessions
  /\ c.item \in Items => c.kind = c.item[1]
  /\ c.stage \in {"idle", "panicked"} => c.op = "idle"
  /\ c.stage = "got" => c.op = "respond"
  /\ c.op = "configure" => c.kind \in Configurable}
Writes == {"add", "update", "remove", "annotate", "configure"}
WriteRequests == [op : Writes, kind : Kinds, item : Items \cup {Absent},
                  rec : Records \cup {Absent}]

ASSUME DatabaseAssumption ==
  /\ Deletable \subseteq Kinds /\ JobKinds \subseteq Kinds
  /\ Annotatable \subseteq Kinds /\ Configurable \subseteq Kinds
  /\ Kinds # {} /\ MaxId \in Nat /\ MaxOrphans \in Nat
  /\ FirstRecord \in Records
  /\ InitialItems \in [Kinds -> 0 .. MaxId]
  /\ Absent \notin Records \cup Items /\ NoItem \notin Items \cup WriteRequests
  /\ Local \notin Sessions
  /\ Procs \cap Sessions = {}
  /\ Workers \cap Agents = {} /\ Savers \cap (Workers \cup Agents) = {}
  /\ WebOps \subseteq Ops /\ AgentOps \subseteq Ops

VARIABLES
  store,      \* the items in memory
  latest,     \* the next id of each kind
  scheduled,  \* the items sent to the job thread's channel
  changed,    \* changed_since_last_save
  snapshot,   \* the database handed to the last saving thread
  saving,     \* processes whose Save is being written by its own thread
  issued,     \* authentication keys generated since the start
  live,       \* auth_sessions: those not evicted
  loaded,     \* sessions whose client has fetched the whole database
  view,       \* what each session has been told
  unaware,    \* items a session's own update has put back unknown to it
  call,       \* the request each process has under way
  prio,       \* priority channel
  normal,     \* normal channel
  phase       \* where handling_loop is; "dead" after a panic

dbVars    == <<store, latest, scheduled, changed, snapshot>>
authVars  == <<issued, live, loaded, view, unaware>>
queueVars == <<prio, normal, phase>>
vars == <<store, latest, scheduled, changed, snapshot, saving, issued, live,
          loaded, view, unaware, call, prio, normal, phase>>

AnyKind == CHOOSE k \in Kinds : TRUE
IdleCall == [op |-> "idle", key |-> Local, kind |-> AnyKind, item |-> NoItem,
             rec |-> Absent, stage |-> "idle"]

Initially == [i \in Items |->
                IF i[2] < InitialItems[i[1]] THEN FirstRecord ELSE Absent]

Init ==
  /\ store = Initially
  /\ latest = InitialItems
  /\ scheduled = {i \in Items : i[1] \in JobKinds /\ Initially[i] # Absent}
  /\ changed = TRUE
  /\ snapshot = [i \in Items |-> Absent]
  /\ saving = {} /\ issued = {} /\ live = {} /\ loaded = {}
  /\ view = [s \in Sessions |-> [i \in Items |-> Absent]]
  /\ unaware = {}
  /\ call = [p \in Procs |-> IdleCall]
  /\ prio = <<>> /\ normal = <<>>
  /\ phase = "wait"

-----------------------------------------------------------------------------
(* Requests.  A process has at most one request under way: every caller    *)
(* blocks on the reply channel it created for the request.                 *)

Free(p) == call[p].stage \in {"idle", "panicked"}

\* Bounds: no request is made for an id or a key the model does not have.
PendingAdds(k) == {p \in Procs : call[p].op = "add" /\ call[p].kind = k}
IdsLeft(k) == latest[k] + Cardinality(PendingAdds(k)) < MaxId
KeysLeft == Cardinality({p \in Procs : call[p].op = "newkey"})
              < Cardinality(Sessions \ issued)

Request(op, key, kind, item, rec) ==
  [op |-> op, key |-> key, kind |-> kind, item |-> item, rec |-> rec,
   stage |-> IF key = Local THEN "execute" ELSE "verify"]

Start(p, r) ==
  /\ Free(p)
  /\ call' = [call EXCEPT ![p] = r]
  /\ prio' = Append(prio, p)
  /\ UNCHANGED <<dbVars, authVars, saving, normal, phase>>

\* auth_post_handler, its NewAuthKey request.
CallNewKey(w) ==
  /\ KeysLeft
  /\ Start(w, Request("newkey", Local, AnyKind, NoItem, Absent))

\* A client names an item it has been told of, and rewrites a record it has.
KnownTo(s) == {i \in Items : view[s][i] # Absent}

\* What a request of each sort carries, given the record the client has.
Rewrites(op, kind, old) == {rec \in Records \cup {Absent} :
  \/ op \in {"get", "remove"} /\ rec = Absent
  \/ op = "update" /\ rec # Absent /\ rec.note = old.note
  \/ /\ \/ op = "annotate" /\ kind \in Annotatable
        \/ op = "configure" /\ kind \in Configurable
     /\ rec # Absent /\ rec.body = old.body}

\* db_post_handler first asks whether the key is right (is_auth_right).
CallDatabase(w, s) ==
  /\ s \in issued
  /\ \/ \E op \in WebOps, i \in KnownTo(s) :
          \E rec \in Rewrites(op, i[1], view[s][i]) :
            Start(w, Request(op, s, i[1], i, rec))
     \/ \E op \in WebOps \cap {"getall", "save", "tunnel"} :
          Start(w, Request(op, s, AnyKind, NoItem, Absent))
     \/ \E k \in Kinds, rec \in Records :
          /\ "add" \in WebOps /\ IdsLeft(k)
          /\ Start(w, Request("add", s, k, NoItem, rec))

SendVerified(w) ==
  /\ call[w].stage = "verified"
  /\ call' = [call EXCEPT ![w].stage = "execute"]
  /\ prio' = Append(prio, w)
  /\ UNCHANGED <<dbVars, authVars, saving, normal, phase>>

\* recv_timeout(3000 ms) of db_post_handler: the handler drops its receiver
\* and the request stays in the channel; its entry becomes the session's key.
TunnelTimeout(w) ==
  /\ call[w].op = "tunnel" /\ call[w].stage = "execute"
  /\ Cardinality({n \in DOMAIN prio : prio[n] \in Sessions}) < MaxOrphans
  /\ prio' = [n \in DOMAIN prio |-> IF prio[n] = w THEN call[w].key ELSE prio[n]]
  /\ call' = [call EXCEPT ![w] = IdleCall]
  /\ UNCHANGED <<dbVars, authVars, saving, normal, phase>>

\* The chats agents talk to were added by the AI endpoint under ids it was
\* given; clients see them and may remove them.
CallAgent(a) ==
  \/ \E k \in Kinds, rec \in Records :
       /\ "add" \in AgentOps /\ IdsLeft(k)
       /\ Start(a, Request("add", Local, k, NoItem, rec))
  \/ \E op \in AgentOps \cap {"annotate", "configure"}, i \in Items, rec \in Records :
       /\ i[2] < latest[i[1]]
       /\ i[1] \in (IF op = "annotate" THEN Annotatable ELSE Configurable)
       /\ Start(a, Request(op, Local, i[1], i, rec))
  \/ \E i \in Items :  \* jobs_tool "remove"
       /\ "remove" \in AgentOps /\ i[1] \in JobKinds
       /\ Start(a, Request("remove", Local, i[1], i, Absent))

\* agent_tool "respond": Get on the normal channel, an AI round, then Update.
CallRespond(a) ==
  /\ "respond" \in AgentOps /\ Free(a)
  /\ \E i \in Items :
       /\ i[1] \in Deletable \cap Annotatable /\ i[2] < latest[i[1]]
       /\ call' = [call EXCEPT ![a] = Request("respond", Local, i[1], i, Absent)]
  /\ normal' = Append(normal, a)
  /\ UNCHANGED <<dbVars, authVars, saving, prio, phase>>

UpdateAgentChat(a) ==
  /\ call[a].stage = "got"
  /\ \E b \in Bodies :
       call' = [call EXCEPT ![a] = Request("update", Local, call[a].kind,
                  call[a].item, [call[a].rec EXCEPT !.body = b])]
  /\ prio' = Append(prio, a)
  /\ UNCHANGED <<dbVars, authVars, saving, normal, phase>>

\* launch_saving_thread
CallSave(t) ==
  /\ Free(t)
  /\ call' = [call EXCEPT ![t] = Request("save", Local, AnyKind, NoItem, Absent)]
  /\ normal' = Append(normal, t)
  /\ UNCHANGED <<dbVars, authVars, saving, prio, phase>>

-----------------------------------------------------------------------------
(* Handlers.  Each is the whole effect of one request on the database, the *)
(* sessions and the requester.                                             *)

Answer(p) == call' = [call EXCEPT ![p] = IdleCall]

\* Appends an update to the channel of every session in S.
Told(S, i, rec) ==
  [s \in Sessions |-> IF s \in S THEN [view[s] EXCEPT ![i] = rec] ELSE view[s]]
Tell(S, i, rec) ==
  /\ view' = Told(S, i, rec)
  /\ unaware' = unaware \ (S \X {i})

\* Mutant: nobody but the requester is told.
NobodyElse(key) == {}
Others(key) == live \ {key}
Requester(key) == {key} \cap Sessions

\* Announcing evicts sessions that have been quiet for three days: which ones,
\* module Sessions says.
Evict(key) == \E gone \in SUBSET Others(key) : live' = live \ gone

HandleVerify(p) ==
  /\ call[p].stage = "verify"
  /\ call' = [call EXCEPT ![p] = IF call[p].key \in live
                                 THEN [@ EXCEPT !.stage = "verified"] ELSE IdleCall]
  /\ UNCHANGED <<dbVars, authVars, saving>>

HandleNewKey(p) ==
  /\ call[p].op = "newkey"
  /\ \E s \in Sessions \ issued :
       /\ issued' = issued \cup {s} /\ live' = live \cup {s}
  /\ Answer(p)
  /\ UNCHANGED <<dbVars, saving, loaded, view, unaware>>

HandleGetAll(p) ==
  LET key == call[p].key IN
  /\ call[p].op = "getall"
  /\ view' = [s \in Sessions |-> IF s = key THEN store ELSE view[s]]
  /\ unaware' = unaware \ ({key} \X Items)
  /\ loaded' = loaded \cup {key}
  /\ Answer(p)
  /\ UNCHANGED <<dbVars, saving, issued, live>>

HandleGet(p) ==
  LET key == call[p].key  i == call[p].item IN
  /\ call[p].op = "get"
  /\ Tell(Requester(key), i, store[i])
  /\ Answer(p)
  /\ UNCHANGED <<dbVars, saving, issued, live, loaded>>

\* The agent's task panics ("Supposed to return a database item") when the
\* chat is gone.
HandleRespond(p) ==
  LET i == call[p].item IN
  /\ call[p].op = "respond"
  /\ call' = [call EXCEPT ![p] =
                IF store[i] = Absent THEN [IdleCall EXCEPT !.stage = "panicked"]
                ELSE [@ EXCEPT !.stage = "got", !.rec = store[i]]]
  /\ UNCHANGED <<dbVars, authVars, saving>>

NextIdsStuck(c) == latest   \* mutant

NewItem(c) == <<c.kind, latest[c.kind]>>
NextIds(c) == [latest EXCEPT ![c.kind] = @ + 1]
Forwarded(c) == IF c.kind \in JobKinds THEN scheduled \cup {NewItem(c)} ELSE scheduled

HandleAdd(p) ==
  LET c == call[p]  i == NewItem(c) IN
  /\ c.op = "add"
  /\ latest[c.kind] < MaxId
  /\ changed' = TRUE
  /\ store' = [store EXCEPT ![i] = c.rec]
  /\ latest' = NextIds(c)
  /\ Tell(Others(c.key) \cup Requester(c.key), i, c.rec)
  /\ Evict(c.key)
  /\ scheduled' = Forwarded(c)
  /\ Answer(p)
  /\ UNCHANGED <<snapshot, saving, issued, loaded>>

\* The others are told of the update whatever becomes of it; the requester takes
\* it as done, or learns from the reply ItemNotFound that there is no such item.
TellOfUpdate(c) ==
  \/ /\ store[c.item] # Absent
     /\ Tell(Others(c.key) \cup Requester(c.key), c.item, c.rec)
  \/ /\ store[c.item] = Absent
     /\ view' = Told(Others(c.key), c.item, c.rec)
     /\ unaware' = (unaware \ (Others(c.key) \X {c.item}))
                      \cup (Requester(c.key) \X {c.item})

\* Mutant: the change is not noted.
HandleUpdateQuietly(p) ==
  LET c == call[p] IN
  /\ c.op = "update"
  /\ TellOfUpdate(c)
  /\ Evict(c.key)
  /\ store' = [store EXCEPT ![c.item] = c.rec]
  /\ Answer(p)
  /\ UNCHANGED <<latest, scheduled, changed, snapshot, saving, issued, loaded>>

\* The item is inserted whether or not it exists: an update that arrives after
\* the removal brings the item back, and is answered ItemNotFound.
HandleUpdate(p) ==
  LET c == call[p] IN
  /\ c.op = "update"
  /\ TellOfUpdate(c)
  /\ Evict(c.key)
  /\ changed' = TRUE
  /\ store' = [store EXCEPT ![c.item] = c.rec]
  /\ Answer(p)
  /\ UNCHANGED <<latest, scheduled, snapshot, saving, issued, loaded>>

\* The removal is announced before the kind is looked at, and does not count
\* as a change.
HandleRemove(p) ==
  LET c == call[p]  deleted == c.kind \in Deletable IN
  /\ c.op = "remove"
  /\ Tell(Others(c.key) \cup (IF deleted THEN Requester(c.key) ELSE {}), c.item, Absent)
  /\ Evict(c.key)
  /\ store' = IF deleted THEN [store EXCEPT ![c.item] = Absent] ELSE store
  /\ Answer(p)
  /\ UNCHANGED <<latest, scheduled, changed, snapshot, saving, issued, loaded>>

\* UpdateExistingChatContext, UpdateChatTitle, UpdateChatTags,
\* AddTagToAccessMode: every session is told the item as it is now, even the
\* requester's, and nobody is evicted.
HandleAnnotate(p) ==
  LET c == call[p]
      new == [store[c.item] EXCEPT !.note = c.rec.note] IN
  /\ c.op = "annotate"
  /\ IF store[c.item] = Absent THEN UNCHANGED <<store, view, unaware>>
     ELSE /\ store' = [store EXCEPT ![c.item] = new]
          /\ Tell(live, c.item, new)
  /\ Answer(p)
  /\ UNCHANGED <<latest, scheduled, changed, snapshot, saving, issued, live, loaded>>

\* UpdateAccessModeSettings: no session is told, the requester only by the reply.
HandleConfigure(p) ==
  LET c == call[p]
      new == [store[c.item] EXCEPT !.note = c.rec.note] IN
  /\ c.op = "configure"
  /\ store' = IF store[c.item] = Absent THEN store ELSE [store EXCEPT ![c.item] = new]
  /\ Answer(p)
  /\ UNCHANGED <<latest, scheduled, changed, snapshot, saving, authVars>>

Clone(p) == store

\* handle_save: a thread of its own writes the clone and answers.
HandleSave(p) ==
  /\ call[p].op = "save"
  /\ changed' = FALSE
  /\ IF changed
       THEN /\ saving' = saving \cup {p} /\ snapshot' = Clone(p) /\ UNCHANGED call
       ELSE /\ Answer(p) /\ UNCHANGED <<saving, snapshot>>
  /\ UNCHANGED <<store, latest, scheduled, authVars>>

SaveDone(p) ==
  /\ p \in saving
  /\ saving' = saving \ {p}
  /\ Answer(p)
  /\ UNCHANGED <<dbVars, authVars, queueVars>>

\* The reply of a tunnel request is its session's receiver; an unknown key's
\* request is dropped, and its worker answers 403.
HandleTunnel(p) ==
  /\ call[p].op = "tunnel"
  /\ Answer(p)
  /\ UNCHANGED <<dbVars, authVars, saving>>

HandleRequest(p) ==
  \/ HandleVerify(p)
  \/ /\ call[p].stage = "execute"
     /\ \/ HandleNewKey(p)   \/ HandleGetAll(p)    \/ HandleGet(p)
        \/ HandleRespond(p)  \/ HandleAdd(p)       \/ HandleUpdate(p)
        \/ HandleRemove(p)   \/ HandleAnnotate(p)  \/ HandleConfigure(p)
        \/ HandleSave(p)     \/ HandleTunnel(p)

-----------------------------------------------------------------------------
(* handling_loop                                                           *)

WaitTimeout ==
  /\ phase = "wait" /\ prio = <<>>
  /\ phase' = "drain"
  /\ UNCHANGED <<dbVars, authVars, saving, call, prio, normal>>

ServePrio ==
  /\ phase = "wait" /\ prio # <<>>
  /\ Head(prio) \in Procs
  /\ HandleRequest(Head(prio))
  /\ prio' = Tail(prio) /\ phase' = "drain"
  /\ UNCHANGED normal

\* A tunnel request whose worker has given up: the send fails and its unwrap
\* panics, which ends the thread; a key that is gone sends nothing.
ServeOrphan ==
  /\ phase = "wait" /\ prio # <<>>
  /\ Head(prio) \in Sessions
  /\ prio' = Tail(prio)
  /\ phase' = IF Head(prio) \in live THEN "dead" ELSE "drain"
  /\ UNCHANGED <<dbVars, authVars, saving, call, normal>>

\* Mutant: the normal channel is emptied before the priority one is looked at.
LookAtNormalFirst ==
  /\ phase = "drain"
  /\ phase' = IF prio = <<>> \/ normal # <<>> THEN "try" ELSE "wait"
  /\ UNCHANGED <<dbVars, authVars, saving, call, prio, normal>>

LookAtPrio ==
  /\ phase = "drain"
  /\ phase' = IF prio = <<>> THEN "try" ELSE "wait"
  /\ UNCHANGED <<dbVars, authVars, saving, call, prio, normal>>

NormalEmpty ==
  /\ phase = "try" /\ normal = <<>>
  /\ phase' = "wait"
  /\ UNCHANGED <<dbVars, authVars, saving, call, prio, normal>>

\* Mutants: the last request is taken first; the request stays in the channel.
ServeNormalLast ==
  /\ phase = "try" /\ normal # <<>>
  /\ HandleRequest(normal[Len(normal)])
  /\ normal' = SubSeq(normal, 1, Len(normal) - 1) /\ phase' = "drain"
  /\ UNCHANGED prio

PeekNormal ==
  /\ phase = "try" /\ normal # <<>>
  /\ HandleRequest(Head(normal))
  /\ phase' = "drain"
  /\ UNCHANGED <<prio, normal>>

ServeNormal ==
  /\ phase = "try" /\ normal # <<>>
  /\ HandleRequest(Head(normal))
  /\ normal' = Tail(normal) /\ phase' = "drain"
  /\ UNCHANGED prio

DatabaseThread ==
  \/ WaitTimeout \/ ServePrio \/ ServeOrphan
  \/ LookAtPrio \/ NormalEmpty \/ ServeNormal

Next ==
  \/ DatabaseThread
  \/ \E w \in Workers :
       \/ ("newkey" \in WebOps /\ CallNewKey(w))
       \/ \E s \in Sessions : CallDatabase(w, s)
       \/ SendVerified(w) \/ TunnelTimeout(w)
  \/ \E a \in Agents : CallAgent(a) \/ CallRespond(a) \/ UpdateAgentChat(a)
  \/ \E t \in Savers : CallSave(t)
  \/ \E p \in Procs : SaveDone(p)

Spec == Init /\ [][Next]_vars

\* The operating system schedules the database thread, a running web worker
\* and the threads that save; nothing makes a client send a request.
Fairness ==
  /\ WF_vars(DatabaseThread)
  /\ \A w \in Workers : WF_vars(SendVerified(w))
  /\ \A p \in Procs : WF_vars(SaveDone(p))

FairSpec == Spec /\ Fairness

-----------------------------------------------------------------------------
(* Properties *)

DataTypeOK ==
  /\ store \in [Items -> Records \cup {Absent}]
  /\ latest \in [Kinds -> 0 .. MaxId]
  /\ scheduled \subseteq Items
  /\ changed \in BOOLEAN
  /\ snapshot \in [Items -> Records \cup {Absent}]
  /\ saving \subseteq Procs
  /\ issued \subseteq Sessions /\ live \subseteq issued /\ loaded \subseteq Sessions
  /\ view \in [Sessions -> [Items -> Records \cup {Absent}]]
  /\ unaware \subseteq Sessions \X Items
  /\ call \in [Procs -> Calls]
QueueTypeOK ==
  /\ prio \in Seq(Procs \cup Sessions) /\ normal \in Seq(Procs)
  /\ phase \in {"wait", "drain", "try", "dead"}
TypeOK == DataTypeOK /\ QueueTypeOK

\* No id that anybody still holds (the store, a snapshot being written, a
\* client's copy, the job thread, a request on its way) is ever handed out
\* again by add_*: removing an item and being updated late never frees its id.
IdsHeld == {i \in Items : \/ store[i] # Absent \/ snapshot[i] # Absent
                          \/ i \in scheduled
                          \/ \E s \in Sessions : view[s][i] # Absent
                          \/ \E p \in Procs : call[p].item = i /\ call[p].op # "remove"}
FreshIds == \A i \in IdsHeld : i[2] < latest[i[1]]

\* A client that has loaded the database and applied what it was told holds
\* exactly the chats, jobs and notifications of the server: no announcement is
\* missed by a live session, whoever changed or removed the item, and none is
\* out of order with the execution.  One case parts them: a client whose own
\* update came after the removal is told that the item is not there, while the
\* server has inserted it again; it is without the item until somebody else
\* changes it or it fetches it.
DeletableMirrored ==
  \A s \in live \cap loaded, i \in Items : i[1] \in Deletable \ Configurable =>
    view[s][i] = IF <<s, i>> \in unaware THEN Absent ELSE store[i]

\* Whatever a live session holds of any item has the server's body.
BodiesAgree ==
  \A s \in live, i \in Items : view[s][i] # Absent =>
    store[i] # Absent /\ view[s][i].body = store[i].body

\* When the flag lets handle_save skip a save, the last snapshot has every
\* item, with the body a client or an agent wrote last.
FlagCoversWrites ==
  ~changed => \A i \in Items : store[i] # Absent =>
    snapshot[i] # Absent /\ snapshot[i].body = store[i].body

\* Every job ever added was sent to the job thread, the removed ones included.
JobsForwarded ==
  \A i \in Items : i[1] \in JobKinds /\ store[i] # Absent => i \in scheduled

\* A blocked process is in exactly one place of exactly one channel, or being
\* saved for: no request is lost, executed twice or answered twice.
Waiting(p) == call[p].stage \in {"verify", "execute"}
InPrio(p) == {n \in DOMAIN prio : prio[n] = p}
InNormal(p) == {n \in DOMAIN normal : normal[n] = p}
EveryCallQueuedOnce ==
  \A p \in Procs :
    /\ \A m, n \in InPrio(p) : m = n
    /\ \A m, n \in InNormal(p) : m = n
    /\ ~(InPrio(p) # {} /\ InNormal(p) # {})
    /\ p \in saving <=> (Waiting(p) /\ InPrio(p) = {} /\ InNormal(p) = {})
    /\ ~Waiting(p) => InPrio(p) = {} /\ InNormal(p) = {}

\* Every request a web worker or an internal task sends on the priority
\* channel is answered, unless the database thread has died.
PrioAnswered ==
  \A p \in Workers \cup Agents :
    (Waiting(p) /\ InPrio(p) # {}) ~> (~Waiting(p) \/ phase = "dead")

\* A request on the normal channel (the saving thread's, an agent's Get) is
\* answered if the thread keeps finding the priority channel empty.
NormalAnswered ==
  \A p \in Procs :
    []<>(phase = "try") => ((Waiting(p) /\ InNormal(p) # {}) ~> ~Waiting(p))

\* Seen by the processes that write, the thread, its channels and the keys do
\* nothing but apply each write once, atomically, while it is being waited for.
pendingWrites ==
  [p \in Procs |->
     IF call[p].op \in Writes
     THEN [op |-> call[p].op, kind |-> call[p].kind,
           item |-> IF call[p].item = NoItem THEN Absent ELSE call[p].item,
           rec |-> call[p].rec]
     ELSE NoItem]

Promise == INSTANCE ItemStore WITH pending <- pendingWrites, NoRequest <- NoItem
ImplementsItemStore == Promise!Spec

\* Said by the unwrap of the tunnel's send: its receiver is there.
TunnelReceiverPresent == phase # "dead"

\* Said by the panic of agent_tool: an agent's chat is there to respond to.
AgentChatPresent == \A a \in Agents : call[a].stage # "panicked"

=============================================================================
