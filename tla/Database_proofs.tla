--------------------------- MODULE Database_proofs --------------------------
(* Proofs about the database thread, for every value of the constants.     *)
EXTENDS Database, TLAPS, SequenceTheorems

-----------------------------------------------------------------------------
(* Lemmas on the operators of the model.                                   *)

LEMMA RecordExcept ==
  ASSUME NEW r \in Records, NEW b \in Bodies, NEW n \in Notes
  PROVE  [r EXCEPT !.body = b] \in Records /\ [r EXCEPT !.note = n] \in Records
BY DEF Records

LEMMA AnyKindInKinds == AnyKind \in Kinds
BY DatabaseAssumption DEF AnyKind

LEMMA IdleCallTyped ==
  IdleCall \in Calls /\ [IdleCall EXCEPT !.stage = "panicked"] \in Calls
BY AnyKindInKinds, DatabaseAssumption
   DEF IdleCall, Calls, CallRecords, Ops, Keys, Stages

\* A request the model makes is one, whoever makes it.
LEMMA RequestTyped ==
  ASSUME NEW op \in Ops, NEW key \in Keys, NEW kind \in Kinds,
         NEW item \in Items \cup {NoItem}, NEW rec \in Records \cup {Absent},
         op \in {"get", "update", "remove", "annotate", "configure", "respond"}
           => item \in Items,
         op \in {"add", "update", "annotate", "configure"} => rec \in Records,
         op \in {"getall", "tunnel"} => key \in Sessions,
         item \in Items => kind = item[1],
         op = "configure" => kind \in Configurable
  PROVE  Request(op, key, kind, item, rec) \in Calls
BY DatabaseAssumption DEF Request, Calls, CallRecords, Stages

LEMMA ItemKind == \A i \in Items : i[1] \in Kinds /\ i[2] \in Ids
BY DEF Items

-----------------------------------------------------------------------------
(* Type correctness.                                                       *)

LEMMA InitType == Init => TypeOK
<1> SUFFICES ASSUME Init PROVE TypeOK
  OBVIOUS
<1>1. Initially \in [Items -> Records \cup {Absent}]
  BY DatabaseAssumption DEF Initially
<1>2. scheduled \subseteq Items
  BY DEF Init
<1>3. latest \in [Kinds -> 0 .. MaxId]
  BY DatabaseAssumption DEF Init
<1>4. call \in [Procs -> Calls]
  BY IdleCallTyped DEF Init
<1>5. QueueTypeOK
  BY DEF Init, QueueTypeOK
<1>6. QED
  BY <1>1, <1>2, <1>3, <1>4, <1>5 DEF Init, TypeOK, DataTypeOK

Views == [Sessions -> [Items -> Records \cup {Absent}]]

\* An announcement leaves each session with records or nothing.
LEMMA TellType ==
  ASSUME view \in Views, unaware \subseteq Sessions \X Items,
         NEW S, NEW i \in Items, NEW rec \in Records \cup {Absent}
  PROVE  /\ Told(S, i, rec) \in Views
         /\ Tell(S, i, rec) => view' \in Views /\ unaware' \subseteq Sessions \X Items
BY DEF Views, Told, Tell

\* What handling a request does to everything but the channels.
LEMMA HandlerType ==
  ASSUME TypeOK, NEW p \in Procs, HandleRequest(p)
  PROVE  DataTypeOK'
<1> DEFINE c == call[p]
<1>0. /\ c \in Calls /\ c \in CallRecords
      /\ c.op \in Ops /\ c.key \in Keys /\ c.kind \in Kinds
      /\ c.item \in Items \cup {NoItem} /\ c.rec \in Records \cup {Absent}
      /\ DataTypeOK
  BY DEF TypeOK, DataTypeOK, Calls, CallRecords
<1>1. CASE HandleVerify(p)
  <2>1. [c EXCEPT !.stage = "verified"] \in Calls
    BY <1>1, <1>0 DEF HandleVerify, Calls, CallRecords, Stages
  <2>2. call' \in [Procs -> Calls]
    BY <1>1, <2>1, <1>0, IdleCallTyped DEF HandleVerify, DataTypeOK
  <2>3. QED
    BY <1>1, <2>2, <1>0 DEF HandleVerify, DataTypeOK, dbVars, authVars
<1>2. CASE HandleNewKey(p)
  BY <1>2, <1>0, IdleCallTyped DEF HandleNewKey, DataTypeOK, dbVars, Answer
<1>3. CASE HandleGetAll(p)
  <2>1. c.key \in Sessions
    BY <1>3, <1>0 DEF HandleGetAll, Calls
  <2>2. QED
    BY <1>3, <2>1, <1>0, IdleCallTyped DEF HandleGetAll, DataTypeOK, dbVars, Answer
<1>4. CASE HandleGet(p)
  BY <1>4, <1>0, IdleCallTyped DEF HandleGet, DataTypeOK, dbVars, Answer, Tell, Told, Calls
<1>5. CASE HandleRespond(p)
  <2>1. c.item \in Items /\ store[c.item] \in Records \cup {Absent}
    BY <1>5, <1>0 DEF HandleRespond, Calls, DataTypeOK
  <2>2. store[c.item] # Absent =>
          [c EXCEPT !.stage = "got", !.rec = store[c.item]] \in Calls
    BY <2>1, <1>0, <1>5 DEF HandleRespond, Calls, CallRecords, Stages
  <2>3. QED
    BY <1>5, <2>1, <2>2, <1>0, IdleCallTyped
       DEF HandleRespond, DataTypeOK, dbVars, authVars
<1>6. CASE HandleAdd(p)
  <2>1. c.rec \in Records /\ latest[c.kind] \in Ids
    BY <1>6, <1>0, DatabaseAssumption DEF HandleAdd, NewItem, NextIds, Forwarded, Calls,
                                          Ids, DataTypeOK
  <2>2. <<c.kind, latest[c.kind]>> \in Items
    BY <2>1, <1>0 DEF Items
  <2>3. view' \in [Sessions -> [Items -> Records \cup {Absent}]]
    BY <1>6, <2>1, <2>2, <1>0
       DEF HandleAdd, NewItem, NextIds, Forwarded, Tell, Told, DataTypeOK
  <2>6. unaware' \subseteq Sessions \X Items
    BY <1>6, <1>0 DEF HandleAdd, Tell, DataTypeOK
  <2>4. latest' \in [Kinds -> 0 .. MaxId]
    BY <1>6, <2>1, <1>0, DatabaseAssumption DEF HandleAdd, NewItem, NextIds, Forwarded,
                                                DataTypeOK
  <2>5. QED
    BY <1>6, <2>1, <2>2, <2>3, <2>4, <2>6, <1>0, IdleCallTyped
       DEF HandleAdd, NewItem, NextIds, Forwarded, DataTypeOK, Answer, Evict
<1>7. CASE HandleUpdate(p)
  <2>1. c.rec \in Records /\ c.item \in Items
    BY <1>7, <1>0 DEF HandleUpdate, Calls
  <2>2. view' \in Views /\ unaware' \subseteq Sessions \X Items
    <3>1. view \in Views /\ unaware \subseteq Sessions \X Items
      BY <1>0 DEF DataTypeOK, Views
    <3>2. Requester(c.key) \subseteq Sessions
      BY DEF Requester
    <3>3. QED
      BY <1>7, <2>1, <3>1, <3>2, TellType DEF HandleUpdate, TellOfUpdate
  <2>3. QED
    BY <1>7, <2>1, <2>2, <1>0, IdleCallTyped
       DEF HandleUpdate, DataTypeOK, Answer, Evict, Views
<1>8. CASE HandleRemove(p)
  <2>1. c.item \in Items
    BY <1>8, <1>0 DEF HandleRemove, Calls
  <2>2. QED
    BY <1>8, <2>1, <1>0, IdleCallTyped
       DEF HandleRemove, DataTypeOK, Answer, Evict, Tell, Told
<1>9. CASE HandleAnnotate(p)
  <2> DEFINE new == [store[c.item] EXCEPT !.note = c.rec.note]
  <2>1. c.item \in Items /\ c.rec \in Records /\ c.rec.note \in Notes
    BY <1>9, <1>0 DEF HandleAnnotate, Calls, Records
  <2>2. store[c.item] # Absent => new \in Records
    BY <2>1, <1>0 DEF DataTypeOK, Records
  <2>3. QED
    <3>1. view \in Views /\ unaware \subseteq Sessions \X Items
      BY <1>0 DEF DataTypeOK, Views
    <3>2. view' \in Views /\ unaware' \subseteq Sessions \X Items
      <4>1. CASE store[c.item] = Absent
        BY <1>9, <3>1, <4>1 DEF HandleAnnotate
      <4>2. CASE store[c.item] # Absent
        <5>1. Tell(live, c.item, new)
          BY <1>9, <4>2 DEF HandleAnnotate
        <5>2. QED BY <2>1, <2>2, <3>1, <4>2, <5>1, TellType
      <4>3. QED BY <4>1, <4>2
    <3>3. QED
      BY <1>9, <2>1, <2>2, <3>2, <1>0, IdleCallTyped
         DEF HandleAnnotate, DataTypeOK, Answer, Views
<1>10. CASE HandleConfigure(p)
  <2> DEFINE new == [store[c.item] EXCEPT !.note = c.rec.note]
  <2>1. c.item \in Items /\ c.rec \in Records /\ c.rec.note \in Notes
    BY <1>10, <1>0 DEF HandleConfigure, Calls, Records
  <2>2. store[c.item] # Absent => new \in Records
    BY <2>1, <1>0 DEF DataTypeOK, Records
  <2>3. QED
    BY <1>10, <2>1, <2>2, <1>0, IdleCallTyped
       DEF HandleConfigure, DataTypeOK, Answer, authVars
<1>11. CASE HandleSave(p)
  BY <1>11, <1>0, IdleCallTyped DEF HandleSave, Clone, DataTypeOK, Answer, authVars
<1>12. CASE HandleTunnel(p)
  BY <1>12, <1>0, IdleCallTyped DEF HandleTunnel, DataTypeOK, Answer, authVars, dbVars
<1>20. QED
  BY <1>1, <1>2, <1>3, <1>4, <1>5, <1>6, <1>7, <1>8, <1>9, <1>10, <1>11, <1>12
     DEF HandleRequest

LEMMA ProcsApart ==
  /\ Workers \subseteq Procs /\ Agents \subseteq Procs /\ Savers \subseteq Procs
  /\ \A p \in Procs : p \notin Sessions
BY DatabaseAssumption DEF Procs

\* Making a request, or the next request of the same task.
LEMMA SendType ==
  ASSUME TypeOK, NEW p \in Procs, NEW r \in Calls,
         call' = [call EXCEPT ![p] = r],
         \/ prio' = Append(prio, p) /\ normal' = normal
         \/ prio' = prio /\ normal' = Append(normal, p),
         UNCHANGED <<dbVars, authVars, saving, phase>>
  PROVE  TypeOK'
<1>1. DataTypeOK'
  BY DEF TypeOK, DataTypeOK, dbVars, authVars
<1>2. /\ prio \in Seq(Procs \cup Sessions) => Append(prio, p) \in Seq(Procs \cup Sessions)
      /\ normal \in Seq(Procs) => Append(normal, p) \in Seq(Procs)
  OBVIOUS
<1>3. prio' \in Seq(Procs \cup Sessions) /\ normal' \in Seq(Procs)
  BY <1>2 DEF TypeOK, QueueTypeOK
<1>4. QED BY <1>1, <1>3 DEF TypeOK, QueueTypeOK

LEMMA StartType ==
  ASSUME TypeOK, NEW p \in Procs, NEW r \in Calls, Start(p, r)
  PROVE  TypeOK'
BY SendType DEF Start

LEMMA CallDatabaseType ==
  ASSUME TypeOK, NEW w \in Workers, NEW s \in Sessions, CallDatabase(w, s)
  PROVE  TypeOK'
<1>1. ASSUME NEW op \in WebOps, NEW i \in KnownTo(s),
             NEW rec \in Rewrites(op, i[1], view[s][i]),
             Start(w, Request(op, s, i[1], i, rec))
      PROVE  TypeOK'
  <2>1. /\ i \in Items /\ i[1] \in Kinds /\ s \in Keys /\ op \in Ops
        /\ rec \in Records \cup {Absent}
        /\ op \in {"add", "update", "annotate", "configure"} => rec \in Records
        /\ op = "configure" => i[1] \in Configurable
    BY ItemKind, DatabaseAssumption DEF KnownTo, Keys, Rewrites
  <2>2. Request(op, s, i[1], i, rec) \in Calls
    BY <2>1, RequestTyped
  <2>3. QED BY <1>1, <2>2, StartType, ProcsApart
<1>2. ASSUME NEW op \in WebOps \cap {"getall", "save", "tunnel"},
             Start(w, Request(op, s, AnyKind, NoItem, Absent))
      PROVE  TypeOK'
  <2>1. Request(op, s, AnyKind, NoItem, Absent) \in Calls
    BY RequestTyped, AnyKindInKinds, DatabaseAssumption DEF Keys, Ops
  <2>2. QED BY <1>2, <2>1, StartType, ProcsApart
<1>3. ASSUME NEW k \in Kinds, NEW rec \in Records,
             Start(w, Request("add", s, k, NoItem, rec))
      PROVE  TypeOK'
  <2>1. Request("add", s, k, NoItem, rec) \in Calls
    BY RequestTyped, DatabaseAssumption DEF Keys, Ops
  <2>2. QED BY <1>3, <2>1, StartType, ProcsApart
<1>4. QED BY <1>1, <1>2, <1>3 DEF CallDatabase

LEMMA CallAgentType ==
  ASSUME TypeOK, NEW a \in Agents, CallAgent(a)
  PROVE  TypeOK'
<1>1. ASSUME NEW k \in Kinds, NEW rec \in Records,
             Start(a, Request("add", Local, k, NoItem, rec))
      PROVE  TypeOK'
  <2>1. Request("add", Local, k, NoItem, rec) \in Calls
    BY RequestTyped, DatabaseAssumption DEF Keys, Ops
  <2>2. QED BY <1>1, <2>1, StartType, ProcsApart
<1>2. ASSUME NEW op \in AgentOps \cap {"annotate", "configure"}, NEW i \in Items,
             NEW rec \in Records, Start(a, Request(op, Local, i[1], i, rec)),
             i[1] \in (IF op = "annotate" THEN Annotatable ELSE Configurable)
      PROVE  TypeOK'
  <2>1. /\ op \in Ops /\ Local \in Keys /\ i[1] \in Kinds
        /\ op = "configure" => i[1] \in Configurable
    BY <1>2, ItemKind DEF Keys, Ops
  <2>2. Request(op, Local, i[1], i, rec) \in Calls
    BY <2>1, RequestTyped
  <2>3. QED BY <1>2, <2>2, StartType, ProcsApart
<1>3. ASSUME NEW i \in Items, Start(a, Request("remove", Local, i[1], i, Absent))
      PROVE  TypeOK'
  <2>1. Request("remove", Local, i[1], i, Absent) \in Calls
    BY RequestTyped, DatabaseAssumption, ItemKind DEF Keys, Ops
  <2>2. QED BY <1>3, <2>1, StartType, ProcsApart
<1>4. QED BY <1>1, <1>2, <1>3 DEF CallAgent

LEMMA OtherCallersType ==
  ASSUME TypeOK
  PROVE  /\ \A w \in Workers : CallNewKey(w) \/ SendVerified(w) => TypeOK'
         /\ \A a \in Agents : CallRespond(a) \/ UpdateAgentChat(a) => TypeOK'
         /\ \A t \in Savers : CallSave(t) => TypeOK'
<1>1. ASSUME NEW w \in Workers, CallNewKey(w) PROVE TypeOK'
  <2>1. Request("newkey", Local, AnyKind, NoItem, Absent) \in Calls
    BY RequestTyped, AnyKindInKinds, DatabaseAssumption DEF Keys, Ops
  <2>2. QED BY <1>1, <2>1, StartType, ProcsApart DEF CallNewKey
<1>2. ASSUME NEW w \in Workers, SendVerified(w) PROVE TypeOK'
  <2>1. w \in Procs /\ call[w] \in Calls
    BY ProcsApart DEF TypeOK, DataTypeOK
  <2>2. [call[w] EXCEPT !.stage = "execute"] \in Calls
    BY <2>1, <1>2 DEF SendVerified, Calls, CallRecords, Stages
  <2>3. QED BY <1>2, <2>1, <2>2, SendType DEF SendVerified
<1>3. ASSUME NEW a \in Agents, CallRespond(a) PROVE TypeOK'
  <2>1. PICK i \in Items :
          call' = [call EXCEPT ![a] = Request("respond", Local, i[1], i, Absent)]
    BY <1>3 DEF CallRespond
  <2>2. Request("respond", Local, i[1], i, Absent) \in Calls
    BY RequestTyped, ItemKind, DatabaseAssumption DEF Keys, Ops
  <2>3. QED BY <1>3, <2>1, <2>2, SendType, ProcsApart DEF CallRespond
<1>4. ASSUME NEW a \in Agents, UpdateAgentChat(a) PROVE TypeOK'
  <2> DEFINE c == call[a]
  <2>1. PICK b \in Bodies : call' = [call EXCEPT ![a] = Request("update", Local,
          c.kind, c.item, [c.rec EXCEPT !.body = b])]
    BY <1>4 DEF UpdateAgentChat
  <2>2. a \in Procs /\ c \in Calls
    BY ProcsApart DEF TypeOK, DataTypeOK
  <2>3. c.op = "respond" /\ c.item \in Items /\ c.rec \in Records /\ c.kind = c.item[1]
    BY <1>4, <2>2 DEF UpdateAgentChat, Calls
  <2>4. [c.rec EXCEPT !.body = b] \in Records
    BY <2>3 DEF Records
  <2>5. Request("update", Local, c.kind, c.item, [c.rec EXCEPT !.body = b]) \in Calls
    BY <2>3, <2>4, RequestTyped, ItemKind, DatabaseAssumption DEF Keys, Ops
  <2>6. QED BY <1>4, <2>1, <2>2, <2>5, SendType DEF UpdateAgentChat
<1>5. ASSUME NEW t \in Savers, CallSave(t) PROVE TypeOK'
  <2>1. Request("save", Local, AnyKind, NoItem, Absent) \in Calls
    BY RequestTyped, AnyKindInKinds, DatabaseAssumption DEF Keys, Ops
  <2>2. QED BY <1>5, <2>1, SendType, ProcsApart DEF CallSave
<1>6. QED BY <1>1, <1>2, <1>3, <1>4, <1>5

LEMMA ThreadType ==
  ASSUME TypeOK, DatabaseThread
  PROVE  TypeOK'
<1>1. CASE WaitTimeout \/ LookAtPrio \/ NormalEmpty
  BY <1>1 DEF WaitTimeout, LookAtPrio, NormalEmpty, TypeOK, DataTypeOK,
              QueueTypeOK, dbVars, authVars
<1>2. CASE ServePrio
  <2>1. Head(prio) \in Procs /\ Tail(prio) \in Seq(Procs \cup Sessions)
    BY <1>2 DEF ServePrio, TypeOK, QueueTypeOK
  <2>2. DataTypeOK'
    BY <1>2, <2>1, HandlerType DEF ServePrio
  <2>3. QED BY <1>2, <2>1, <2>2 DEF ServePrio, TypeOK, QueueTypeOK
<1>3. CASE ServeOrphan
  <2>1. Tail(prio) \in Seq(Procs \cup Sessions)
    BY <1>3 DEF ServeOrphan, TypeOK, QueueTypeOK
  <2>2. QED
    BY <1>3, <2>1 DEF ServeOrphan, TypeOK, DataTypeOK, QueueTypeOK, dbVars, authVars
<1>4. CASE ServeNormal
  <2>1. Head(normal) \in Procs /\ Tail(normal) \in Seq(Procs)
    BY <1>4 DEF ServeNormal, TypeOK, QueueTypeOK
  <2>2. DataTypeOK'
    BY <1>4, <2>1, HandlerType DEF ServeNormal
  <2>3. QED BY <1>4, <2>1, <2>2 DEF ServeNormal, TypeOK, QueueTypeOK
<1>5. QED BY <1>1, <1>2, <1>3, <1>4 DEF DatabaseThread

LEMMA TimeoutAndSaveType ==
  ASSUME TypeOK
  PROVE  /\ \A w \in Workers : TunnelTimeout(w) => TypeOK'
         /\ \A p \in Procs : SaveDone(p) => TypeOK'
<1>1. ASSUME NEW w \in Workers, TunnelTimeout(w) PROVE TypeOK'
  <2>1. w \in Procs /\ call[w] \in Calls /\ call[w].key \in Sessions
    BY <1>1, ProcsApart DEF TypeOK, DataTypeOK, Calls, TunnelTimeout
  <2>2. prio' \in Seq(Procs \cup Sessions)
    <3>1. prio \in Seq(Procs \cup Sessions)
      BY DEF TypeOK, QueueTypeOK
    <3>2. prio' = [n \in 1 .. Len(prio) |->
                     IF prio[n] = w THEN call[w].key ELSE prio[n]]
      BY <1>1, <3>1 DEF TunnelTimeout
    <3>3. \A n \in 1 .. Len(prio) :
            (IF prio[n] = w THEN call[w].key ELSE prio[n]) \in Procs \cup Sessions
      BY <3>1, <2>1
    <3>4. QED BY <3>1, <3>2, <3>3, IsASeq, LenProperties
  <2>3. QED
    BY <1>1, <2>1, <2>2, IdleCallTyped
       DEF TunnelTimeout, TypeOK, DataTypeOK, QueueTypeOK, dbVars, authVars
<1>2. ASSUME NEW p \in Procs, SaveDone(p) PROVE TypeOK'
  BY <1>2, IdleCallTyped
     DEF SaveDone, Answer, TypeOK, DataTypeOK, QueueTypeOK, dbVars, authVars, queueVars
<1>3. QED BY <1>1, <1>2

LEMMA NextType == TypeOK /\ [Next]_vars => TypeOK'
<1> SUFFICES ASSUME TypeOK, [Next]_vars PROVE TypeOK'
  OBVIOUS
<1>1. CASE UNCHANGED vars
  BY <1>1 DEF vars, TypeOK, DataTypeOK, QueueTypeOK
<1>2. CASE Next
  BY <1>2, ThreadType, TimeoutAndSaveType, OtherCallersType, CallAgentType,
     CallDatabaseType DEF Next
<1>3. QED BY <1>1, <1>2

\* Every variable of the database thread keeps its type in every behaviour.
THEOREM TypeCorrect == Spec => []TypeOK
BY InitType, NextType, PTL DEF Spec

-----------------------------------------------------------------------------
(* Ids are never handed out twice.                                         *)

LEMMA InitFresh == Init => FreshIds
<1> SUFFICES ASSUME Init, NEW i \in IdsHeld PROVE i[2] < latest[i[1]]
  BY DEF FreshIds
<1>1. i \in Items /\ Initially[i] # Absent
  BY DatabaseAssumption DEF Init, IdsHeld, IdleCall
<1>2. QED BY <1>1 DEF Init, Initially

LEMMA HandlerFresh ==
  ASSUME TypeOK, FreshIds, NEW p \in Procs, HandleRequest(p)
  PROVE  FreshIds'
<1> DEFINE c == call[p]
<1>0. c \in Calls /\ c \in CallRecords /\ DataTypeOK /\ IdleCall.item = NoItem
      /\ NoItem \notin Items
  BY DatabaseAssumption DEF TypeOK, DataTypeOK, Calls, IdleCall
<1>1. CASE HandleVerify(p)
  BY <1>1, <1>0 DEF HandleVerify, FreshIds, IdsHeld, dbVars, authVars, DataTypeOK,
                    CallRecords
<1>2. CASE HandleNewKey(p)
  BY <1>2, <1>0 DEF HandleNewKey, FreshIds, IdsHeld, dbVars, Answer, DataTypeOK
<1>3. CASE HandleGetAll(p)
  BY <1>3, <1>0 DEF HandleGetAll, FreshIds, IdsHeld, dbVars, Answer, DataTypeOK
<1>4. CASE HandleGet(p)
  BY <1>4, <1>0 DEF HandleGet, Tell, Told, FreshIds, IdsHeld, dbVars, Answer, DataTypeOK
<1>5. CASE HandleRespond(p)
  BY <1>5, <1>0 DEF HandleRespond, FreshIds, IdsHeld, dbVars, authVars, DataTypeOK,
                    CallRecords
<1>6. CASE HandleAdd(p)
  <2> DEFINE new == <<c.kind, latest[c.kind]>>
  <2>1. c.kind \in Kinds /\ latest[c.kind] \in Nat /\ latest \in [Kinds -> Int]
    BY <1>0, DatabaseAssumption DEF CallRecords, DataTypeOK
  <2>2. \A i \in IdsHeld' : i \in IdsHeld \/ i = new
    BY <1>6, <1>0 DEF HandleAdd, NewItem, NextIds, Forwarded, Tell, Told, Answer, IdsHeld,
                      DataTypeOK
  <2>3. \A i \in Items : latest[i[1]] <= latest'[i[1]]
    BY <1>6, <2>1, ItemKind DEF HandleAdd, NewItem, NextIds, Forwarded
  <2>4. new[2] < latest'[new[1]]
    BY <1>6, <2>1 DEF HandleAdd, NewItem, NextIds, Forwarded
  <2>5. \A i \in Items : i[2] \in Int /\ latest[i[1]] \in Int /\ latest'[i[1]] \in Int
    BY <1>6, <2>1, ItemKind, DatabaseAssumption DEF HandleAdd, NewItem, NextIds,
                                                    Forwarded, Ids
  <2>6. QED BY <2>2, <2>3, <2>4, <2>5 DEF FreshIds, IdsHeld
<1>7. CASE HandleUpdate(p)
  BY <1>7, <1>0 DEF HandleUpdate, TellOfUpdate, Tell, Told, FreshIds, IdsHeld, Answer,
                    DataTypeOK, Calls
<1>8. CASE HandleRemove(p)
  BY <1>8, <1>0 DEF HandleRemove, Tell, Told, FreshIds, IdsHeld, Answer, DataTypeOK
<1>9. CASE HandleAnnotate(p)
  BY <1>9, <1>0 DEF HandleAnnotate, Tell, Told, FreshIds, IdsHeld, Answer, DataTypeOK
<1>10. CASE HandleConfigure(p)
  BY <1>10, <1>0 DEF HandleConfigure, FreshIds, IdsHeld, Answer, DataTypeOK, authVars
<1>11. CASE HandleSave(p)
  BY <1>11, <1>0 DEF HandleSave, Clone, FreshIds, IdsHeld, Answer, DataTypeOK, authVars
<1>12. CASE HandleTunnel(p)
  BY <1>12, <1>0 DEF HandleTunnel, FreshIds, IdsHeld, Answer, DataTypeOK, authVars, dbVars
<1>20. QED
  BY <1>1, <1>2, <1>3, <1>4, <1>5, <1>6, <1>7, <1>8, <1>9, <1>10, <1>11, <1>12
     DEF HandleRequest

LEMMA CallersFresh ==
  ASSUME TypeOK, FreshIds
  PROVE  /\ \A w \in Workers, s \in Sessions : CallDatabase(w, s) => FreshIds'
         /\ \A w \in Workers : CallNewKey(w) \/ SendVerified(w) => FreshIds'
         /\ \A a \in Agents : CallAgent(a) \/ CallRespond(a) \/ UpdateAgentChat(a)
                                => FreshIds'
         /\ \A t \in Savers : CallSave(t) => FreshIds'
<1> USE DatabaseAssumption, ProcsApart, ItemKind, AnyKindInKinds
<1>0. ASSUME NEW p \in Procs, NEW r, Start(p, r),
             r.item \in Items => r.op = "remove" \/ r.item[2] < latest[r.item[1]]
      PROVE  FreshIds'
  BY <1>0 DEF Start, TypeOK, DataTypeOK, FreshIds, IdsHeld, dbVars, authVars
<1>1. ASSUME NEW w \in Workers, NEW s \in Sessions, CallDatabase(w, s)
      PROVE  FreshIds'
  <2>1. \A i \in KnownTo(s) : i[2] < latest[i[1]]
    BY DEF KnownTo, FreshIds, IdsHeld
  <2>2. QED BY <1>0, <1>1, <2>1 DEF CallDatabase, Request
<1>2. ASSUME NEW w \in Workers, CallNewKey(w) PROVE FreshIds'
  BY <1>0, <1>2 DEF CallNewKey, Request
<1>3. ASSUME NEW w \in Workers, SendVerified(w) PROVE FreshIds'
  BY <1>3 DEF SendVerified, TypeOK, DataTypeOK, Calls, CallRecords, FreshIds,
              IdsHeld, dbVars, authVars
<1>4. ASSUME NEW a \in Agents, CallAgent(a) PROVE FreshIds'
  BY <1>0, <1>4 DEF CallAgent, Request
<1>5. ASSUME NEW a \in Agents, CallRespond(a) PROVE FreshIds'
  BY <1>5 DEF CallRespond, Request, TypeOK, DataTypeOK, FreshIds, IdsHeld, dbVars, authVars
<1>6. ASSUME NEW a \in Agents, UpdateAgentChat(a) PROVE FreshIds'
  <2>1. call[a].op = "respond" /\ call[a].item \in Items /\ a \in Procs
    BY <1>6 DEF UpdateAgentChat, TypeOK, DataTypeOK, Calls
  <2>2. call[a].item[2] < latest[call[a].item[1]]
    BY <2>1 DEF FreshIds, IdsHeld
  <2>3. QED
    BY <1>6, <2>1, <2>2
       DEF UpdateAgentChat, Request, TypeOK, DataTypeOK, FreshIds, IdsHeld, dbVars, authVars
<1>7. ASSUME NEW t \in Savers, CallSave(t) PROVE FreshIds'
  BY <1>7 DEF CallSave, Request, TypeOK, DataTypeOK, FreshIds, IdsHeld, dbVars, authVars
<1>8. QED BY <1>1, <1>2, <1>3, <1>4, <1>5, <1>6, <1>7

LEMMA ThreadFresh ==
  ASSUME TypeOK, FreshIds, DatabaseThread
  PROVE  FreshIds'
<1>1. CASE WaitTimeout \/ LookAtPrio \/ NormalEmpty \/ ServeOrphan
  BY <1>1 DEF WaitTimeout, LookAtPrio, NormalEmpty, ServeOrphan, FreshIds,
              IdsHeld, dbVars, authVars
<1>2. CASE ServePrio
  BY <1>2, HandlerFresh DEF ServePrio
<1>3. CASE ServeNormal
  BY <1>3, HandlerFresh DEF ServeNormal, TypeOK, QueueTypeOK
<1>4. QED BY <1>1, <1>2, <1>3 DEF DatabaseThread

LEMMA NextFresh == TypeOK /\ FreshIds /\ [Next]_vars => FreshIds'
<1> SUFFICES ASSUME TypeOK, FreshIds, [Next]_vars PROVE FreshIds'
  OBVIOUS
<1>1. CASE UNCHANGED vars
  BY <1>1 DEF vars, FreshIds, IdsHeld
<1>2. ASSUME NEW w \in Workers, TunnelTimeout(w) PROVE FreshIds'
  BY <1>2, ProcsApart, DatabaseAssumption
     DEF TunnelTimeout, IdleCall, TypeOK, DataTypeOK, FreshIds, IdsHeld, dbVars, authVars
<1>3. ASSUME NEW p \in Procs, SaveDone(p) PROVE FreshIds'
  BY <1>3, DatabaseAssumption
     DEF SaveDone, Answer, IdleCall, TypeOK, DataTypeOK, FreshIds, IdsHeld, dbVars, authVars
<1>4. QED BY <1>1, <1>2, <1>3, ThreadFresh, CallersFresh DEF Next

\* An id anybody holds, in the store, a snapshot, a client's copy, the job
\* thread or a request under way, is below the next id to hand out: add_* of
\* chats.rs, tags.rs, access_modes.rs, devices.rs never overwrites an item.
THEOREM IdsFresh == Spec => []FreshIds
BY TypeCorrect, InitFresh, NextFresh, PTL DEF Spec

-----------------------------------------------------------------------------
(* What the sessions are told is what the database did.                    *)

\* Keys come into being in handle_new_auth_key only: nobody was told anything,
\* nor loads or asks anything, under a key that was not issued.
SessionsKnown ==
  /\ loaded \subseteq issued
  /\ \A s \in Sessions \ issued, i \in Items : view[s][i] = Absent
  /\ \A p \in Procs : call[p].key \in issued \cup {Local}

\* Only handling a request touches the database and the sessions.
LEMMA StepSplit ==
  ASSUME TypeOK, [Next]_vars
  PROVE  \/ \E p \in Procs : HandleRequest(p)
         \/ UNCHANGED <<dbVars, authVars>>
<1>1. CASE ServePrio
  BY <1>1 DEF ServePrio
<1>2. CASE ServeNormal
  <2>1. Head(normal) \in Procs
    BY <1>2 DEF ServeNormal, TypeOK, QueueTypeOK
  <2>2. QED BY <1>2, <2>1 DEF ServeNormal
<1>3. CASE UNCHANGED vars
  BY <1>3 DEF vars, dbVars, authVars
<1>4. CASE WaitTimeout \/ LookAtPrio \/ NormalEmpty \/ ServeOrphan
  BY <1>4 DEF WaitTimeout, LookAtPrio, NormalEmpty, ServeOrphan
<1>5. CASE \E w \in Workers : \/ CallNewKey(w) \/ SendVerified(w) \/ TunnelTimeout(w)
                              \/ \E s \in Sessions : CallDatabase(w, s)
  BY <1>5 DEF CallNewKey, SendVerified, TunnelTimeout, CallDatabase, Start
<1>6. CASE \E a \in Agents : CallAgent(a) \/ CallRespond(a) \/ UpdateAgentChat(a)
  BY <1>6 DEF CallAgent, CallRespond, UpdateAgentChat, Start
<1>7. CASE (\E t \in Savers : CallSave(t)) \/ (\E p \in Procs : SaveDone(p))
  BY <1>7 DEF CallSave, SaveDone
<1>8. QED BY <1>1, <1>2, <1>3, <1>4, <1>5, <1>6, <1>7 DEF Next, DatabaseThread

LEMMA HandlerKnown ==
  ASSUME TypeOK, SessionsKnown, NEW p \in Procs, HandleRequest(p)
  PROVE  SessionsKnown'
<1> DEFINE c == call[p]
<1>0. /\ c \in Calls /\ c.key \in issued \cup {Local} /\ c.key \in Keys
      /\ DataTypeOK /\ IdleCall.key = Local
      /\ Local \notin Sessions
  BY DatabaseAssumption DEF TypeOK, DataTypeOK, SessionsKnown, IdleCall, Calls, CallRecords
<1>1. CASE HandleVerify(p)
  BY <1>1, <1>0 DEF HandleVerify, SessionsKnown, authVars, DataTypeOK, Calls, CallRecords
<1>2. CASE HandleNewKey(p)
  BY <1>2, <1>0 DEF HandleNewKey, SessionsKnown, Answer, DataTypeOK
<1>3. CASE HandleGetAll(p)
  BY <1>3, <1>0 DEF HandleGetAll, SessionsKnown, Answer, DataTypeOK, Calls
<1>4. CASE HandleGet(p)
  BY <1>4, <1>0 DEF HandleGet, Tell, Told, Requester, SessionsKnown, Answer, DataTypeOK
<1>5. CASE HandleRespond(p)
  BY <1>5, <1>0 DEF HandleRespond, SessionsKnown, authVars, DataTypeOK, Calls, CallRecords
<1>6. CASE HandleAdd(p)
  BY <1>6, <1>0 DEF HandleAdd, NewItem, NextIds, Forwarded, Tell, Told, Others, Requester,
                    SessionsKnown, Answer, DataTypeOK
<1>7. CASE HandleUpdate(p)
  BY <1>7, <1>0 DEF HandleUpdate, TellOfUpdate, Tell, Told, Others, Requester,
                    SessionsKnown, Answer, DataTypeOK
<1>8. CASE HandleRemove(p)
  BY <1>8, <1>0 DEF HandleRemove, Tell, Told, Others, Requester, SessionsKnown, Answer, DataTypeOK
<1>9. CASE HandleAnnotate(p)
  BY <1>9, <1>0 DEF HandleAnnotate, Tell, Told, SessionsKnown, Answer, DataTypeOK
<1>10. CASE HandleConfigure(p)
  BY <1>10, <1>0 DEF HandleConfigure, SessionsKnown, Answer, DataTypeOK, authVars
<1>11. CASE HandleSave(p)
  BY <1>11, <1>0 DEF HandleSave, Clone, SessionsKnown, Answer, DataTypeOK, authVars
<1>12. CASE HandleTunnel(p)
  BY <1>12, <1>0 DEF HandleTunnel, SessionsKnown, Answer, DataTypeOK, authVars
<1>20. QED
  BY <1>1, <1>2, <1>3, <1>4, <1>5, <1>6, <1>7, <1>8, <1>9, <1>10, <1>11, <1>12
     DEF HandleRequest

LEMMA NextKnown == TypeOK /\ SessionsKnown /\ [Next]_vars => SessionsKnown'
<1> SUFFICES ASSUME TypeOK, SessionsKnown, [Next]_vars PROVE SessionsKnown'
  OBVIOUS
<1> USE ProcsApart DEF TypeOK, DataTypeOK
<1>1. CASE UNCHANGED vars
  BY <1>1 DEF vars, SessionsKnown
<1>2. CASE DatabaseThread
  <2>1. CASE ServePrio
    BY <2>1, HandlerKnown DEF ServePrio
  <2>2. CASE ServeNormal
    BY <2>2, HandlerKnown DEF ServeNormal, QueueTypeOK
  <2>3. CASE WaitTimeout \/ LookAtPrio \/ NormalEmpty \/ ServeOrphan
    BY <2>3 DEF WaitTimeout, LookAtPrio, NormalEmpty, ServeOrphan, SessionsKnown, authVars
  <2>4. QED BY <1>2, <2>1, <2>2, <2>3 DEF DatabaseThread
<1>3. ASSUME NEW p \in Procs, NEW r, call' = [call EXCEPT ![p] = r],
             r.key \in issued \cup {Local}, UNCHANGED authVars
      PROVE  SessionsKnown'
  BY <1>3 DEF SessionsKnown, authVars
<1>4. ASSUME NEW w \in Workers,
             CallNewKey(w) \/ \E s \in Sessions : CallDatabase(w, s)
      PROVE  SessionsKnown'
  BY <1>3, <1>4 DEF CallNewKey, CallDatabase, Start, Request
<1>5. ASSUME NEW w \in Workers, SendVerified(w) \/ TunnelTimeout(w)
      PROVE  SessionsKnown'
  <2>1. call[w].key \in issued \cup {Local}
    BY DEF SessionsKnown
  <2>2. [call[w] EXCEPT !.stage = "execute"].key = call[w].key /\ IdleCall.key = Local
    BY DEF IdleCall, Calls, CallRecords
  <2>3. CASE SendVerified(w)
    <3>1. call' = [call EXCEPT ![w] = [call[w] EXCEPT !.stage = "execute"]]
      BY <2>3 DEF SendVerified
    <3>2. QED BY <1>3, <2>1, <2>2, <2>3, <3>1 DEF SendVerified
  <2>4. CASE TunnelTimeout(w)
    BY <1>3, <2>2, <2>4 DEF TunnelTimeout
  <2>5. QED BY <1>5, <2>3, <2>4
<1>6. ASSUME NEW a \in Agents, CallAgent(a) \/ CallRespond(a) \/ UpdateAgentChat(a)
      PROVE  SessionsKnown'
  BY <1>3, <1>6 DEF CallAgent, CallRespond, UpdateAgentChat, Start, Request
<1>7. ASSUME NEW t \in Savers, CallSave(t) PROVE SessionsKnown'
  BY <1>3, <1>7 DEF CallSave, Request
<1>8. ASSUME NEW p \in Procs, SaveDone(p) PROVE SessionsKnown'
  BY <1>8 DEF SaveDone, Answer, IdleCall, SessionsKnown, authVars
<1>9. QED BY <1>1, <1>2, <1>4, <1>5, <1>6, <1>7, <1>8 DEF Next

LEMMA KnownAlways == Spec => []SessionsKnown
<1>1. Init => SessionsKnown
  BY DEF Init, SessionsKnown, IdleCall
<1>2. QED BY <1>1, TypeCorrect, NextKnown, PTL DEF Spec

LEMMA NextMirrored ==
  TypeOK /\ SessionsKnown /\ DeletableMirrored /\ [Next]_vars => DeletableMirrored'
<1> SUFFICES ASSUME TypeOK, SessionsKnown, DeletableMirrored,
                    NEW p \in Procs, HandleRequest(p)
             PROVE  DeletableMirrored'
  BY StepSplit DEF DeletableMirrored, dbVars, authVars
<1> DEFINE c == call[p]
<1>0. c \in Calls /\ DataTypeOK /\ Local \notin Sessions
  BY DatabaseAssumption DEF TypeOK, DataTypeOK
<1>1. CASE HandleVerify(p) \/ HandleRespond(p) \/ HandleSave(p) \/ HandleTunnel(p)
  BY <1>1 DEF HandleVerify, HandleRespond, HandleSave, Clone, HandleTunnel,
              DeletableMirrored, dbVars, authVars
<1>2. CASE HandleNewKey(p)
  BY <1>2, <1>0 DEF HandleNewKey, DeletableMirrored, SessionsKnown, dbVars
<1>3. CASE HandleGetAll(p)
  BY <1>3, <1>0 DEF HandleGetAll, DeletableMirrored, DataTypeOK, dbVars
<1>4. CASE HandleGet(p)
  BY <1>4, <1>0 DEF HandleGet, Tell, Told, DeletableMirrored, DataTypeOK, dbVars
<1>6. CASE HandleAdd(p)
  BY <1>6, <1>0 DEF HandleAdd, NewItem, NextIds, Forwarded, Tell, Told, Others, Requester,
                    Evict, DeletableMirrored, DataTypeOK
<1>7. CASE HandleUpdate(p)
  BY <1>7, <1>0 DEF HandleUpdate, TellOfUpdate, Tell, Told, Others, Requester, Evict,
                    DeletableMirrored,
                    DataTypeOK
<1>8. CASE HandleRemove(p)
  <2>1. c.item \in Items /\ c.kind = c.item[1]
    BY <1>8, <1>0 DEF HandleRemove, Calls
  <2>2. QED
    BY <1>8, <1>0, <2>1
       DEF HandleRemove, Tell, Told, Others, Requester, Evict, DeletableMirrored, DataTypeOK
<1>9. CASE HandleAnnotate(p)
  BY <1>9, <1>0 DEF HandleAnnotate, Tell, Told, DeletableMirrored, DataTypeOK
<1>10. CASE HandleConfigure(p)
  <2>1. c.item \in Items /\ c.item[1] \in Configurable
    BY <1>10, <1>0 DEF HandleConfigure, Calls
  <2>2. QED
    BY <1>10, <1>0, <2>1 DEF HandleConfigure, DeletableMirrored, DataTypeOK, authVars
<1>20. QED
  BY <1>1, <1>2, <1>3, <1>4, <1>6, <1>7, <1>8, <1>9, <1>10 DEF HandleRequest

\* The client of a session that is live and has fetched the database holds the
\* chats, jobs and notifications the server holds, once it has applied the
\* updates sent to its session: handle_add, handle_update, handle_remove and the
\* tool requests of handle_tool_request leave nobody out, but for the items that
\* its own update brought back, for which it was answered ItemNotFound.
THEOREM ClientsMirrorDeletable == Spec => []DeletableMirrored
<1>1. Init => DeletableMirrored
  BY DEF Init, DeletableMirrored
<1>2. QED BY <1>1, TypeCorrect, KnownAlways, NextMirrored, PTL DEF Spec

LEMMA NextBodies ==
  TypeOK /\ SessionsKnown /\ BodiesAgree /\ [Next]_vars => BodiesAgree'
<1> SUFFICES ASSUME TypeOK, SessionsKnown, BodiesAgree,
                    NEW p \in Procs, HandleRequest(p)
             PROVE  BodiesAgree'
  BY StepSplit DEF BodiesAgree, dbVars, authVars
<1> DEFINE c == call[p]
<1>0. c \in Calls /\ DataTypeOK /\ Local \notin Sessions /\ Absent \notin Records
  BY DatabaseAssumption DEF TypeOK, DataTypeOK
<1>1. CASE HandleVerify(p) \/ HandleRespond(p) \/ HandleSave(p) \/ HandleTunnel(p)
  BY <1>1 DEF HandleVerify, HandleRespond, HandleSave, Clone, HandleTunnel,
              BodiesAgree, dbVars, authVars
<1>2. CASE HandleNewKey(p)
  BY <1>2, <1>0 DEF HandleNewKey, BodiesAgree, SessionsKnown, dbVars
<1>3. CASE HandleGetAll(p)
  BY <1>3, <1>0 DEF HandleGetAll, BodiesAgree, DataTypeOK, dbVars
<1>4. CASE HandleGet(p)
  BY <1>4, <1>0 DEF HandleGet, Tell, Told, BodiesAgree, DataTypeOK, dbVars
<1>6. CASE HandleAdd(p)
  BY <1>6, <1>0
     DEF HandleAdd, NewItem, NextIds, Forwarded, Tell, Told, Others, Requester, Evict,
         BodiesAgree, DataTypeOK, Calls
<1>7. CASE HandleUpdate(p)
  BY <1>7, <1>0
     DEF HandleUpdate, TellOfUpdate, Tell, Told, Others, Requester, Evict, BodiesAgree,
         DataTypeOK, Calls
<1>8. CASE HandleRemove(p)
  <2>1. c.item \in Items
    BY <1>8, <1>0 DEF HandleRemove, Calls
  <2>2. QED
    BY <1>8, <1>0, <2>1
       DEF HandleRemove, Tell, Told, Others, Requester, Evict, BodiesAgree, DataTypeOK
<1>9. CASE HandleAnnotate(p) \/ HandleConfigure(p)
  <2> DEFINE new == [store[c.item] EXCEPT !.note = c.rec.note]
  <2>1. c.item \in Items /\ c.rec \in Records /\ c.rec.note \in Notes
    BY <1>9, <1>0 DEF HandleAnnotate, HandleConfigure, Calls, Records
  <2>2. store[c.item] # Absent =>
          new \in Records /\ new # Absent /\ new.body = store[c.item].body
    BY <2>1, <1>0 DEF DataTypeOK, Records
  <2>3. CASE HandleAnnotate(p)
    BY <2>1, <2>2, <2>3, <1>0 DEF HandleAnnotate, Tell, Told, BodiesAgree, DataTypeOK
  <2>4. CASE HandleConfigure(p)
    BY <2>1, <2>2, <2>4, <1>0 DEF HandleConfigure, BodiesAgree, DataTypeOK, authVars
  <2>5. QED BY <1>9, <2>3, <2>4
<1>20. QED
  BY <1>1, <1>2, <1>3, <1>4, <1>6, <1>7, <1>8, <1>9 DEF HandleRequest

\* What a live session holds of any item, of a kind that is never deleted too,
\* exists and has the server's body: the announcements of handle_update and of
\* handle_remove, made before the request is executed, never leave a client
\* with a body the server does not have.
THEOREM ClientsHaveServerBodies == Spec => []BodiesAgree
<1>1. Init => BodiesAgree
  BY DEF Init, BodiesAgree
<1>2. QED BY <1>1, TypeCorrect, KnownAlways, NextBodies, PTL DEF Spec

-----------------------------------------------------------------------------
(* What is saved and what the job thread is sent.                          *)

LEMMA NextFlag == TypeOK /\ FlagCoversWrites /\ [Next]_vars => FlagCoversWrites'
<1> SUFFICES ASSUME TypeOK, FlagCoversWrites, NEW p \in Procs, HandleRequest(p)
             PROVE  FlagCoversWrites'
  BY StepSplit DEF FlagCoversWrites, dbVars
<1> DEFINE c == call[p]
<1>0. c \in Calls /\ DataTypeOK /\ Absent \notin Records
  BY DatabaseAssumption DEF TypeOK, DataTypeOK
<1>1. CASE \/ HandleVerify(p) \/ HandleNewKey(p) \/ HandleGetAll(p)
           \/ HandleGet(p) \/ HandleRespond(p) \/ HandleTunnel(p)
  BY <1>1 DEF HandleVerify, HandleNewKey, HandleGetAll, HandleGet, HandleRespond,
              HandleTunnel, FlagCoversWrites, dbVars
<1>2. CASE HandleAdd(p) \/ HandleUpdate(p)
  BY <1>2 DEF HandleAdd, NewItem, NextIds, Forwarded, HandleUpdate, FlagCoversWrites
<1>3. CASE HandleRemove(p)
  BY <1>3, <1>0 DEF HandleRemove, FlagCoversWrites, DataTypeOK
<1>4. CASE HandleAnnotate(p) \/ HandleConfigure(p)
  <2> DEFINE new == [store[c.item] EXCEPT !.note = c.rec.note]
  <2>1. c.item \in Items /\ c.rec \in Records /\ c.rec.note \in Notes
    BY <1>4, <1>0 DEF HandleAnnotate, HandleConfigure, Calls, Records
  <2>2. store[c.item] # Absent => new # Absent /\ new.body = store[c.item].body
    BY <2>1, <1>0 DEF DataTypeOK, Records
  <2>3. QED
    BY <1>4, <2>1, <2>2, <1>0
       DEF HandleAnnotate, HandleConfigure, FlagCoversWrites, DataTypeOK
<1>5. CASE HandleSave(p)
  BY <1>5, <1>0 DEF HandleSave, Clone, FlagCoversWrites, DataTypeOK
<1>6. QED BY <1>1, <1>2, <1>3, <1>4, <1>5 DEF HandleRequest

\* When changed_since_last_save lets handle_save skip a save, every item is in
\* the clone the last save was given, with the body written last.
THEOREM SkippedSavesLoseNoBody == Spec => []FlagCoversWrites
<1>1. Init => FlagCoversWrites
  BY DEF Init, FlagCoversWrites
<1>2. QED BY <1>1, TypeCorrect, NextFlag, PTL DEF Spec

\* handle_add_request sends every job it numbers to the job thread.
AllScheduled ==
  \A i \in Items : i[1] \in JobKinds /\ i[2] < latest[i[1]] => i \in scheduled

LEMMA NextScheduled == TypeOK /\ AllScheduled /\ [Next]_vars => AllScheduled'
<1> SUFFICES ASSUME TypeOK, AllScheduled, NEW p \in Procs, HandleRequest(p)
             PROVE  AllScheduled'
  BY StepSplit DEF AllScheduled, dbVars
<1>1. CASE HandleAdd(p)
  <2> DEFINE k == call[p].kind
  <2>1. /\ latest \in [Kinds -> 0 .. MaxId] /\ k \in Kinds
    BY DEF TypeOK, DataTypeOK, Calls, CallRecords
  <2>2. \A i \in Items : /\ i = <<i[1], i[2]>> /\ i[1] \in Kinds /\ i[2] \in Int
                         /\ latest[i[1]] \in Int
    BY <2>1, DatabaseAssumption DEF Items, Ids
  <2>3. \A i \in Items : latest'[i[1]] = IF i[1] = k THEN latest[k] + 1 ELSE latest[i[1]]
    BY <1>1, <2>1, <2>2 DEF HandleAdd, NewItem, NextIds, Forwarded
  <2>4. \A i \in Items : i[2] < latest'[i[1]] => i[2] < latest[i[1]] \/ i = <<k, latest[k]>>
    BY <2>2, <2>3
  <2>5. QED BY <1>1, <2>4 DEF HandleAdd, NewItem, NextIds, Forwarded, AllScheduled
<1>2. CASE ~HandleAdd(p)
  BY <1>2 DEF HandleRequest, HandleVerify, HandleNewKey, HandleGetAll, HandleGet,
       HandleRespond, HandleUpdate, HandleRemove, HandleAnnotate, HandleConfigure,
       HandleSave, Clone, HandleTunnel, AllScheduled, dbVars
<1>3. QED BY <1>1, <1>2

\* Every job in the database, even one that an update inserts after its removal,
\* has been sent to the job thread.
THEOREM JobsReachScheduler == Spec => []JobsForwarded
<1>1. Init => AllScheduled
  BY DatabaseAssumption DEF Init, Initially, AllScheduled
<1>2. FreshIds /\ AllScheduled => JobsForwarded
  BY DEF FreshIds, IdsHeld, AllScheduled, JobsForwarded
<1>3. QED BY <1>1, <1>2, TypeCorrect, IdsFresh, NextScheduled, PTL DEF Spec

-----------------------------------------------------------------------------
(* The channels: no request is lost, executed twice or answered twice.     *)

Has(q, p) == \E n \in 1 .. Len(q) : q[n] = p
Once(q, p) == \A m, n \in 1 .. Len(q) : q[m] = p /\ q[n] = p => m = n

LEMMA AppendHas ==
  ASSUME NEW S, NEW q \in Seq(S), NEW x \in S, NEW p
  PROVE  /\ Has(Append(q, x), p) <=> Has(q, p) \/ x = p
         /\ Once(q, p) /\ (x = p => ~Has(q, p)) => Once(Append(q, x), p)
<1>1. /\ Len(Append(q, x)) = Len(q) + 1 /\ Len(q) \in Nat
      /\ \A n \in 1 .. Len(q) : Append(q, x)[n] = q[n]
      /\ Append(q, x)[Len(q) + 1] = x
  BY AppendProperties, LenProperties
<1>2. 1 .. Len(q) + 1 = 1 .. Len(q) \cup {Len(q) + 1}
  BY <1>1
<1>3. QED BY <1>1, <1>2 DEF Has, Once

LEMMA TailHas ==
  ASSUME NEW S, NEW q \in Seq(S), q # <<>>, NEW p
  PROVE  /\ Has(Tail(q), p) => Has(q, p)
         /\ Has(q, p) /\ p # Head(q) => Has(Tail(q), p)
         /\ Once(q, p) => Once(Tail(q), p)
         /\ Once(q, Head(q)) => ~Has(Tail(q), Head(q))
         /\ Has(q, Head(q))
<1>1. /\ Len(Tail(q)) = Len(q) - 1 /\ Len(q) \in Nat /\ Len(q) >= 1
      /\ \A n \in 1 .. Len(q) - 1 : Tail(q)[n] = q[n + 1]
      /\ Head(q) = q[1]
  BY HeadTailProperties, LenProperties, EmptySeq
<1>2. \A n \in 1 .. Len(q) - 1 : n + 1 \in 1 .. Len(q) /\ n + 1 # 1
  BY <1>1
<1>3. \A n \in 1 .. Len(q) : n # 1 => n - 1 \in 1 .. Len(q) - 1 /\ (n - 1) + 1 = n
  BY <1>1
<1>4. Has(Tail(q), p) => Has(q, p)
  BY <1>1, <1>2 DEF Has
<1>5. Has(q, p) /\ p # Head(q) => Has(Tail(q), p)
  BY <1>1, <1>3 DEF Has
<1>6. Once(q, p) => Once(Tail(q), p)
  <2> SUFFICES ASSUME Once(q, p), NEW m \in 1 .. Len(q) - 1, NEW n \in 1 .. Len(q) - 1,
                      Tail(q)[m] = p, Tail(q)[n] = p
               PROVE  m = n
    BY <1>1 DEF Once
  <2>1. m + 1 = n + 1
    BY <1>1, <1>2 DEF Once
  <2>2. QED BY <2>1
<1>7. Once(q, Head(q)) => ~Has(Tail(q), Head(q))
  BY <1>1, <1>2 DEF Once, Has
<1>8. Has(q, Head(q))
  BY <1>1 DEF Has
<1>9. QED BY <1>4, <1>5, <1>6, <1>7, <1>8

\* EveryCallQueuedOnce and what keeps it: only internal tasks and the saving
\* thread use the normal channel, and only saves are answered later.
QueuedInv ==
  /\ \A p \in Procs :
       /\ Once(prio, p) /\ Once(normal, p)
       /\ ~(Has(prio, p) /\ Has(normal, p))
       /\ p \in saving <=> (Waiting(p) /\ ~Has(prio, p) /\ ~Has(normal, p))
       /\ ~Waiting(p) => ~Has(prio, p) /\ ~Has(normal, p)
  /\ \A p \in saving : call[p].op = "save"
  /\ \A w \in Workers : ~Has(normal, w)

LEMMA QueuedInvImplies == TypeOK /\ QueuedInv => EveryCallQueuedOnce
<1> SUFFICES ASSUME TypeOK, QueuedInv PROVE EveryCallQueuedOnce
  OBVIOUS
<1>1. DOMAIN prio = 1 .. Len(prio) /\ DOMAIN normal = 1 .. Len(normal)
  BY DEF TypeOK, QueueTypeOK
<1>2. QED BY <1>1 DEF QueuedInv, EveryCallQueuedOnce, InPrio, InNormal, Has, Once

\* A process that waits for nothing sends a request on one of the channels.
LEMMA SendQueued ==
  ASSUME TypeOK, QueuedInv, NEW p \in Procs, ~Waiting(p), NEW r,
         call' = [call EXCEPT ![p] = r], r.stage \in {"verify", "execute"},
         saving' = saving,
         \/ prio' = Append(prio, p) /\ normal' = normal
         \/ prio' = prio /\ normal' = Append(normal, p) /\ p \notin Workers
  PROVE  QueuedInv'
<1>1. /\ prio \in Seq(Procs \cup Sessions) /\ normal \in Seq(Procs)
      /\ p \in Procs \cup Sessions /\ call \in [Procs -> Calls]
  BY DEF TypeOK, DataTypeOK, QueueTypeOK
<1>2. \A x : /\ Has(Append(prio, p), x) <=> Has(prio, x) \/ x = p
             /\ Once(prio, x) /\ (x = p => ~Has(prio, x)) => Once(Append(prio, p), x)
  BY <1>1, AppendHas
<1>3. \A x : /\ Has(Append(normal, p), x) <=> Has(normal, x) \/ x = p
             /\ Once(normal, x) /\ (x = p => ~Has(normal, x)) => Once(Append(normal, p), x)
  BY <1>1, AppendHas
<1>4. \A x \in Procs : call'[x] = IF x = p THEN r ELSE call[x]
  BY <1>1
<1>5. ~Has(prio, p) /\ ~Has(normal, p) /\ p \notin saving
  BY DEF QueuedInv
<1>6. ASSUME NEW x \in Procs
      PROVE  /\ Once(prio', x) /\ Once(normal', x)
             /\ ~(Has(prio', x) /\ Has(normal', x))
             /\ x \in saving' <=> (Waiting(x)' /\ ~Has(prio', x) /\ ~Has(normal', x))
             /\ ~Waiting(x)' => ~Has(prio', x) /\ ~Has(normal', x)
  <2>1. CASE x = p
    BY <2>1, <1>2, <1>3, <1>4, <1>5 DEF QueuedInv, Waiting
  <2>2. CASE x # p
    <3>1. Waiting(x)' <=> Waiting(x)
      BY <2>2, <1>4 DEF Waiting
    <3>2. QED BY <2>2, <3>1, <1>2, <1>3 DEF QueuedInv
  <2>3. QED BY <2>1, <2>2
<1>7. \A x \in saving' : call'[x].op = "save"
  BY <1>1, <1>4, <1>5 DEF QueuedInv, TypeOK, DataTypeOK
<1>8. \A w \in Workers : ~Has(normal', w)
  BY <1>3 DEF QueuedInv
<1>9. QED BY <1>6, <1>7, <1>8 DEF QueuedInv

\* What handling a request does to the requester's wait.
LEMMA HandlerWaits ==
  ASSUME TypeOK, NEW p \in Procs, HandleRequest(p), Waiting(p), p \notin saving
  PROVE  /\ \A x \in Procs : x # p => call'[x] = call[x]
         /\ \/ ~Waiting(p)' /\ saving' = saving
            \/ call'[p] = call[p] /\ call[p].op = "save" /\ saving' = saving \cup {p}
<1>1. call \in [Procs -> Calls] /\ call[p] \in Calls /\ IdleCall.stage = "idle"
  BY DEF TypeOK, DataTypeOK, IdleCall
<1>2. CASE HandleSave(p)
  BY <1>1, <1>2 DEF HandleSave, Clone, Answer, Waiting
<1>3. CASE HandleVerify(p)
  BY <1>1, <1>3 DEF HandleVerify, Waiting, Calls, CallRecords
<1>4. CASE HandleRespond(p)
  BY <1>1, <1>4 DEF HandleRespond, Waiting, Calls, CallRecords, IdleCall
<1>5. CASE \/ HandleNewKey(p) \/ HandleGetAll(p) \/ HandleGet(p) \/ HandleAdd(p)
           \/ HandleUpdate(p) \/ HandleRemove(p) \/ HandleAnnotate(p)
           \/ HandleConfigure(p) \/ HandleTunnel(p)
  <2>1. Answer(p) /\ saving' = saving
    BY <1>5 DEF HandleNewKey, HandleGetAll, HandleGet, HandleAdd, NewItem, NextIds,
                Forwarded, HandleUpdate,
                HandleRemove, HandleAnnotate, HandleConfigure, HandleTunnel
  <2>2. QED BY <1>1, <2>1 DEF Answer, Waiting
<1>6. QED BY <1>2, <1>3, <1>4, <1>5 DEF HandleRequest

LEMMA ThreadQueued ==
  ASSUME TypeOK, QueuedInv, DatabaseThread
  PROVE  QueuedInv'
<1>0. /\ prio \in Seq(Procs \cup Sessions) /\ normal \in Seq(Procs)
      /\ saving \subseteq Procs
  BY DEF TypeOK, DataTypeOK, QueueTypeOK
<1>1. CASE WaitTimeout \/ LookAtPrio \/ NormalEmpty
  BY <1>1 DEF WaitTimeout, LookAtPrio, NormalEmpty, QueuedInv, Waiting
<1>2. ASSUME NEW p \in Procs, HandleRequest(p), Has(prio, p) \/ Has(normal, p),
             \A x \in Procs : /\ Once(prio', x) /\ Once(normal', x)
                              /\ Has(prio', x) => Has(prio, x)
                              /\ Has(normal', x) => Has(normal, x)
                              /\ x # p => /\ Has(prio', x) <=> Has(prio, x)
                                          /\ Has(normal', x) <=> Has(normal, x),
             ~Has(prio', p) /\ ~Has(normal', p)
      PROVE  QueuedInv'
  <2>1. Waiting(p) /\ p \notin saving
    BY <1>2 DEF QueuedInv
  <2>2. /\ \A x \in Procs : x # p => call'[x] = call[x]
        /\ \/ ~Waiting(p)' /\ saving' = saving
           \/ call'[p] = call[p] /\ call[p].op = "save" /\ saving' = saving \cup {p}
    BY <1>2, <2>1, HandlerWaits
  <2>3. ASSUME NEW x \in Procs
        PROVE  /\ ~(Has(prio', x) /\ Has(normal', x))
               /\ x \in saving' <=> (Waiting(x)' /\ ~Has(prio', x) /\ ~Has(normal', x))
               /\ ~Waiting(x)' => ~Has(prio', x) /\ ~Has(normal', x)
    <3>1. CASE x = p
      <4>1. call'[p] = call[p] => Waiting(p)'
        BY <2>1 DEF Waiting
      <4>2. QED BY <3>1, <4>1, <1>2, <2>1, <2>2
    <3>2. CASE x # p
      <4>1. (Waiting(x)' <=> Waiting(x)) /\ (x \in saving' <=> x \in saving)
        BY <3>2, <2>2 DEF Waiting
      <4>2. /\ Has(prio', x) <=> Has(prio, x)
            /\ Has(normal', x) <=> Has(normal, x)
        BY <3>2, <1>2
      <4>3. QED BY <3>2, <4>1, <4>2 DEF QueuedInv
    <3>3. QED BY <3>1, <3>2
  <2>4. \A x \in saving' : call'[x].op = "save"
    BY <1>0, <2>1, <2>2 DEF QueuedInv
  <2>5. ASSUME NEW w \in Workers PROVE ~Has(normal', w)
    <3>1. w \in Procs
      BY ProcsApart
    <3>2. ~Has(normal, w)
      BY DEF QueuedInv
    <3>3. Has(normal', w) => Has(normal, w)
      BY <1>2, <3>1
    <3>4. QED BY <3>2, <3>3
  <2>6. QED BY <1>2, <2>3, <2>4, <2>5 DEF QueuedInv
<1>3. CASE ServePrio
  <2>1. prio # <<>> /\ Head(prio) \in Procs /\ prio' = Tail(prio) /\ normal' = normal
    BY <1>3 DEF ServePrio
  <2>2. \A x : /\ Has(prio', x) => Has(prio, x)
               /\ Has(prio, x) /\ x # Head(prio) => Has(prio', x)
               /\ Once(prio, x) => Once(prio', x)
               /\ Once(prio, Head(prio)) => ~Has(prio', Head(prio))
               /\ Has(prio, Head(prio))
    BY <1>0, <2>1, TailHas
  <2>3. ~Has(normal, Head(prio))
    BY <2>1, <2>2 DEF QueuedInv
  <2>4. QED BY <1>2, <1>3, <2>1, <2>2, <2>3 DEF ServePrio, QueuedInv
<1>4. CASE ServeNormal
  <2>1. normal # <<>> /\ Head(normal) \in Procs /\ normal' = Tail(normal) /\ prio' = prio
    BY <1>0, <1>4 DEF ServeNormal
  <2>2. \A x : /\ Has(normal', x) => Has(normal, x)
               /\ Has(normal, x) /\ x # Head(normal) => Has(normal', x)
               /\ Once(normal, x) => Once(normal', x)
               /\ Once(normal, Head(normal)) => ~Has(normal', Head(normal))
               /\ Has(normal, Head(normal))
    BY <1>0, <2>1, TailHas
  <2>3. ~Has(prio, Head(normal))
    BY <2>1, <2>2 DEF QueuedInv
  <2>4. QED BY <1>2, <1>4, <2>1, <2>2, <2>3 DEF ServeNormal, QueuedInv
<1>5. CASE ServeOrphan
  <2>1. /\ prio # <<>> /\ Head(prio) \notin Procs /\ prio' = Tail(prio)
        /\ UNCHANGED <<saving, call, normal>>
    BY <1>5, ProcsApart DEF ServeOrphan
  <2>2. \A x : /\ Has(prio', x) => Has(prio, x)
               /\ Has(prio, x) /\ x # Head(prio) => Has(prio', x)
               /\ Once(prio, x) => Once(prio', x)
    BY <1>0, <2>1, TailHas
  <2>3. QED BY <1>0, <2>1, <2>2, ProcsApart DEF QueuedInv, Waiting
<1>6. QED BY <1>1, <1>3, <1>4, <1>5 DEF DatabaseThread

LEMMA CallersQueued ==
  ASSUME TypeOK, QueuedInv
  PROVE  /\ \A w \in Workers, s \in Sessions : CallDatabase(w, s) => QueuedInv'
         /\ \A w \in Workers : CallNewKey(w) \/ SendVerified(w) => QueuedInv'
         /\ \A a \in Agents : CallAgent(a) \/ CallRespond(a) \/ UpdateAgentChat(a)
                                => QueuedInv'
         /\ \A t \in Savers : CallSave(t) => QueuedInv'
<1> USE ProcsApart, DatabaseAssumption
<1>1. /\ call \in [Procs -> Calls] /\ \A p \in Procs : Free(p) => ~Waiting(p)
      /\ Agents \cap Workers = {} /\ Savers \cap Workers = {}
  BY DEF TypeOK, DataTypeOK, Free, Waiting
<1>2. ASSUME NEW p \in Procs, NEW op, NEW key, NEW kind, NEW item, NEW rec,
             Start(p, Request(op, key, kind, item, rec))
      PROVE  QueuedInv'
  <2>1. Request(op, key, kind, item, rec).stage \in {"verify", "execute"}
    BY DEF Request
  <2>2. QED BY <1>1, <1>2, <2>1, SendQueued DEF Start
<1>3. \A w \in Workers, s \in Sessions : CallDatabase(w, s) => QueuedInv'
  BY <1>2 DEF CallDatabase
<1>4. \A w \in Workers : CallNewKey(w) => QueuedInv'
  BY <1>2 DEF CallNewKey
<1>5. ASSUME NEW w \in Workers, SendVerified(w) PROVE QueuedInv'
  <2>1. /\ call' = [call EXCEPT ![w] = [call[w] EXCEPT !.stage = "execute"]]
        /\ ~Waiting(w)
    BY <1>5 DEF SendVerified, Waiting
  <2>2. [call[w] EXCEPT !.stage = "execute"].stage = "execute"
    BY <1>1 DEF Calls, CallRecords
  <2>3. QED BY <1>5, <2>1, <2>2, SendQueued DEF SendVerified
<1>6. \A a \in Agents : CallAgent(a) => QueuedInv'
  BY <1>2 DEF CallAgent
<1>7. ASSUME NEW a \in Agents, CallRespond(a) PROVE QueuedInv'
  <2>1. PICK i \in Items :
          call' = [call EXCEPT ![a] = Request("respond", Local, i[1], i, Absent)]
    BY <1>7 DEF CallRespond
  <2>2. Request("respond", Local, i[1], i, Absent).stage = "execute"
    BY DEF Request
  <2>3. QED BY <1>1, <1>7, <2>1, <2>2, SendQueued DEF CallRespond
<1>8. ASSUME NEW a \in Agents, UpdateAgentChat(a) PROVE QueuedInv'
  <2>1. PICK b \in Bodies : call' = [call EXCEPT ![a] = Request("update", Local,
          call[a].kind, call[a].item, [call[a].rec EXCEPT !.body = b])]
    BY <1>8 DEF UpdateAgentChat
  <2>2. Request("update", Local, call[a].kind, call[a].item,
                [call[a].rec EXCEPT !.body = b]).stage = "execute"
    BY DEF Request
  <2>3. ~Waiting(a)
    BY <1>8 DEF UpdateAgentChat, Waiting
  <2>4. QED BY <1>8, <2>1, <2>2, <2>3, SendQueued DEF UpdateAgentChat
<1>9. ASSUME NEW t \in Savers, CallSave(t) PROVE QueuedInv'
  <2>1. Request("save", Local, AnyKind, NoItem, Absent).stage = "execute"
    BY DEF Request
  <2>2. QED BY <1>1, <1>9, <2>1, SendQueued DEF CallSave
<1>10. QED BY <1>3, <1>4, <1>5, <1>6, <1>7, <1>8, <1>9

\* A worker that gives up its tunnel leaves only its session's key behind.
LEMMA TimeoutQueued ==
  ASSUME TypeOK, QueuedInv, NEW w \in Workers, TunnelTimeout(w)
  PROVE  QueuedInv'
<1>1. /\ prio \in Seq(Procs \cup Sessions) /\ call \in [Procs -> Calls]
      /\ w \in Procs /\ call[w].key \in Sessions /\ IdleCall.stage = "idle"
      /\ saving \subseteq Procs
  BY ProcsApart DEF TypeOK, DataTypeOK, QueueTypeOK, TunnelTimeout, Calls, IdleCall
<1>2. /\ Len(prio) \in Nat /\ DOMAIN prio = 1 .. Len(prio)
      /\ prio' = [n \in 1 .. Len(prio) |->
                    IF prio[n] = w THEN call[w].key ELSE prio[n]]
  BY <1>1, LenProperties DEF TunnelTimeout
<1>3. Len(prio') = Len(prio)
  <2>1. \A n \in 1 .. Len(prio) :
          (IF prio[n] = w THEN call[w].key ELSE prio[n]) \in Procs \cup Sessions
    BY <1>1
  <2>2. QED BY <1>2, <2>1, IsASeq, LenProperties
<1>4. ASSUME NEW x \in Procs
      PROVE  /\ Has(prio', x) <=> Has(prio, x) /\ x # w
             /\ Once(prio, x) => Once(prio', x)
  BY <1>1, <1>2, <1>3, ProcsApart DEF Has, Once
<1>5. \A x \in Procs : x # w => (Waiting(x)' <=> Waiting(x))
  BY <1>1 DEF TunnelTimeout, Waiting
<1>6. ~Waiting(w)' /\ UNCHANGED <<saving, normal>>
  BY <1>1 DEF TunnelTimeout, Waiting
<1>7. w \notin saving /\ ~Has(normal, w)
  BY DEF QueuedInv, TunnelTimeout
<1>8. ASSUME NEW x \in Procs
      PROVE  /\ Once(prio', x) /\ Once(normal', x)
             /\ ~(Has(prio', x) /\ Has(normal', x))
             /\ x \in saving' <=> (Waiting(x)' /\ ~Has(prio', x) /\ ~Has(normal', x))
             /\ ~Waiting(x)' => ~Has(prio', x) /\ ~Has(normal', x)
  <2>1. CASE x = w
    BY <1>4, <1>6, <1>7, <2>1 DEF QueuedInv
  <2>2. CASE x # w
    BY <1>4, <1>5, <1>6, <2>2 DEF QueuedInv
  <2>3. QED BY <2>1, <2>2
<1>9. \A x \in saving' : call'[x].op = "save"
  BY <1>1, <1>6, <1>7 DEF QueuedInv, TunnelTimeout
<1>10. \A v \in Workers : ~Has(normal', v)
  BY <1>6 DEF QueuedInv
<1>11. QED BY <1>8, <1>9, <1>10 DEF QueuedInv

LEMMA SaveDoneQueued ==
  ASSUME TypeOK, QueuedInv, NEW p \in Procs, SaveDone(p)
  PROVE  QueuedInv'
<1>1. /\ call \in [Procs -> Calls] /\ p \in saving /\ saving' = saving \ {p}
      /\ UNCHANGED <<prio, normal>> /\ call' = [call EXCEPT ![p] = IdleCall]
      /\ IdleCall.stage = "idle"
  BY DEF TypeOK, DataTypeOK, SaveDone, queueVars, Answer, IdleCall
<1>2. ~Has(prio, p) /\ ~Has(normal, p) /\ ~Waiting(p)'
  BY <1>1 DEF QueuedInv, Waiting
<1>3. \A x \in Procs : x # p => /\ Waiting(x)' <=> Waiting(x)
                                /\ x \in saving' <=> x \in saving
                                /\ call'[x] = call[x]
  BY <1>1 DEF Waiting
<1>4. \A x \in saving' : x \in saving /\ x # p /\ x \in Procs
  BY <1>1 DEF TypeOK, DataTypeOK
<1>5. QED BY <1>1, <1>2, <1>3, <1>4 DEF QueuedInv

LEMMA NextQueued == TypeOK /\ QueuedInv /\ [Next]_vars => QueuedInv'
<1> SUFFICES ASSUME TypeOK, QueuedInv, [Next]_vars PROVE QueuedInv'
  OBVIOUS
<1>1. CASE UNCHANGED vars
  BY <1>1 DEF vars, QueuedInv, Waiting
<1>2. CASE Next
  BY <1>2, ThreadQueued, CallersQueued, TimeoutQueued, SaveDoneQueued DEF Next
<1>3. QED BY <1>1, <1>2

LEMMA InitQueued == Init => QueuedInv
<1> SUFFICES ASSUME Init PROVE QueuedInv
  OBVIOUS
<1>1. prio = <<>> /\ normal = <<>> /\ saving = {} /\ \A p \in Procs : ~Waiting(p)
  BY DEF Init, IdleCall, Waiting
<1>2. \A p : ~Has(<<>>, p) /\ Once(<<>>, p)
  BY DEF Has, Once
<1>3. QED BY <1>1, <1>2 DEF QueuedInv

LEMMA QueuedAlways == Spec => []QueuedInv
BY InitQueued, TypeCorrect, NextQueued, PTL DEF Spec

\* Every request is in one place of one channel until handling_loop takes it
\* out to answer it, or is being saved for: no caller is forgotten or answered
\* twice, whatever timeouts and panics there are.
THEOREM CallsQueuedOnce == Spec => []EveryCallQueuedOnce
BY TypeCorrect, QueuedAlways, QueuedInvImplies, PTL

-----------------------------------------------------------------------------
(* The thread, its channels and the keys implement ItemStore.              *)

\* The write a request stands for, seen by ItemStore.
Pending(c) ==
  IF c.op \in Writes
  THEN [op |-> c.op, kind |-> c.kind,
        item |-> IF c.item = NoItem THEN Absent ELSE c.item, rec |-> c.rec]
  ELSE NoItem

LEMMA PendingProperties ==
  /\ pendingWrites = [p \in Procs |-> Pending(call[p])]
  /\ \A c \in Calls : c.op \in Writes => Pending(c) \in WriteRequests
  /\ \A c : c.op \notin Writes => Pending(c) = NoItem
  /\ NoItem \notin WriteRequests
  /\ Pending(IdleCall) = NoItem
<1>1. pendingWrites = [p \in Procs |-> Pending(call[p])]
  BY DEF pendingWrites, Pending
<1>2. \A c \in Calls : c.op \in Writes => Pending(c) \in WriteRequests
  BY DEF Calls, CallRecords, Pending, WriteRequests
<1>3. \A c : c.op \notin Writes => Pending(c) = NoItem
  BY DEF Pending
<1>4. IdleCall.op \notin Writes
  BY DEF IdleCall, Writes
<1>5. QED BY <1>1, <1>2, <1>3, <1>4, DatabaseAssumption

LEMMA PendingExcept ==
  ASSUME TypeOK, NEW p \in Procs, NEW r, call' = [call EXCEPT ![p] = r]
  PROVE  pendingWrites' = [pendingWrites EXCEPT ![p] = Pending(r)]
<1>1. call \in [Procs -> Calls]
  BY DEF TypeOK, DataTypeOK
<1>2. pendingWrites' = [q \in Procs |-> Pending(call'[q])]
  BY DEF pendingWrites, Pending
<1>3. QED BY <1>1, <1>2, PendingProperties

\* A request that is not a write, or a change of its stage, is not seen.
LEMMA PendingSame ==
  ASSUME TypeOK, NEW p \in Procs, NEW r, call' = [call EXCEPT ![p] = r],
         Pending(r) = Pending(call[p])
  PROVE  pendingWrites' = pendingWrites
<1>1. pendingWrites' = [pendingWrites EXCEPT ![p] = Pending(call[p])]
  BY PendingExcept
<1>2. QED BY <1>1, PendingProperties

LEMMA HandlerStore ==
  ASSUME TypeOK, FreshIds, NEW p \in Procs, HandleRequest(p)
  PROVE  [Promise!Next]_(Promise!vars)
<1> DEFINE c == call[p]  i == c.item  r == pendingWrites[p]
<1>0. /\ c \in Calls /\ c \in CallRecords /\ call \in [Procs -> Calls] /\ DataTypeOK
      /\ r = Pending(c)
  BY PendingProperties DEF TypeOK, DataTypeOK, Calls
<1>1. Answer(p) => pendingWrites' = [pendingWrites EXCEPT ![p] = NoItem]
  BY PendingExcept, PendingProperties DEF Answer
<1>2. ASSUME Answer(p), UNCHANGED <<store, latest>>
      PROVE  [Promise!Next]_(Promise!vars)
  <2>1. CASE c.op \in Writes
    <3>1. Promise!Return(p) /\ Promise!Refuse(p)
      BY <1>0, <1>1, <1>2, <2>1, PendingProperties DEF Promise!Return, Promise!Refuse
    <3>2. QED BY <3>1 DEF Promise!Next
  <2>2. CASE c.op \notin Writes
    BY <1>0, <1>2, <2>2, PendingSame, PendingProperties DEF Answer, Promise!vars
  <2>3. QED BY <2>1, <2>2
<1>3. ASSUME Answer(p), c.op \in Writes,
             \/ Promise!Add(p) \/ Promise!Update(p) \/ Promise!Remove(p) \/ Promise!Amend(p)
      PROVE  Promise!Next
  <2>1. Promise!Return(p)
    BY <1>0, <1>1, <1>3, PendingProperties DEF Promise!Return
  <2>2. QED BY <1>3, <2>1 DEF Promise!Next
<1>4. c.op \in Writes /\ i \in Items =>
        r.op = c.op /\ r.kind = c.kind /\ r.item = i /\ r.rec = c.rec
  BY <1>0, DatabaseAssumption DEF Pending
<1>5. CASE HandleVerify(p)
  <2>1. CASE c.key \in live
    <3>1. call' = [call EXCEPT ![p] = [c EXCEPT !.stage = "verified"]]
      BY <1>5, <2>1 DEF HandleVerify
    <3>2. Pending([c EXCEPT !.stage = "verified"]) = Pending(c)
      BY <1>0 DEF Pending, CallRecords
    <3>3. pendingWrites' = pendingWrites
      BY <3>1, <3>2, PendingSame
    <3>4. QED BY <1>5, <3>3 DEF HandleVerify, dbVars, Promise!vars
  <2>2. CASE c.key \notin live
    BY <1>2, <1>5, <2>2 DEF HandleVerify, Answer, dbVars
  <2>3. QED BY <2>1, <2>2
<1>6. CASE \/ HandleNewKey(p) \/ HandleGetAll(p) \/ HandleGet(p) \/ HandleTunnel(p)
  BY <1>2, <1>6 DEF HandleNewKey, HandleGetAll, HandleGet, HandleTunnel, dbVars
<1>7. CASE HandleRespond(p)
  <2> DEFINE new == IF store[i] = Absent THEN [IdleCall EXCEPT !.stage = "panicked"]
                    ELSE [c EXCEPT !.stage = "got", !.rec = store[i]]
  <2>1. call' = [call EXCEPT ![p] = new] /\ UNCHANGED <<store, latest>>
    BY <1>7 DEF HandleRespond, dbVars
  <2>2. new.op \notin Writes /\ c.op \notin Writes
    BY <1>0, <1>7 DEF HandleRespond, IdleCall, Writes, CallRecords
  <2> HIDE DEF new
  <2>3. Pending(new) = Pending(c)
    BY <2>2, PendingProperties
  <2>4. pendingWrites' = pendingWrites
    BY <2>1, <2>3, PendingSame
  <2>5. QED BY <2>1, <2>4 DEF Promise!vars
<1>8. CASE HandleAdd(p)
  <2> DEFINE new == <<c.kind, latest[c.kind]>>
  <2>1. c.op \in Writes /\ r.op = "add" /\ r.kind = c.kind /\ r.rec = c.rec
    BY <1>0, <1>8 DEF HandleAdd, NewItem, NextIds, Forwarded, Pending, Writes
  <2>2. new \in Items /\ latest[c.kind] \in Int
    BY <1>0, <1>8, DatabaseAssumption DEF HandleAdd, NewItem, NextIds, Forwarded, Items,
                                          Ids, CallRecords, DataTypeOK
  <2>3. store[new] = Absent
    BY <2>2 DEF FreshIds, IdsHeld
  <2>4. Promise!Add(p)
    BY <1>8, <2>1, <2>2, <2>3 DEF HandleAdd, NewItem, NextIds, Forwarded, Promise!Add,
                                  Promise!Items, Items, Ids
  <2>5. QED BY <1>3, <1>8, <2>1, <2>4 DEF HandleAdd, NewItem, NextIds, Forwarded
<1>9. CASE HandleUpdate(p)
  <2>1. c.op \in Writes /\ i \in Items
    BY <1>0, <1>9 DEF HandleUpdate, Calls, Writes
  <2>2. i[2] < latest[i[1]]
    BY <1>9, <2>1 DEF HandleUpdate, FreshIds, IdsHeld
  <2>3. Promise!Update(p)
    BY <1>4, <1>9, <2>1, <2>2 DEF HandleUpdate, Promise!Update
  <2>4. QED BY <1>3, <1>9, <2>1, <2>3 DEF HandleUpdate
<1>10. CASE HandleRemove(p)
  <2>1. c.op \in Writes /\ i \in Items /\ c.kind = i[1]
    BY <1>0, <1>10 DEF HandleRemove, Calls, Writes
  <2>2. CASE c.kind \in Deletable
    <3>1. Promise!Remove(p)
      BY <1>4, <1>10, <2>1, <2>2 DEF HandleRemove, Promise!Remove
    <3>2. QED BY <1>3, <1>10, <2>1, <3>1 DEF HandleRemove
  <2>3. CASE c.kind \notin Deletable
    BY <1>2, <1>10, <2>3 DEF HandleRemove
  <2>4. QED BY <2>2, <2>3
<1>11. CASE HandleAnnotate(p) \/ HandleConfigure(p)
  <2>1. c.op \in Writes /\ i \in Items /\ Answer(p) /\ latest' = latest
    BY <1>0, <1>11 DEF HandleAnnotate, HandleConfigure, Calls, Writes
  <2>2. CASE store[i] = Absent
    BY <1>2, <1>11, <2>1, <2>2 DEF HandleAnnotate, HandleConfigure
  <2>3. CASE store[i] # Absent
    <3>1. Promise!Amend(p)
      BY <1>4, <1>11, <2>1, <2>3 DEF HandleAnnotate, HandleConfigure, Promise!Amend
    <3>2. QED BY <1>3, <2>1, <3>1
  <2>4. QED BY <2>2, <2>3
<1>12. CASE HandleSave(p)
  <2>1. CASE changed
    <3>1. UNCHANGED <<store, latest, call>>
      BY <1>12, <2>1 DEF HandleSave, Clone
    <3>2. QED BY <3>1 DEF pendingWrites, Promise!vars
  <2>2. CASE ~changed
    BY <1>2, <1>12, <2>2 DEF HandleSave, Clone
  <2>3. QED BY <2>1, <2>2
<1>20. QED
  BY <1>5, <1>6, <1>7, <1>8, <1>9, <1>10, <1>11, <1>12 DEF HandleRequest

\* Making a request asks ItemStore for it when it is a write.
LEMMA StartStore ==
  ASSUME TypeOK, NEW p \in Procs, NEW q \in Calls, call[p].op \notin Writes,
         call' = [call EXCEPT ![p] = q], UNCHANGED <<store, latest>>
  PROVE  [Promise!Next]_(Promise!vars)
<1>1. pendingWrites[p] = NoItem
  BY PendingProperties
<1>2. CASE q.op \in Writes
  <2>1. Pending(q) \in WriteRequests /\ Pending(q) # NoItem
    BY <1>2, PendingProperties
  <2>2. pendingWrites' = [pendingWrites EXCEPT ![p] = Pending(q)]
    BY PendingExcept
  <2>3. pendingWrites'[p] = Pending(q)
    BY <2>2 DEF pendingWrites
  <2>4. Pending(q) \in Promise!Requests
    BY <2>1 DEF Promise!Requests, WriteRequests, Writes, Promise!Items, Items, Ids
  <2>5. Promise!Ask(p)
    BY <1>1, <2>2, <2>3, <2>4 DEF Promise!Ask
  <2>6. QED
    BY <2>5 DEF Promise!Next
<1>3. CASE q.op \notin Writes
  BY <1>3, PendingSame, PendingProperties DEF Promise!vars
<1>4. QED BY <1>2, <1>3

\* Every caller's step leaves the database alone and is one request.
LEMMA CallersStore ==
  ASSUME TypeOK, TypeOK'
  PROVE  /\ \A w \in Workers, s \in Sessions :
              CallDatabase(w, s) => [Promise!Next]_(Promise!vars)
         /\ \A w \in Workers : CallNewKey(w) \/ SendVerified(w) \/ TunnelTimeout(w)
                                 => [Promise!Next]_(Promise!vars)
         /\ \A a \in Agents : CallAgent(a) \/ CallRespond(a) \/ UpdateAgentChat(a)
                                => [Promise!Next]_(Promise!vars)
         /\ \A t \in Savers : CallSave(t) => [Promise!Next]_(Promise!vars)
<1> USE ProcsApart
<1>1. /\ call \in [Procs -> Calls] /\ call' \in [Procs -> Calls]
      /\ \A p \in Procs : Free(p) \/ call[p].stage = "got" => call[p].op \notin Writes
  BY DEF TypeOK, DataTypeOK, Free, Calls, Writes
<1>2. ASSUME NEW p \in Procs, NEW q, call' = [call EXCEPT ![p] = q],
             Free(p) \/ call[p].stage = "got", UNCHANGED dbVars
      PROVE  [Promise!Next]_(Promise!vars)
  <2>1. q \in Calls
    BY <1>1, <1>2
  <2>2. QED BY <1>1, <1>2, <2>1, StartStore DEF dbVars
<1>3. ASSUME NEW p \in Procs, NEW q, Start(p, q) PROVE [Promise!Next]_(Promise!vars)
  BY <1>2, <1>3 DEF Start
<1>4. \A w \in Workers, s \in Sessions :
        CallDatabase(w, s) => [Promise!Next]_(Promise!vars)
  BY <1>3 DEF CallDatabase
<1>5. \A w \in Workers : CallNewKey(w) => [Promise!Next]_(Promise!vars)
  BY <1>3 DEF CallNewKey
<1>6. ASSUME NEW w \in Workers, SendVerified(w) PROVE [Promise!Next]_(Promise!vars)
  <2>1. call' = [call EXCEPT ![w] = [call[w] EXCEPT !.stage = "execute"]]
    BY <1>6 DEF SendVerified
  <2>2. Pending([call[w] EXCEPT !.stage = "execute"]) = Pending(call[w])
    BY <1>1 DEF Pending, Calls, CallRecords
  <2>3. pendingWrites' = pendingWrites
    BY <2>1, <2>2, PendingSame
  <2>4. QED BY <1>6, <2>3 DEF SendVerified, dbVars, Promise!vars
<1>7. ASSUME NEW w \in Workers, TunnelTimeout(w) PROVE [Promise!Next]_(Promise!vars)
  <2>1. call[w].op \notin Writes /\ call' = [call EXCEPT ![w] = IdleCall]
    BY <1>7 DEF TunnelTimeout, Writes
  <2>2. pendingWrites' = pendingWrites
    BY <2>1, PendingSame, PendingProperties
  <2>3. QED BY <1>7, <2>2 DEF TunnelTimeout, dbVars, Promise!vars
<1>8. \A a \in Agents : CallAgent(a) => [Promise!Next]_(Promise!vars)
  BY <1>3 DEF CallAgent
<1>9. \A a \in Agents : CallRespond(a) \/ UpdateAgentChat(a)
                          => [Promise!Next]_(Promise!vars)
  BY <1>2 DEF CallRespond, UpdateAgentChat
<1>10. \A t \in Savers : CallSave(t) => [Promise!Next]_(Promise!vars)
  BY <1>2 DEF CallSave
<1>11. QED BY <1>4, <1>5, <1>6, <1>7, <1>8, <1>9, <1>10

LEMMA NextStore ==
  TypeOK /\ TypeOK' /\ FreshIds /\ QueuedInv /\ [Next]_vars
    => [Promise!Next]_(Promise!vars)
<1> SUFFICES ASSUME TypeOK, TypeOK', FreshIds, QueuedInv, [Next]_vars
             PROVE  [Promise!Next]_(Promise!vars)
  OBVIOUS
<1>1. CASE UNCHANGED vars
  BY <1>1 DEF vars, pendingWrites, Promise!vars
<1>2. CASE DatabaseThread
  <2>1. CASE ServePrio
    BY <2>1, HandlerStore DEF ServePrio
  <2>2. CASE ServeNormal
    BY <2>2, HandlerStore DEF ServeNormal, TypeOK, QueueTypeOK
  <2>3. CASE WaitTimeout \/ LookAtPrio \/ NormalEmpty \/ ServeOrphan
    BY <2>3 DEF WaitTimeout, LookAtPrio, NormalEmpty, ServeOrphan, dbVars,
                pendingWrites, Promise!vars
  <2>4. QED BY <1>2, <2>1, <2>2, <2>3 DEF DatabaseThread
<1>3. ASSUME NEW p \in Procs, SaveDone(p) PROVE [Promise!Next]_(Promise!vars)
  <2>1. call[p].op \notin Writes /\ Answer(p)
    BY <1>3 DEF SaveDone, QueuedInv, Writes
  <2>2. pendingWrites' = pendingWrites
    BY <2>1, PendingSame, PendingProperties DEF Answer
  <2>3. QED BY <1>3, <2>2 DEF SaveDone, dbVars, Promise!vars
<1>4. QED BY <1>1, <1>2, <1>3, CallersStore DEF Next

LEMMA InitStore == Init => Promise!Init
<1> SUFFICES ASSUME Init PROVE Promise!Init
  OBVIOUS
<1>1. latest \in [Kinds -> 0 .. MaxId]
  BY DatabaseAssumption DEF Init
<1>2. store \in [Items -> Records \cup {Absent}]
  BY InitType DEF TypeOK, DataTypeOK
<1>3. \A i \in Items : store[i] # Absent => i[2] < latest[i[1]]
  BY DEF Init, Initially
<1>4. pendingWrites = [p \in Procs |-> NoItem]
  BY PendingProperties DEF Init
<1>5. QED BY <1>1, <1>2, <1>3, <1>4 DEF Promise!Init, Promise!Items, Items, Ids

\* Whatever the order in which handling_loop takes requests from its two
\* channels, whoever gives up, a process that writes sees its write applied
\* once and at one instant, or refused, between asking and being answered; no
\* other item changes, and an added item never replaces one.
THEOREM DatabaseImplementsItemStore == Spec => ImplementsItemStore
BY InitStore, NextStore, TypeCorrect, IdsFresh, QueuedAlways, PTL
   DEF Spec, ImplementsItemStore, Promise!Spec
=============================================================================
