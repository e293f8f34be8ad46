------------------------ MODULE JobScheduler_proofs -------------------------
(* Proofs about the job thread, for any jobs, heat map, delays and bounds.   *)
EXTENDS JobScheduler, TLAPS, SequenceTheorems, FiniteSetTheorems

-----------------------------------------------------------------------------
(* Lemmas on the operators of the model.                                     *)

\* Removing the i-th of a sequence leaves the others.
LEMMA RemoveAtProperties ==
  ASSUME NEW S, NEW s \in Seq(S), NEW i \in 1 .. Len(s)
  PROVE  /\ RemoveAt(s, i) \in Seq(S)
         /\ Len(RemoveAt(s, i)) = Len(s) - 1
         /\ \A k \in 1 .. Len(s) - 1 :
              RemoveAt(s, i)[k] = IF k < i THEN s[k] ELSE s[k + 1]
<1> DEFINE left == SubSeq(s, 1, i - 1)
           right == SubSeq(s, i + 1, Len(s))
<1>1. Len(s) \in Nat /\ \A k \in 1 .. Len(s) : s[k] \in S
  OBVIOUS
<1>2. /\ left \in Seq(S) /\ Len(left) = i - 1
      /\ \A k \in 1 .. i - 1 : left[k] = s[k]
  <2>1. \A k \in 1 .. i - 1 : s[k] \in S
    BY <1>1
  <2>2. /\ left \in Seq(S) /\ Len(left) = IF 1 <= i - 1 THEN (i - 1) - 1 + 1 ELSE 0
        /\ \A k \in 1 .. (i - 1) - 1 + 1 : left[k] = s[1 + k - 1]
    BY <1>1, <2>1, SubSeqProperties
  <2>3. QED
    BY <1>1, <2>2
<1>3. /\ right \in Seq(S) /\ Len(right) = Len(s) - i
      /\ \A k \in 1 .. Len(s) - i : right[k] = s[i + k]
  <2>1. \A k \in i + 1 .. Len(s) : s[k] \in S
    BY <1>1
  <2>2. /\ right \in Seq(S)
        /\ Len(right) = IF i + 1 <= Len(s) THEN Len(s) - (i + 1) + 1 ELSE 0
        /\ \A k \in 1 .. Len(s) - (i + 1) + 1 : right[k] = s[(i + 1) + k - 1]
    BY <1>1, <2>1, SubSeqProperties
  <2>3. QED
    BY <1>1, <2>2
<1>4. /\ left \o right \in Seq(S) /\ Len(left \o right) = Len(left) + Len(right)
      /\ \A k \in 1 .. Len(left) + Len(right) :
           (left \o right)[k] = IF k <= Len(left) THEN left[k] ELSE right[k - Len(left)]
  BY <1>2, <1>3, ConcatProperties
<1>5. RemoveAt(s, i) = left \o right
  BY DEF RemoveAt
<1> HIDE DEF left, right
<1>6. \A k \in 1 .. Len(s) - 1 :
        (left \o right)[k] = IF k < i THEN s[k] ELSE s[k + 1]
  <2> SUFFICES ASSUME NEW k \in 1 .. Len(s) - 1
               PROVE  (left \o right)[k] = IF k < i THEN s[k] ELSE s[k + 1]
    OBVIOUS
  <2>1. CASE k < i
    BY <1>1, <1>2, <1>3, <1>4, <2>1
  <2>2. CASE k >= i
    <3>1. (left \o right)[k] = right[k - (i - 1)]
      BY <1>1, <1>2, <1>3, <1>4, <2>2
    <3>2. /\ k - (i - 1) \in 1 .. Len(s) - i
          /\ i + (k - (i - 1)) = k + 1
      BY <1>1, <2>2
    <3>3. right[k - (i - 1)] = s[i + (k - (i - 1))]
      BY <1>3, <3>2
    <3>4. right[k - (i - 1)] = s[k + 1]
      BY <3>2, <3>3
    <3>5. QED
      BY <1>1, <2>2, <3>1, <3>4
  <2>3. k < i \/ k >= i
    BY <1>1
  <2>4. QED
    BY <2>1, <2>2, <2>3
<1>7. QED
  BY <1>1, <1>2, <1>3, <1>4, <1>5, <1>6

LEMMA AppendedLast ==
  ASSUME NEW S, NEW s \in Seq(S), NEW e \in S
  PROVE  /\ Append(s, e) \in Seq(S) /\ Len(Append(s, e)) = Len(s) + 1
         /\ \A k \in 1 .. Len(s) : Append(s, e)[k] = s[k]
         /\ Append(s, e)[Len(s) + 1] = e
OBVIOUS

LEMMA OrdersTyped ==
  ASSUME NEW S, S \subseteq Jobs, NEW s \in Orders(S)
  PROVE  /\ s \in Seq(Jobs) /\ DOMAIN s = 1 .. Len(s)
         /\ \A i \in DOMAIN s : s[i] \in S
         /\ \A j \in S : \E i \in DOMAIN s : \A k \in DOMAIN s : s[k] = j <=> k = i
<1>1. Cardinality(S) \in Nat
  BY JobSchedulerAssumption, FS_Subset, FS_CardinalityType
<1>2. s \in [1 .. Cardinality(S) -> S]
  BY DEF Orders
<1>3. s \in Seq(Jobs) /\ DOMAIN s = 1 .. Cardinality(S)
  BY <1>1, <1>2
<1>4. QED
  BY <1>2, <1>3 DEF Orders

LEMMA JobTyped == \A j \in Jobs : Job[j] \in JobRecords
BY JobSchedulerAssumption

LEMMA DueTyped ==
  ASSUME NEW e \in Entries, NEW t \in Nat, NEW slot \in Slots, ~Unschedulable(e)
  PROVE  Due(e, t, slot) \in Int
<1> DEFINE job == Job[e.id]
<1>1. /\ job \in JobRecords /\ job.time \in Nat /\ job.period \in Nat
      /\ AsapDelay \in Nat /\ slot \in Int /\ Day \in Nat /\ Day > 0 /\ e.last \in Int
  BY JobSchedulerAssumption, JobTyped DEF Entries, JobRecords, Instants, Never
<1>2. Midnight(t) \in Int
  BY <1>1 DEF Midnight
<1>3. NextOfDay(job, e.last, t) \in Int
  BY <1>1, <1>2 DEF NextOfDay
<1>4. CASE job.timing = "ontime" /\ e.last # Never /\ job.repeat = "interval"
  <2>1. job.period > 0
    BY <1>1, <1>4 DEF Unschedulable
  <2>2. NextInterval(job, t) \in Int
    BY <1>1, <2>1 DEF NextInterval
  <2>3. QED
    BY <1>4, <2>2 DEF Due
<1>5. CASE ~(job.timing = "ontime" /\ e.last # Never /\ job.repeat = "interval")
  BY <1>1, <1>2, <1>3, <1>5 DEF Due, JobRecords
<1>6. QED
  BY <1>4, <1>5

LEMMA WakeUpTyped == \A t, due \in Int : WakeUp(t, due) \in Int
BY DEF WakeUp

LEMMA OutcomesTyped ==
  ASSUME NEW j \in Jobs, NEW o \in Outcomes(j)
  PROVE  /\ o.ok \in BOOLEAN /\ o.again \in BOOLEAN /\ o.stamped \in BOOLEAN
         /\ o.again /\ o.stamped => MustRepeat(j)
         /\ o.again /\ o.ok => MustRepeat(j)
<1>1. Job[j].type \in {"reminder", "title", "tag", "callback", "evolving"}
  BY JobTyped DEF JobRecords
<1>2. MustRepeat(j) \in BOOLEAN
  BY DEF MustRepeat
<1>3. \/ \E again \in BOOLEAN : o = Failure(again)
      \/ o = Success(FALSE, TRUE)
      \/ o = Success(MustRepeat(j), TRUE)
      \/ o = Success(MustRepeat(j), FALSE)
  <2>1. CASE Job[j].type = "reminder"
    BY <1>2, <2>1 DEF Outcomes
  <2>2. CASE Job[j].type = "title"
    BY <1>2, <2>2 DEF Outcomes
  <2>3. CASE Job[j].type = "tag"
    BY <1>2, <2>3 DEF Outcomes
  <2>4. CASE Job[j].type = "callback"
    BY <1>2, <2>4 DEF Outcomes
  <2>5. CASE Job[j].type = "evolving"
    BY <1>2, <2>5 DEF Outcomes
  <2>6. QED
    BY <1>1, <2>1, <2>2, <2>3, <2>4, <2>5
<1>4. CASE \E again \in BOOLEAN : o = Failure(again)
  BY <1>4 DEF Failure
<1>5. CASE o = Success(FALSE, TRUE)
  BY <1>5 DEF Success
<1>6. CASE o = Success(MustRepeat(j), TRUE)
  BY <1>2, <1>6, Zenon DEF Success
<1>7. CASE o = Success(MustRepeat(j), FALSE)
  BY <1>2, <1>7, Zenon DEF Success
<1>8. QED
  BY <1>3, <1>4, <1>5, <1>6, <1>7

-----------------------------------------------------------------------------
(* Type correctness, with the index of the job that is run.                  *)

IndexInv ==
  /\ scheduled # 0 => scheduled \in 1 .. Len(list)
  /\ phase = "executing" => scheduled # 0
  /\ phase = "waiting" /\ list # <<>> => scheduled # 0

TypeInv == TypeOK /\ IndexInv

LEMMA InitType == Init => TypeInv
<1> SUFFICES ASSUME Init PROVE TypeInv
  OBVIOUS
<1>1. Day \in Int /\ wake \in Int
  BY JobSchedulerAssumption, WakeUpTyped DEF Init
<1>2. QED
  BY <1>1 DEF Init, TypeInv, TypeOK, IndexInv, Instants

LEMMA DatabaseType ==
  ASSUME TypeInv, NEW j \in Jobs,
         AddJob(j) \/ UpdateJob(j) \/ RemoveJob(j) \/ ServeRemoval(j)
  PROVE  TypeInv'
<1>1. CASE AddJob(j)
  BY <1>1 DEF TypeInv, TypeOK, IndexInv, AddJob, thread
<1>2. CASE RemoveJob(j)
  BY <1>2 DEF TypeInv, TypeOK, IndexInv, RemoveJob, thread
<1>3. CASE ServeRemoval(j)
  BY <1>3 DEF TypeInv, TypeOK, IndexInv, ServeRemoval, thread
<1>4. CASE UpdateJob(j)
  BY <1>4 DEF TypeInv, TypeOK, IndexInv, UpdateJob, thread
<1>5. QED
  BY <1>1, <1>2, <1>3, <1>4

LEMMA ProcessType ==
  ASSUME TypeInv, Tick \/ Save \/ Restart
  PROVE  TypeInv'
<1>1. CASE Tick
  BY <1>1 DEF TypeInv, TypeOK, IndexInv, Tick, database, thread
<1>2. CASE Save
  BY <1>2 DEF TypeInv, TypeOK, IndexInv, Save, thread
<1>3. CASE Restart
  <2>1. now + Day \in Int /\ wake' \in Int /\ now \in Int
    BY <1>3, JobSchedulerAssumption, WakeUpTyped DEF TypeInv, TypeOK, Restart
  <2>2. inbox' \in Seq(Jobs)
    BY <1>3, OrdersTyped DEF Restart, TypeInv, TypeOK
  <2>3. QED
    BY <1>3, <2>1, <2>2 DEF TypeInv, TypeOK, IndexInv, Restart, Instants
<1>4. QED
  BY <1>1, <1>2, <1>3

LEMMA ReceiveType ==
  ASSUME TypeInv, Receive
  PROVE  TypeInv'
<1>1. Head(inbox) \in Jobs /\ Tail(inbox) \in Seq(Jobs)
  BY HeadTailProperties DEF TypeInv, TypeOK, Receive
<1>2. [id |-> Head(inbox), last |-> Never] \in Entries
  BY <1>1 DEF Entries, Instants
<1>3. list' \in Seq(Entries) /\ Len(list') = Len(list) + 1
  BY <1>2, AppendedLast DEF TypeInv, TypeOK, Receive
<1>4. QED
  BY <1>1, <1>3 DEF TypeInv, TypeOK, IndexInv, Receive, database

LEMMA WaitType ==
  ASSUME TypeInv, Start \/ WaitOn
  PROVE  TypeInv'
<1>1. CASE Start
  <2>1. list[scheduled] \in Entries
    BY <1>1 DEF TypeInv, TypeOK, IndexInv, Start
  <2>2. QED
    BY <1>1, <2>1 DEF TypeInv, TypeOK, IndexInv, Start, database, Entries
<1>2. CASE WaitOn
  <2>1. deadline' \in Int /\ wake' \in Int
    BY <1>2, JobSchedulerAssumption, WakeUpTyped DEF WaitOn, TypeInv, TypeOK
  <2>2. QED
    BY <1>2, <2>1 DEF TypeInv, TypeOK, IndexInv, WaitOn, database
<1>3. QED
  BY <1>1, <1>2

\* What finishing does to the list: the job's entry is stamped or removed.
LEMMA FinishList ==
  ASSUME TypeInv, Finish
  PROVE  /\ scheduled \in 1 .. Len(list) /\ Current \in Jobs /\ list' \in Seq(Entries)
         /\ \/ /\ Len(list') = Len(list)
               /\ \A k \in 1 .. Len(list) :
                    /\ list'[k].id = list[k].id
                    /\ \/ list'[k].last = list[k].last
                       \/ k = scheduled /\ list'[k].last = now /\ MustRepeat(Current)
               /\ UNCHANGED <<scheduled, removing>>
               /\ succeeded'[Current] # succeeded[Current] => MustRepeat(Current)
            \/ /\ Len(list') = Len(list) - 1
               /\ \A k \in 1 .. Len(list) - 1 :
                    list'[k] = IF k < scheduled THEN list[k] ELSE list[k + 1]
               /\ scheduled' = 0 /\ removing' = removing \cup {Current}
<1>1. /\ scheduled \in 1 .. Len(list) /\ list[scheduled] \in Entries /\ Current \in Jobs
      /\ now \in Instants
  <2>1. scheduled \in 1 .. Len(list) /\ list \in Seq(Entries) /\ now \in Nat
    BY DEF TypeInv, TypeOK, IndexInv, Finish
  <2>2. list[scheduled] \in Entries
    BY <2>1
  <2>3. QED
    BY <2>1, <2>2 DEF Entries, Current, Instants
<1>2. PICK o \in Outcomes(Current) :
        /\ succeeded' = IF o.ok THEN [succeeded EXCEPT ![Current] = now] ELSE succeeded
        /\ \/ /\ o.again
              /\ list' = IF o.stamped THEN [list EXCEPT ![scheduled].last = now] ELSE list
              /\ UNCHANGED <<scheduled, removing>>
           \/ /\ ~o.again
              /\ list' = RemoveAt(list, scheduled)
              /\ scheduled' = IndexAfterRemoval(scheduled)
              /\ removing' = AskRemoval(Current)
  BY DEF Finish, Current
<1>3. CASE o.again
  <2>1. /\ list' = IF o.stamped THEN [list EXCEPT ![scheduled].last = now] ELSE list
        /\ UNCHANGED <<scheduled, removing>>
        /\ o.stamped => MustRepeat(Current)
    BY <1>1, <1>2, <1>3, OutcomesTyped
  <2>2. succeeded'[Current] # succeeded[Current] => MustRepeat(Current)
    BY <1>1, <1>2, <1>3, OutcomesTyped
  <2>3. CASE o.stamped
    <3>1. list' = [list EXCEPT ![scheduled].last = now]
      BY <2>1, <2>3
    <3>2. [list[scheduled] EXCEPT !.last = now] \in Entries
      BY <1>1 DEF Entries
    <3>3. list' \in Seq(Entries) /\ Len(list') = Len(list)
      BY <1>1, <3>1, <3>2 DEF TypeInv, TypeOK
    <3>4. \A k \in 1 .. Len(list) :
            /\ list'[k].id = list[k].id
            /\ list'[k].last = list[k].last \/ (k = scheduled /\ list'[k].last = now)
      BY <1>1, <3>1 DEF TypeInv, TypeOK, Entries
    <3>5. QED
      BY <1>1, <2>1, <2>2, <2>3, <3>3, <3>4
  <2>4. CASE ~o.stamped
    BY <1>1, <2>1, <2>2, <2>4 DEF TypeInv, TypeOK
  <2>5. QED
    BY <2>3, <2>4
<1>4. CASE ~o.again
  BY <1>1, <1>2, <1>4, RemoveAtProperties
     DEF TypeInv, TypeOK, IndexAfterRemoval, AskRemoval
<1>5. QED
  BY <1>3, <1>4

LEMMA FinishType ==
  ASSUME TypeInv, Finish
  PROVE  TypeInv'
<1>1. succeeded' \in [Jobs -> Instants]
  BY DEF TypeInv, TypeOK, Finish, Instants
<1>2. /\ list' \in Seq(Entries) /\ removing' \subseteq Jobs /\ scheduled' \in Nat
      /\ scheduled' # 0 => scheduled' \in 1 .. Len(list')
  BY FinishList DEF TypeInv, TypeOK
<1>3. QED
  BY <1>1, <1>2 DEF TypeInv, TypeOK, IndexInv, Finish, database

LEMMA PanicType ==
  ASSUME TypeInv, PanicUndescribed
  PROVE  TypeInv'
BY DEF TypeInv, TypeOK, IndexInv, PanicUndescribed, database

LEMMA ScheduleType ==
  ASSUME TypeInv, Schedule
  PROVE  TypeInv'
<1>1. CASE \E i \in DOMAIN list : Unschedulable(list[i]) /\ phase' = "dead"
                                  /\ UNCHANGED <<scheduled, deadline, wake>>
  BY <1>1 DEF TypeInv, TypeOK, IndexInv, Schedule, database
<1>2. CASE list = <<>> /\ scheduled' = 0 /\ phase' = "waiting"
           /\ deadline' = now + Day /\ wake' = WakeUp(now, now + Day)
  <2>1. deadline' \in Int /\ wake' \in Int
    BY <1>2, JobSchedulerAssumption, WakeUpTyped DEF TypeInv, TypeOK
  <2>2. QED
    BY <1>2, <2>1 DEF TypeInv, TypeOK, IndexInv, Schedule, database
<1>3. CASE /\ phase' = "waiting" /\ \A i \in DOMAIN list : ~Unschedulable(list[i])
           /\ \E slot \in Slots :
                LET due == [i \in DOMAIN list |-> Due(list[i], now, slot)]
                IN  /\ scheduled' \in Soonest(due, scheduled)
                    /\ deadline' = due[scheduled']
                    /\ wake' = WakeUp(now, deadline')
  <2>1. PICK slot \in Slots :
          /\ scheduled' \in Soonest([i \in DOMAIN list |-> Due(list[i], now, slot)], scheduled)
          /\ deadline' = [i \in DOMAIN list |-> Due(list[i], now, slot)][scheduled']
          /\ wake' = WakeUp(now, deadline')
    BY <1>3
  <2>2. scheduled' \in 1 .. Len(list)
    BY <2>1 DEF Soonest, TypeInv, TypeOK
  <2>3. list[scheduled'] \in Entries /\ ~Unschedulable(list[scheduled'])
    BY <1>3, <2>2 DEF TypeInv, TypeOK
  <2>4. deadline' \in Int /\ wake' \in Int
    <3>1. deadline' = Due(list[scheduled'], now, slot)
      BY <2>1, <2>2 DEF TypeInv, TypeOK
    <3>2. deadline' \in Int
      BY <2>3, <3>1, DueTyped DEF TypeInv, TypeOK
    <3>3. wake' = WakeUp(now, deadline')
      BY <2>1
    <3>4. now \in Int
      BY DEF TypeInv, TypeOK
    <3>5. QED
      BY <3>2, <3>3, <3>4, WakeUpTyped
  <2>5. QED
    BY <1>3, <2>2, <2>4 DEF TypeInv, TypeOK, IndexInv, Schedule, database
<1>4. QED
  BY <1>1, <1>2, <1>3 DEF Schedule

LEMMA NextType == TypeInv /\ [Next]_vars => TypeInv'
<1> SUFFICES ASSUME TypeInv, [Next]_vars PROVE TypeInv'
  OBVIOUS
<1>1. CASE UNCHANGED vars
  BY <1>1 DEF vars, database, thread, TypeInv, TypeOK, IndexInv
<1>2. CASE Next
  BY <1>2, DatabaseType, ProcessType, ReceiveType, WaitType, FinishType, PanicType,
     ScheduleType DEF Next, JobThread
<1>3. QED
  BY <1>1, <1>2

LEMMA TypeInvariant == Spec => []TypeInv
<1>1. QED
  BY InitType, NextType, PTL DEF Spec

\* Every variable keeps its type (TypeOK).
THEOREM TypeCorrect == Spec => []TypeOK
<1>1. TypeInv => TypeOK
  BY DEF TypeInv
<1>2. QED
  BY <1>1, TypeInvariant, PTL
-----------------------------------------------------------------------------
(* What ends the thread.  The entry of a job carries an execution only if   *)
(* the job repeats, so that Job::schedule can panic on no job but one that   *)
(* repeats at intervals of zero.                                             *)

DoneRepeats == \A i \in 1 .. Len(list) : list[i].last # Never => MustRepeat(list[i].id)

LEMMA DoneRepeatsSchedulable ==
  ASSUME TypeInv, DoneRepeats, NEW i \in DOMAIN list, Unschedulable(list[i])
  PROVE  Fatal(list[i])
<1>1. i \in 1 .. Len(list) /\ list[i] \in Entries
  BY DEF TypeInv, TypeOK
<1>2. list[i].id \in Jobs /\ Job[list[i].id].period \in Nat
  BY <1>1, JobTyped DEF Entries, JobRecords
<1>3. QED
  BY <1>1, <1>2 DEF DoneRepeats, Unschedulable, MustRepeat, Fatal

LEMMA NextDoneRepeats ==
  ASSUME TypeInv, DoneRepeats, [Next]_vars
  PROVE  DoneRepeats'
<1>1. CASE list' = list
  BY <1>1 DEF DoneRepeats
<1>2. CASE Restart
  BY <1>2 DEF Restart, DoneRepeats
<1>3. CASE Receive
  <2>1. Head(inbox) \in Jobs
    BY <1>3, HeadTailProperties DEF TypeInv, TypeOK, Receive
  <2>2. [id |-> Head(inbox), last |-> Never] \in Entries
    BY <2>1 DEF Entries, Instants
  <2>3. /\ Len(list') = Len(list) + 1 /\ Len(list) \in Nat
        /\ \A k \in 1 .. Len(list) : list'[k] = list[k]
        /\ list'[Len(list) + 1].last = Never
    BY <1>3, <2>2, AppendedLast DEF TypeInv, TypeOK, Receive
  <2>4. QED
    BY <2>3 DEF DoneRepeats
<1>4. CASE Finish
  <2>1. Len(list) \in Nat
    BY DEF TypeInv, TypeOK
  <2>2. ASSUME Len(list') = Len(list),
               \A k \in 1 .. Len(list) :
                 /\ list'[k].id = list[k].id
                 /\ \/ list'[k].last = list[k].last
                    \/ k = scheduled /\ list'[k].last = now /\ MustRepeat(Current)
        PROVE  DoneRepeats'
    BY <2>2 DEF DoneRepeats, Current
  <2>3. ASSUME Len(list') = Len(list) - 1,
               \A k \in 1 .. Len(list) - 1 :
                 list'[k] = IF k < scheduled THEN list[k] ELSE list[k + 1]
        PROVE  DoneRepeats'
    <3>1. \A k \in 1 .. Len(list') : \E i \in 1 .. Len(list) : list'[k] = list[i]
      BY <2>1, <2>3
    <3>2. QED
      BY <3>1 DEF DoneRepeats
  <2>4. QED
    BY <1>4, <2>2, <2>3, FinishList
<1>5. QED
  <2>1. list' = list \/ Restart \/ Receive \/ Finish
    BY DEF Next, JobThread, vars, thread, Tick, AddJob, UpdateJob, RemoveJob, ServeRemoval, Save,
           Start, WaitOn, PanicUndescribed, Schedule
  <2>2. QED
    BY <1>1, <1>2, <1>3, <1>4, <2>1

EndedBy == phase = "dead" => \E i \in DOMAIN list : Fatal(list[i])

LEMMA NextEnded ==
  ASSUME TypeInv, DoneRepeats, EndedBy, [Next]_vars
  PROVE  EndedBy'
<1>1. CASE Schedule
  <2>1. ASSUME NEW i \in DOMAIN list, Unschedulable(list[i])
        PROVE  Fatal(list[i])
    BY <2>1, DoneRepeatsSchedulable
  <2>2. list' = list /\ phase = "scheduling"
    BY <1>1 DEF Schedule
  <2>3. phase' = "dead" => \E i \in DOMAIN list : Unschedulable(list[i])
    BY <1>1 DEF Schedule
  <2>4. QED
    BY <2>1, <2>2, <2>3 DEF EndedBy, Fatal
<1>2. CASE PanicUndescribed
  <2>1. scheduled \in DOMAIN list /\ list' = list
    BY <1>2 DEF PanicUndescribed, TypeInv, TypeOK, IndexInv
  <2>2. Fatal(list[scheduled])
    BY <1>2 DEF PanicUndescribed, Fatal
  <2>3. QED
    BY <2>1, <2>2 DEF EndedBy, Fatal
<1>3. CASE UNCHANGED <<list, phase>>
  BY <1>3 DEF EndedBy, Fatal
<1>4. CASE phase' # "dead"
  BY <1>4 DEF EndedBy
<1>5. QED
  <2>1. Schedule \/ PanicUndescribed \/ UNCHANGED <<list, phase>> \/ phase' # "dead"
    BY DEF Next, JobThread, vars, thread, Tick, AddJob, UpdateJob, RemoveJob, ServeRemoval,
           Save, Restart, Receive, Start, WaitOn, Finish
  <2>2. QED
    BY <1>1, <1>2, <1>3, <1>4, <2>1

\* The index kept across receptions, removals and choices is that of a job of
\* the list, and what ends the thread is a callback without a description or a
\* job done that repeats at intervals of zero (ScheduledExists): never a job
\* done that does not repeat.
THEOREM IndexIsSound == Spec => []ScheduledExists
<1> DEFINE Inv == TypeInv /\ DoneRepeats /\ EndedBy
<1>1. Init => Inv
  BY InitType DEF Init, DoneRepeats, EndedBy
<1>2. Inv /\ [Next]_vars => Inv'
  BY NextType, NextDoneRepeats, NextEnded
<1>3. Inv => ScheduledExists
  BY DEF TypeInv, TypeOK, IndexInv, EndedBy, ScheduledExists
<1>4. QED
  BY <1>1, <1>2, <1>3, PTL DEF Spec

-----------------------------------------------------------------------------
(* No stored job is left out: what leaves the channel is in the list, what   *)
(* leaves the list is being removed, and an update puts back nothing else    *)
(* unnoticed by the history.                                                 *)

Listed(j) == \E i \in 1 .. Len(list) : list[i].id = j
Waiting(j) == \E i \in 1 .. Len(inbox) : inbox[i] = j

Known == \A j \in stored : Listed(j) \/ Waiting(j) \/ j \in removing \cup revived

LEMMA ReceiveKeeps ==
  ASSUME TypeInv, Receive, NEW j \in Jobs
  PROVE  Listed(j)' \/ Waiting(j)' <=> Listed(j) \/ Waiting(j)
<1>1. /\ Head(inbox) \in Jobs /\ Head(inbox) = inbox[1] /\ Len(inbox) \in Nat /\ Len(inbox) > 0
      /\ Len(Tail(inbox)) = Len(inbox) - 1
      /\ \A k \in 1 .. Len(inbox) - 1 : Tail(inbox)[k] = inbox[k + 1]
  BY HeadTailProperties DEF TypeInv, TypeOK, Receive
<1>2. [id |-> Head(inbox), last |-> Never] \in Entries
  BY <1>1 DEF Entries, Instants
<1>3. /\ Len(list') = Len(list) + 1 /\ Len(list) \in Nat
      /\ \A k \in 1 .. Len(list) : list'[k] = list[k]
      /\ list'[Len(list) + 1].id = inbox[1]
  BY <1>1, <1>2, AppendedLast DEF TypeInv, TypeOK, Receive
<1>4. Listed(j)' <=> Listed(j) \/ j = inbox[1]
  BY <1>3 DEF Listed
<1>5. Waiting(j) <=> Waiting(j)' \/ j = inbox[1]
  <2>1. inbox' = Tail(inbox)
    BY DEF Receive
  <2>2. ASSUME NEW i \in 1 .. Len(inbox), inbox[i] = j, j # inbox[1]
        PROVE  Waiting(j)'
    <3>1. i - 1 \in 1 .. Len(inbox) - 1 /\ (i - 1) + 1 = i
      BY <1>1, <2>2
    <3>2. inbox'[i - 1] = j
      BY <1>1, <2>1, <2>2, <3>1
    <3>3. QED
      BY <1>1, <2>1, <3>1, <3>2 DEF Waiting
  <2>3. ASSUME NEW i \in 1 .. Len(inbox) - 1, Tail(inbox)[i] = j
        PROVE  Waiting(j)
    <3>1. i + 1 \in 1 .. Len(inbox) /\ inbox[i + 1] = j
      BY <1>1, <2>3
    <3>2. QED
      BY <3>1 DEF Waiting
  <2>4. Waiting(j) => Waiting(j)' \/ j = inbox[1]
    BY <2>2 DEF Waiting
  <2>5. Waiting(j)' => Waiting(j)
    BY <1>1, <2>1, <2>3 DEF Waiting
  <2>6. j = inbox[1] => Waiting(j)
    BY <1>1 DEF Waiting
  <2>7. QED
    BY <2>4, <2>5, <2>6
<1>6. QED
  BY <1>4, <1>5

LEMMA FinishKeeps ==
  ASSUME TypeInv, Finish, NEW j \in Jobs, Listed(j)
  PROVE  Listed(j)' \/ j \in removing'
<1>1. Len(list) \in Nat /\ scheduled \in 1 .. Len(list)
  BY FinishList DEF TypeInv, TypeOK
<1>2. PICK i \in 1 .. Len(list) : list[i].id = j
  BY DEF Listed
<1>3. CASE /\ Len(list') = Len(list)
           /\ \A k \in 1 .. Len(list) : list'[k].id = list[k].id
  BY <1>2, <1>3 DEF Listed
<1>4. CASE /\ Len(list') = Len(list) - 1
           /\ \A k \in 1 .. Len(list) - 1 :
                list'[k] = IF k < scheduled THEN list[k] ELSE list[k + 1]
           /\ removing' = removing \cup {Current}
  <2>1. CASE i = scheduled
    BY <1>2, <1>4, <2>1 DEF Current
  <2>2. CASE i < scheduled
    BY <1>1, <1>2, <1>4, <2>2 DEF Listed
  <2>3. CASE i > scheduled
    <3>1. i - 1 \in 1 .. Len(list) - 1 /\ ~(i - 1 < scheduled) /\ (i - 1) + 1 = i
      BY <1>1, <1>2, <2>3
    <3>2. list'[i - 1] = list[i]
      BY <1>4, <3>1
    <3>3. QED
      BY <1>2, <1>4, <3>1, <3>2 DEF Listed
  <2>4. QED
    BY <1>1, <1>2, <2>1, <2>2, <2>3
<1>5. QED
  BY <1>3, <1>4, FinishList

LEMMA NextKnown ==
  ASSUME TypeInv, Known, [Next]_vars
  PROVE  Known'
<1>1. ASSUME NEW j \in Jobs, AddJob(j)
      PROVE  Known'
  <2>1. /\ Len(inbox') = Len(inbox) + 1 /\ Len(inbox) \in Nat
        /\ \A k \in 1 .. Len(inbox) : inbox'[k] = inbox[k]
        /\ inbox'[Len(inbox) + 1] = j
    BY <1>1, AppendedLast DEF TypeInv, TypeOK, AddJob
  <2>2. /\ list' = list /\ removing' = removing /\ stored' = stored \cup {j}
        /\ revived' = revived
    BY <1>1 DEF AddJob, thread
  <2>3. QED
    BY <2>1, <2>2 DEF Known, Listed, Waiting
<1>2. CASE /\ UNCHANGED <<list, inbox, removing>>
           /\ \A x \in stored' : x \in revived' \/ (x \in stored /\ x \notin revived)
  BY <1>2 DEF Known, Listed, Waiting
<1>3. ASSUME NEW j \in Jobs, ServeRemoval(j)
      PROVE  Known'
  BY <1>3 DEF ServeRemoval, thread, Known, Listed, Waiting
<1>4. CASE Restart
  <2>1. /\ inbox' \in Seq(Jobs) /\ stored' = disk
        /\ \A j \in disk : \E i \in 1 .. Len(inbox') : inbox'[i] = j
    BY <1>4, OrdersTyped DEF Restart, TypeInv, TypeOK
  <2>2. QED
    BY <2>1 DEF Known, Waiting
<1>5. CASE Receive
  <2>1. /\ stored' = stored /\ removing' = removing /\ stored \subseteq Jobs
        /\ revived' = revived
    BY <1>5 DEF Receive, database, TypeInv, TypeOK
  <2>2. QED
    BY <1>5, <2>1, ReceiveKeeps DEF Known
<1>6. CASE Finish
  <2>1. /\ stored' = stored /\ inbox' = inbox /\ stored \subseteq Jobs
        /\ removing \subseteq removing' /\ revived' = revived
    BY <1>6, FinishList DEF Finish, database, TypeInv, TypeOK
  <2>2. \A j \in stored : Listed(j) => Listed(j)' \/ j \in removing'
    BY <1>6, <2>1, FinishKeeps
  <2>3. \A j \in stored : Waiting(j) => Waiting(j)'
    BY <2>1 DEF Waiting
  <2>4. QED
    BY <2>1, <2>2, <2>3 DEF Known
<1>7. QED
  <2>1. \/ /\ UNCHANGED <<list, inbox, removing>>
           /\ \A x \in stored' : x \in revived' \/ (x \in stored /\ x \notin revived)
        \/ \E j \in Jobs : AddJob(j) \/ ServeRemoval(j)
        \/ Restart \/ Receive \/ Finish
    BY DEF Next, JobThread, vars, thread, database, Tick, UpdateJob, RemoveJob, Save,
           Start, WaitOn, PanicUndescribed,
           Schedule
  <2>2. QED
    BY <1>1, <1>2, <1>3, <1>4, <1>5, <1>6, <2>1

\* A job the database holds is known to the thread, or its removal is under way,
\* or a client's update has put it back since the last start (StoredKnown).
THEOREM StoredJobsAreKnown == Spec => []StoredKnown
<1> DEFINE Inv == TypeInv /\ Known
<1>1. Init => Inv
  BY InitType DEF Init, Known
<1>2. Inv /\ [Next]_vars => Inv'
  BY NextType, NextKnown
<1>3. Inv => StoredKnown
  BY DEF TypeInv, TypeOK, StoredKnown, Known, Listed, Waiting
<1>4. QED
  BY <1>1, <1>2, <1>3, PTL DEF Spec

-----------------------------------------------------------------------------
(* A job is in the hands of the thread at most once, so that its removal     *)
(* leaves no entry to run it again.                                          *)

Once ==
  /\ \A i, k \in 1 .. Len(list) : list[i].id = list[k].id => i = k
  /\ \A i, k \in 1 .. Len(inbox) : inbox[i] = inbox[k] => i = k
  /\ \A j \in Jobs : ~(Listed(j) /\ Waiting(j))
  /\ \A j \in Jobs : Listed(j) \/ Waiting(j) => j \in added
  /\ stored \subseteq added /\ disk \subseteq added

DoneLeft ==
  \A j \in Jobs :
    succeeded[j] # Never =>
      j \in added /\ (~MustRepeat(j) => ~Listed(j) /\ ~Waiting(j))

LEMMA AddOnce ==
  ASSUME TypeInv, Once, NEW a \in Jobs, AddJob(a)
  PROVE  Once' /\ \A j \in Jobs : (Listed(j) \/ Waiting(j))' => Listed(j) \/ Waiting(j) \/ j = a
<1>1. /\ Len(inbox') = Len(inbox) + 1 /\ Len(inbox) \in Nat
      /\ \A k \in 1 .. Len(inbox) : inbox'[k] = inbox[k]
      /\ inbox'[Len(inbox) + 1] = a
  BY AppendedLast DEF TypeInv, TypeOK, AddJob
<1>2. /\ list' = list /\ stored' = stored \cup {a} /\ added' = added \cup {a}
      /\ disk' = disk /\ a \notin added
  BY DEF AddJob, thread
<1>3. \A j \in Jobs : /\ Listed(j)' <=> Listed(j)
                      /\ Waiting(j)' <=> Waiting(j) \/ j = a
  BY <1>1, <1>2 DEF Listed, Waiting
<1>4. \A k \in 1 .. Len(inbox) : inbox[k] \in Jobs /\ Waiting(inbox[k]) /\ inbox[k] # a
  <2>1. \A k \in 1 .. Len(inbox) : inbox[k] \in Jobs /\ Waiting(inbox[k])
    BY DEF TypeInv, TypeOK, Waiting
  <2>2. QED
    BY <1>2, <2>1 DEF Once
<1>5. \A i, k \in 1 .. Len(inbox') : inbox'[i] = inbox'[k] => i = k
  BY <1>1, <1>4 DEF Once
<1>6. ~Listed(a)
  BY <1>2 DEF Once
<1>7. QED
  BY <1>2, <1>3, <1>5, <1>6 DEF Once

LEMMA RestartOnce ==
  ASSUME TypeInv, Once, Restart
  PROVE  Once'
<1>1. /\ inbox' \in Seq(Jobs) /\ DOMAIN inbox' = 1 .. Len(inbox')
      /\ \A i \in DOMAIN inbox' : inbox'[i] \in disk
      /\ \A j \in disk : \E i \in DOMAIN inbox' : \A k \in DOMAIN inbox' : inbox'[k] = j <=> k = i
  BY OrdersTyped DEF Restart, TypeInv, TypeOK
<1>2. \A i, k \in 1 .. Len(inbox') : inbox'[i] = inbox'[k] => i = k
  <2> SUFFICES ASSUME NEW i \in DOMAIN inbox', NEW k \in DOMAIN inbox', inbox'[i] = inbox'[k]
               PROVE  i = k
    BY <1>1
  <2>1. PICK n \in DOMAIN inbox' : \A m \in DOMAIN inbox' : inbox'[m] = inbox'[i] <=> m = n
    BY <1>1
  <2>2. QED
    BY <2>1
<1>3. list' = <<>> /\ stored' = disk /\ added' = added /\ disk' = disk
  BY DEF Restart
<1>4. \A j \in Jobs : ~Listed(j)' /\ (Waiting(j)' => j \in disk)
  BY <1>1, <1>3 DEF Listed, Waiting
<1>5. list' = <<>> /\ Len(list') = 0
  BY <1>3
<1>6. \A i, k \in 1 .. Len(list') : list'[i].id = list'[k].id => i = k
  BY <1>5
<1>7. QED
  BY <1>2, <1>3, <1>4, <1>6 DEF Once

LEMMA ReceiveOnce ==
  ASSUME TypeInv, Once, Receive
  PROVE  Once'
<1>1. /\ Head(inbox) \in Jobs /\ Head(inbox) = inbox[1] /\ Len(inbox) \in Nat /\ Len(inbox) > 0
      /\ Len(Tail(inbox)) = Len(inbox) - 1
      /\ \A k \in 1 .. Len(inbox) - 1 : Tail(inbox)[k] = inbox[k + 1]
  BY HeadTailProperties DEF TypeInv, TypeOK, Receive
<1>2. [id |-> Head(inbox), last |-> Never] \in Entries
  BY <1>1 DEF Entries, Instants
<1>3. /\ Len(list') = Len(list) + 1 /\ Len(list) \in Nat
      /\ \A k \in 1 .. Len(list) : list'[k] = list[k]
      /\ list'[Len(list) + 1].id = inbox[1]
  BY <1>1, <1>2, AppendedLast DEF TypeInv, TypeOK, Receive
<1>4. inbox' = Tail(inbox) /\ stored' = stored /\ disk' = disk /\ added' = added
  BY DEF Receive, database
<1>5. \A i, k \in 1 .. Len(inbox') : inbox'[i] = inbox'[k] => i = k
  <2>1. \A k \in 1 .. Len(inbox') : k + 1 \in 1 .. Len(inbox) /\ inbox'[k] = inbox[k + 1]
    BY <1>1, <1>4
  <2>2. QED
    BY <1>1, <1>4, <2>1 DEF Once
<1>6. \A k \in 1 .. Len(list) : list[k].id # inbox[1]
  <2>1. Waiting(inbox[1]) /\ inbox[1] \in Jobs
    BY <1>1 DEF Waiting
  <2>2. ~Listed(inbox[1])
    BY <2>1 DEF Once
  <2>3. QED
    BY <2>2 DEF Listed
<1>7. \A i, k \in 1 .. Len(list') : list'[i].id = list'[k].id => i = k
  <2>1. \A k \in 1 .. Len(list') : k \in 1 .. Len(list) \/ k = Len(list) + 1
    BY <1>3
  <2>2. \A k \in 1 .. Len(list) : list'[k].id = list[k].id /\ list'[k].id # inbox[1]
    BY <1>3, <1>6
  <2>3. \A i, k \in 1 .. Len(list) : list'[i].id = list'[k].id => i = k
    BY <2>2 DEF Once
  <2>4. ASSUME NEW i \in 1 .. Len(list'), NEW k \in 1 .. Len(list'), list'[i].id = list'[k].id
        PROVE  i = k
    <3>1. CASE i \in 1 .. Len(list) /\ k \in 1 .. Len(list)
      BY <3>1, <2>3, <2>4
    <3>2. CASE i = Len(list) + 1 \/ k = Len(list) + 1
      BY <3>2, <1>3, <2>1, <2>2, <2>4
    <3>3. QED
      BY <3>1, <3>2, <2>1
  <2>5. QED
    BY <2>4
<1>8. \A j \in Jobs : ~(Listed(j)' /\ Waiting(j)')
  <2>1. \A k \in 1 .. Len(inbox') : inbox'[k] # inbox[1]
    <3>1. \A k \in 1 .. Len(inbox') : k + 1 \in 1 .. Len(inbox) /\ inbox'[k] = inbox[k + 1]
      BY <1>1, <1>4
    <3>2. \A k \in 1 .. Len(inbox') : k + 1 # 1 /\ 1 \in 1 .. Len(inbox)
      BY <1>1
    <3>3. QED
      BY <3>1, <3>2 DEF Once
  <2>2. \A j \in Jobs : Waiting(j)' => Waiting(j) /\ j # inbox[1]
    <3>1. \A k \in 1 .. Len(inbox') : k + 1 \in 1 .. Len(inbox) /\ inbox'[k] = inbox[k + 1]
      BY <1>1, <1>4
    <3>2. QED
      BY <2>1, <3>1 DEF Waiting
  <2>3. \A j \in Jobs : Listed(j)' => Listed(j) \/ j = inbox[1]
    BY <1>3 DEF Listed
  <2>4. QED
    BY <2>2, <2>3 DEF Once
<1>9. \A j \in Jobs : Listed(j)' \/ Waiting(j)' => j \in added
  BY ReceiveKeeps DEF Once
<1>10. QED
  BY <1>4, <1>5, <1>7, <1>8, <1>9 DEF Once

\* Finishing lists no other job; the job itself is off the list, or repeats, or
\* did not succeed.
LEMMA FinishOnce ==
  ASSUME TypeInv, Once, Finish
  PROVE  /\ \A i, k \in 1 .. Len(list') : list'[i].id = list'[k].id => i = k
         /\ \A j \in Jobs : Listed(j)' => Listed(j)
         /\ \A j \in Jobs :
              j = Current => \/ ~Listed(j)' \/ MustRepeat(j)
                             \/ succeeded'[j] = succeeded[j]
<1>1. Len(list) \in Nat /\ scheduled \in 1 .. Len(list) /\ Current = list[scheduled].id
  BY FinishList DEF TypeInv, TypeOK, Current
<1>2. CASE /\ Len(list') = Len(list)
           /\ \A k \in 1 .. Len(list) : list'[k].id = list[k].id
           /\ succeeded'[Current] # succeeded[Current] => MustRepeat(Current)
  BY <1>2 DEF Once, Listed
<1>3. CASE /\ Len(list') = Len(list) - 1
           /\ \A k \in 1 .. Len(list) - 1 :
                list'[k] = IF k < scheduled THEN list[k] ELSE list[k + 1]
  <2> DEFINE old(k) == IF k < scheduled THEN k ELSE k + 1
  <2>1. \A k \in 1 .. Len(list') :
          old(k) \in 1 .. Len(list) /\ old(k) # scheduled /\ list'[k] = list[old(k)]
    BY <1>1, <1>3
  <2>2. \A i, k \in 1 .. Len(list') : old(i) = old(k) => i = k
    BY <1>1, <1>3
  <2> HIDE DEF old
  <2>3. \A i, k \in 1 .. Len(list') : list'[i].id = list'[k].id => i = k
    BY <2>1, <2>2 DEF Once
  <2>4. \A j \in Jobs : Listed(j)' => Listed(j)
    BY <2>1 DEF Listed
  <2>5. \A j \in Jobs : j = Current => ~Listed(j)'
    <3>1. \A k \in 1 .. Len(list') : list[old(k)].id # list[scheduled].id
      BY <1>1, <2>1 DEF Once
    <3>2. \A k \in 1 .. Len(list') : list'[k].id # list[scheduled].id
      BY <2>1, <3>1
    <3>3. QED
      BY <1>1, <3>2 DEF Listed
  <2>6. QED
    BY <2>3, <2>4, <2>5
<1>4. QED
  BY <1>2, <1>3, FinishList
LEMMA FinishDone ==
  ASSUME TypeInv, Once, Finish, NEW j \in Jobs, succeeded'[j] # succeeded[j]
  PROVE  Listed(j) /\ (Listed(j)' => MustRepeat(j))
<1>1. j = Current
  BY DEF TypeInv, TypeOK, Finish, Current
<1>2. Listed(j)
  BY <1>1, FinishList DEF Listed, Current
<1>3. QED
  BY <1>1, <1>2, FinishOnce

LEMMA NextOnce ==
  ASSUME TypeInv, Once, [Next]_vars
  PROVE  Once'
<1>1. ASSUME NEW j \in Jobs, AddJob(j)
      PROVE  Once'
  BY <1>1, AddOnce
<1>2. CASE UNCHANGED <<list, inbox, added>> /\ stored' \subseteq added /\ disk' \subseteq added
  BY <1>2 DEF Once, Listed, Waiting
<1>3. CASE Finish
  <2>1. inbox' = inbox /\ added' = added /\ stored' = stored /\ disk' = disk
    BY <1>3 DEF Finish, database
  <2>2. \A j \in Jobs : (Listed(j)' => Listed(j)) /\ (Waiting(j)' <=> Waiting(j))
    BY <1>3, <2>1, FinishOnce DEF Waiting
  <2>3. \A i, k \in 1 .. Len(list') : list'[i].id = list'[k].id => i = k
    BY <1>3, FinishOnce
  <2>4. QED
    BY <2>1, <2>2, <2>3 DEF Once
<1>4. QED
  <2>1. \/ /\ UNCHANGED <<list, inbox, added>>
           /\ stored' \subseteq stored \cup disk \cup added /\ disk' \subseteq stored \cup disk
        \/ \E j \in Jobs : AddJob(j)
        \/ Restart \/ Receive \/ Finish
    BY DEF Next, JobThread, vars, thread, database, Tick, UpdateJob, RemoveJob,
           ServeRemoval, Save, Start,
           WaitOn, PanicUndescribed, Schedule
  <2>2. stored \cup disk \subseteq added
    BY DEF Once
  <2>3. QED
    BY <1>1, <1>2, <1>3, <2>1, <2>2, RestartOnce, ReceiveOnce

LEMMA NextDoneLeft ==
  ASSUME TypeInv, Once, DoneLeft, [Next]_vars
  PROVE  DoneLeft'
<1>1. ASSUME NEW a \in Jobs, AddJob(a)
      PROVE  DoneLeft'
  <2>1. succeeded' = succeeded /\ added' = added \cup {a} /\ a \notin added
    BY <1>1 DEF AddJob
  <2>2. \A j \in Jobs : Listed(j)' \/ Waiting(j)' => Listed(j) \/ Waiting(j) \/ j = a
    BY <1>1, AddOnce
  <2>3. QED
    BY <2>1, <2>2 DEF DoneLeft
<1>2. CASE UNCHANGED <<list, inbox, added, succeeded>>
  BY <1>2 DEF DoneLeft, Listed, Waiting
<1>3. CASE Restart
  BY <1>3 DEF Restart, DoneLeft
<1>4. CASE Receive
  <2>1. succeeded' = succeeded /\ added' = added
    BY <1>4 DEF Receive, database
  <2>2. \A j \in Jobs : Listed(j)' \/ Waiting(j)' => Listed(j) \/ Waiting(j)
    BY <1>4, ReceiveKeeps
  <2>3. QED
    BY <2>1, <2>2 DEF DoneLeft
<1>5. CASE Finish
  <2>1. inbox' = inbox /\ added' = added
    BY <1>5 DEF Finish, database
  <2>2. \A j \in Jobs : (Listed(j)' => Listed(j)) /\ (Waiting(j)' <=> Waiting(j))
    BY <1>5, <2>1, FinishOnce DEF Waiting
  <2>3. \A j \in Jobs : succeeded'[j] # succeeded[j] =>
          Listed(j) /\ j \in added /\ ~Waiting(j) /\ (Listed(j)' => MustRepeat(j))
    BY <1>5, FinishDone DEF Once
  <2>4. QED
    BY <2>1, <2>2, <2>3 DEF DoneLeft
<1>6. QED
  <2>1. \/ UNCHANGED <<list, inbox, added, succeeded>>
        \/ \E j \in Jobs : AddJob(j)
        \/ Restart \/ Receive \/ Finish
    BY DEF Next, JobThread, vars, thread, database, Tick, UpdateJob, RemoveJob, ServeRemoval,
           Save, Start, WaitOn, PanicUndescribed, Schedule
  <2>2. QED
    BY <1>1, <1>2, <1>3, <1>4, <1>5, <2>1

LEMMA DoneStays ==
  ASSUME TypeInv, Once, DoneLeft, [Next]_vars,
         NEW j \in Jobs, succeeded[j] # Never, ~MustRepeat(j)
  PROVE  succeeded'[j] \in {succeeded[j], Never} /\ ~(Runs /\ Current = j)
<1>1. ~Listed(j)
  BY DEF DoneLeft
<1>2. ~(Runs /\ Current = j)
  <2>1. Runs => Start
    BY DEF Runs, Next, JobThread, vars, thread, Tick, AddJob, UpdateJob, RemoveJob,
           ServeRemoval, Save, Restart, Receive, WaitOn, Finish, PanicUndescribed, Schedule
  <2>2. Start => scheduled \in 1 .. Len(list)
    BY DEF Start, TypeInv, IndexInv
  <2>3. QED
    BY <1>1, <2>1, <2>2 DEF Listed, Current
<1>3. succeeded'[j] \in {succeeded[j], Never}
  <2>1. CASE Finish
    BY <1>1, <2>1, FinishDone
  <2>2. CASE Restart
    BY <2>2 DEF Restart
  <2>3. CASE ~Finish /\ ~Restart
    BY <2>3 DEF Next, JobThread, vars, Tick, AddJob, UpdateJob, RemoveJob, ServeRemoval, Save,
                Receive, Start, WaitOn, PanicUndescribed, Schedule
  <2>4. QED
    BY <2>1, <2>2, <2>3
<1>4. QED
  BY <1>2, <1>3

\* A job that does not repeat succeeds at most once in the life of a process and
\* is not run after that (SucceedsOnce).
THEOREM DoneJobsStayDone == Spec => SucceedsOnce
<1> DEFINE Inv == TypeInv /\ Once /\ DoneLeft
           Step == \A j \in Jobs :
                     succeeded[j] # Never /\ ~MustRepeat(j)
                       => succeeded'[j] \in {succeeded[j], Never} /\ ~(Runs /\ Current = j)
<1>1. Init => Inv
  BY InitType DEF Init, Once, DoneLeft, Listed, Waiting
<1>2. Inv /\ [Next]_vars => Inv'
  BY NextType, NextOnce, NextDoneLeft
<1>3. Inv /\ [Next]_vars => [Step]_vars
  BY DoneStays
<1>4. QED
  BY <1>1, <1>2, <1>3, PTL DEF Spec, SucceedsOnce

-----------------------------------------------------------------------------
(* The deadline.  Schedule takes the first of the times at which the jobs    *)
(* are due; while the thread waits these times only move on, because the     *)
(* clock does, and the list does not change.                                 *)

\* Dividing rounds down, and keeps the order.
LEMMA DivisionRounds ==
  ASSUME NEW p \in Nat \ {0}, NEW a \in Nat, NEW b \in Nat, a <= b
  PROVE  /\ a \div p \in Nat /\ b \div p \in Nat
         /\ a \div p <= b \div p
         /\ p * (a \div p) <= a /\ a = p * (a \div p) + (a % p)
<1> DEFINE qa == a \div p
           qb == b \div p
<1>1. /\ qa \in Nat /\ qb \in Nat
      /\ a % p \in 0 .. p - 1 /\ b % p \in 0 .. p - 1
      /\ a = p * qa + (a % p) /\ b = p * qb + (b % p)
  OBVIOUS
<1>2. ASSUME qb < qa PROVE FALSE
  <2>1. qb + 1 <= qa
    BY <1>1, <1>2
  <2>2. p * (qb + 1) <= p * qa
    BY <1>1, <2>1
  <2>3. p * (qb + 1) = p * qb + p
    BY <1>1
  <2>4. p * qa \in Int /\ p * qb \in Int
    BY <1>1
  <2> HIDE DEF qa, qb
  <2>5. QED
    BY <1>1, <2>2, <2>3, <2>4
<1>3. QED
  BY <1>1, <1>2

\* Midnight moves on by whole days.
LEMMA MidnightMoves ==
  ASSUME NEW t \in Nat, NEW u \in Nat, t <= u
  PROVE  /\ Midnight(t) \in Int /\ Midnight(u) \in Int
         /\ Midnight(t) = Midnight(u) \/ Midnight(t) + Day <= Midnight(u)
<1> DEFINE qt == t \div Day
           qu == u \div Day
<1>1. Day \in Nat \ {0}
  BY JobSchedulerAssumption
<1>2. /\ qt \in Nat /\ qu \in Nat /\ qt <= qu
      /\ t = Day * qt + (t % Day) /\ u = Day * qu + (u % Day)
      /\ t % Day \in Int /\ u % Day \in Int
  BY <1>1, DivisionRounds
<1> HIDE DEF qt, qu
<1>3. Day * qt \in Int /\ Day * qu \in Int
  BY <1>1, <1>2
<1>4. Midnight(t) = Day * qt /\ Midnight(u) = Day * qu
  BY <1>2, <1>3 DEF Midnight
<1>5. CASE qt = qu
  BY <1>3, <1>4, <1>5
<1>6. CASE qt # qu
  <2>1. qt + 1 <= qu
    BY <1>2, <1>6
  <2>2. Day * (qt + 1) <= Day * qu
    BY <1>1, <1>2, <2>1
  <2>3. Day * (qt + 1) = Day * qt + Day
    BY <1>1, <1>2
  <2>4. QED
    BY <1>1, <1>3, <1>4, <2>2, <2>3
<1>7. QED
  BY <1>5, <1>6

LEMMA IntervalGrows ==
  ASSUME NEW job \in JobRecords, job.period > 0, NEW t \in Nat, NEW u \in Nat, t <= u
  PROVE  NextInterval(job, t) <= NextInterval(job, u)
<1> DEFINE p == job.period
<1>1. p \in Nat \ {0} /\ job.time \in Nat
  BY DEF JobRecords
<1>2. CASE u < job.time
  BY <1>1, <1>2 DEF NextInterval
<1>3. CASE job.time <= u
  <2> DEFINE b == u - job.time
             qb == b \div p
  <2>1. b \in Nat
    BY <1>1, <1>3
  <2>2. qb \in Nat
    BY <1>1, <2>1, DivisionRounds
  <2>3. NextInterval(job, u) = job.time + qb * p
    BY <1>1, <1>3 DEF NextInterval
  <2>4. CASE t < job.time
    <3>1. NextInterval(job, t) = job.time
      BY <2>4 DEF NextInterval
    <3> HIDE DEF qb
    <3>2. qb * p \in Int /\ qb * p >= 0
      BY <1>1, <2>2
    <3>3. QED
      BY <1>1, <2>3, <3>1, <3>2
  <2>5. CASE job.time <= t
    <3> DEFINE a == t - job.time
               qa == a \div p
    <3>1. a \in Nat /\ a <= b
      BY <1>1, <2>5
    <3>2. qa \in Nat /\ qa <= qb
      BY <1>1, <2>1, <3>1, DivisionRounds
    <3>3. NextInterval(job, t) = job.time + qa * p
      BY <1>1, <2>5 DEF NextInterval
    <3> HIDE DEF qa, qb
    <3>4. qa * p \in Int /\ qb * p \in Int /\ qa * p <= qb * p
      BY <1>1, <2>2, <3>2
    <3>5. QED
      BY <1>1, <2>3, <3>3, <3>4
  <2>6. QED
    BY <1>1, <2>4, <2>5
<1>4. QED
  BY <1>1, <1>2, <1>3

LEMMA TimeOfDayGrows ==
  ASSUME NEW job \in JobRecords, NEW last \in Int, NEW t \in Nat, NEW u \in Nat, t <= u
  PROVE  NextOfDay(job, last, t) <= NextOfDay(job, last, u)
<1>1. job.period \in Nat /\ Day \in Nat
  BY JobSchedulerAssumption DEF JobRecords
<1>2. QED
  BY <1>1, MidnightMoves DEF NextOfDay

\* A job that is not waiting for a quiet hour is due no earlier later on,
\* whatever the heat map gives.
LEMMA DueGrows ==
  ASSUME NEW e \in Entries, ~Unschedulable(e), Job[e.id].timing # "drought",
         NEW t \in Nat, NEW u \in Nat, t <= u, NEW slot \in Slots
  PROVE  /\ Due(e, t, slot) = Due(e, t, 0) /\ Due(e, t, 0) \in Int
         /\ Due(e, t, 0) <= Due(e, u, 0)
<1> DEFINE job == Job[e.id]
<1>1. /\ job \in JobRecords /\ job.time \in Nat /\ job.period \in Nat
      /\ job.timing \in {"asap", "ontime"}
      /\ AsapDelay \in Nat /\ e.last \in Int
  BY JobSchedulerAssumption, JobTyped DEF Entries, JobRecords, Instants, Never
<1>2. Due(e, t, slot) = Due(e, t, 0)
  BY DEF Due
<1>3. Due(e, t, 0) \in Int
  BY <1>2, DueTyped
<1>4. CASE job.timing = "asap"
  BY <1>1, <1>4 DEF Due
<1>5. CASE job.timing = "ontime" /\ e.last = Never
  BY <1>1, <1>5 DEF Due
<1>6. CASE job.timing = "ontime" /\ e.last # Never /\ job.repeat = "interval"
  <2>1. job.period > 0
    BY <1>1, <1>6 DEF Unschedulable
  <2>2. Due(e, t, 0) = NextInterval(job, t) /\ Due(e, u, 0) = NextInterval(job, u)
    BY <1>6 DEF Due
  <2>3. QED
    BY <1>1, <1>2, <1>3, <2>1, <2>2, IntervalGrows
<1>7. CASE job.timing = "ontime" /\ e.last # Never /\ job.repeat # "interval"
  <2>1. Due(e, t, 0) = NextOfDay(job, e.last, t) /\ Due(e, u, 0) = NextOfDay(job, e.last, u)
    BY <1>7 DEF Due
  <2>2. QED
    BY <1>1, <1>2, <1>3, <2>1, TimeOfDayGrows
<1>8. QED
  BY <1>1, <1>2, <1>3, <1>4, <1>5, <1>6, <1>7

\* Whole seconds cut less than a second off the wait.
LEMMA WakeUpLate ==
  ASSUME NEW t \in Nat, NEW due \in Int
  PROVE  due <= WakeUp(t, due) + 2
<1> DEFINE seconds == (due - t - 1) \div 2
<1>1. seconds \in Int /\ 2 * seconds <= due - t - 1 /\ due - t - 1 <= 2 * seconds + 1
  OBVIOUS
<1> HIDE DEF seconds
<1>2. WakeUp(t, due) = IF due > t /\ seconds > 0 THEN t + 2 * seconds ELSE t + 1
  BY DEF WakeUp, seconds
<1>3. QED
  BY <1>1, <1>2

Since(entry) == IF entry.last = Never THEN 0 ELSE entry.last

Past == \A i \in 1 .. Len(list) : list[i].last <= now

Planned ==
  phase = "waiting" =>
    /\ \A i \in 1 .. Len(list) : ~Unschedulable(list[i])
    /\ \A i \in 1 .. Len(list) :
         Job[list[i].id].timing # "drought" => deadline <= Due(list[i], now, 0)
    /\ scheduled # 0 /\ Job[Current].timing = "ontime"
         => Due(list[scheduled], Since(list[scheduled]), 0) <= deadline
    /\ deadline <= wake + 2

LEMMA NextPast ==
  ASSUME TypeInv, Past, [Next]_vars
  PROVE  Past'
<1>1. now \in Nat /\ now' \in Nat /\ now <= now' /\ Len(list) \in Nat
  <2>1. now' = now \/ now' = now + 1
    BY DEF Next, JobThread, vars, Tick, AddJob, UpdateJob, RemoveJob, ServeRemoval, Save, Restart,
           Receive, Start, WaitOn, PanicUndescribed, Finish, Schedule
  <2>2. QED
    BY <2>1 DEF TypeInv, TypeOK
<1>2. \A k \in 1 .. Len(list) : list[k].last \in Int
  <2>1. \A k \in 1 .. Len(list) : list[k] \in Entries
    BY DEF TypeInv, TypeOK
  <2>2. QED
    BY <2>1 DEF Entries, Instants, Never
<1>3. CASE list' = list
  BY <1>1, <1>2, <1>3 DEF Past
<1>4. CASE Restart
  BY <1>4 DEF Restart, Past
<1>5. CASE Receive
  <2>1. Head(inbox) \in Jobs
    BY <1>5, HeadTailProperties DEF TypeInv, TypeOK, Receive
  <2>2. [id |-> Head(inbox), last |-> Never] \in Entries
    BY <2>1 DEF Entries, Instants
  <2>3. /\ Len(list') = Len(list) + 1
        /\ \A k \in 1 .. Len(list) : list'[k] = list[k]
        /\ list'[Len(list) + 1].last = Never
    BY <1>5, <2>2, AppendedLast DEF TypeInv, TypeOK, Receive
  <2>4. \A k \in 1 .. Len(list') : k \in 1 .. Len(list) \/ k = Len(list) + 1
    BY <1>1, <2>3
  <2>5. QED
    BY <1>1, <1>2, <2>3, <2>4 DEF Past, Never
<1>6. CASE Finish
  <2>1. ASSUME Len(list') = Len(list),
               \A k \in 1 .. Len(list) : list'[k].last \in {list[k].last, now}
        PROVE  Past'
    BY <1>1, <1>2, <2>1 DEF Past
  <2>2. ASSUME Len(list') = Len(list) - 1,
               \A k \in 1 .. Len(list) - 1 :
                 list'[k] = IF k < scheduled THEN list[k] ELSE list[k + 1]
        PROVE  Past'
    <3>1. \A k \in 1 .. Len(list') : \E i \in 1 .. Len(list) : list'[k] = list[i]
      BY <1>1, <2>2
    <3>2. QED
      BY <1>1, <1>2, <3>1 DEF Past
  <2>3. QED
    BY <1>6, <2>1, <2>2, FinishList
<1>7. QED
  <2>1. list' = list \/ Restart \/ Receive \/ Finish
    BY DEF Next, JobThread, vars, thread, Tick, AddJob, UpdateJob, RemoveJob, ServeRemoval, Save,
           Start, WaitOn, PanicUndescribed, Schedule
  <2>2. QED
    BY <1>3, <1>4, <1>5, <1>6, <2>1

\* A list without jobs needs no plan.
LEMMA NothingPlanned ==
  ASSUME TypeInv, list' = <<>>, scheduled' = 0, deadline' = now + Day,
         wake' = WakeUp(now, now + Day)
  PROVE  Planned'
<1>1. now \in Nat /\ Day \in Nat
  BY JobSchedulerAssumption DEF TypeInv, TypeOK
<1>2. deadline' <= wake' + 2
  BY <1>1, WakeUpLate
<1>3. Len(list') = 0
  OBVIOUS
<1>4. QED
  BY <1>2, <1>3 DEF Planned

\* The job chosen is due first.
LEMMA SchedulePlans ==
  ASSUME TypeInv, Past, Schedule
  PROVE  Planned'
<1>1. /\ now' = now /\ list' = list /\ now \in Nat /\ Len(list) \in Nat
      /\ DOMAIN list = 1 .. Len(list)
      /\ \A i \in 1 .. Len(list) : list[i] \in Entries
  BY DEF Schedule, TypeInv, TypeOK
<1>2. CASE phase' = "dead"
  BY <1>2 DEF Planned
<1>3. CASE list = <<>> /\ scheduled' = 0 /\ deadline' = now + Day
           /\ wake' = WakeUp(now, now + Day)
  BY <1>1, <1>3, NothingPlanned
<1>4. CASE /\ \A i \in DOMAIN list : ~Unschedulable(list[i])
           /\ \E slot \in Slots :
                LET due == [i \in DOMAIN list |-> Due(list[i], now, slot)]
                IN  /\ scheduled' \in Soonest(due, scheduled)
                    /\ deadline' = due[scheduled']
                    /\ wake' = WakeUp(now, deadline')
  <2>1. PICK slot \in Slots :
          /\ scheduled' \in Soonest([i \in DOMAIN list |-> Due(list[i], now, slot)], scheduled)
          /\ deadline' = [i \in DOMAIN list |-> Due(list[i], now, slot)][scheduled']
          /\ wake' = WakeUp(now, deadline')
    BY <1>4
  <2>2. /\ scheduled' \in 1 .. Len(list)
        /\ deadline' = Due(list[scheduled'], now, slot)
        /\ \A k \in 1 .. Len(list) : deadline' <= Due(list[k], now, slot)
    BY <1>1, <2>1 DEF Soonest
  <2>3. \A i \in 1 .. Len(list) : ~Unschedulable(list[i])
    BY <1>1, <1>4
  <2>4. ASSUME NEW i \in 1 .. Len(list), Job[list[i].id].timing # "drought"
        PROVE  deadline' <= Due(list[i], now, 0)
    BY <1>1, <2>2, <2>3, <2>4, DueGrows
  <2>5. deadline' <= wake' + 2
    <3>1. deadline' \in Int
      BY <1>1, <2>2, <2>3, DueTyped
    <3>2. QED
      BY <1>1, <2>1, <3>1, WakeUpLate
  <2>6. ASSUME Job[list[scheduled'].id].timing = "ontime"
        PROVE  Due(list[scheduled'], Since(list[scheduled']), 0) <= deadline'
    <3> DEFINE e == list[scheduled']
    <3>1. e \in Entries /\ ~Unschedulable(e) /\ e.last \in Instants /\ e.last <= now
      BY <1>1, <2>2, <2>3 DEF Past, Entries
    <3>2. Since(e) \in Nat /\ Since(e) <= now
      BY <1>1, <3>1 DEF Since, Instants
    <3>3. Due(e, now, slot) = Due(e, now, 0) /\ Due(e, Since(e), 0) <= Due(e, now, 0)
      BY <1>1, <2>6, <3>1, <3>2, DueGrows
    <3>4. QED
      BY <2>2, <3>3
  <2>7. QED
    BY <1>1, <2>2, <2>3, <2>4, <2>5, <2>6 DEF Planned, Current
<1>5. QED
  BY <1>2, <1>3, <1>4 DEF Schedule

LEMMA TickPlanned ==
  ASSUME TypeInv, Planned, Tick
  PROVE  Planned'
<1>1. /\ now \in Nat /\ now' = now + 1 /\ UNCHANGED <<list, scheduled, deadline, wake, phase>>
      /\ \A i \in 1 .. Len(list) : list[i] \in Entries
      /\ deadline \in Int
  BY DEF Tick, thread, TypeInv, TypeOK
<1>2. ASSUME phase = "waiting", NEW i \in 1 .. Len(list), Job[list[i].id].timing # "drought"
      PROVE  deadline <= Due(list[i], now + 1, 0)
  <2>1. ~Unschedulable(list[i]) /\ deadline <= Due(list[i], now, 0)
    BY <1>2 DEF Planned
  <2>2. PICK slot \in Slots : TRUE
    BY JobSchedulerAssumption
  <2>3. /\ Due(list[i], now, 0) \in Int /\ Due(list[i], now + 1, 0) \in Int
        /\ Due(list[i], now, 0) <= Due(list[i], now + 1, 0)
    BY <1>1, <1>2, <2>1, <2>2, DueGrows
  <2>4. QED
    BY <1>1, <2>1, <2>3
<1>3. QED
  BY <1>1, <1>2 DEF Planned, Current

LEMMA NextPlanned ==
  ASSUME TypeInv, Past, Planned, [Next]_vars
  PROVE  Planned'
<1>1. CASE UNCHANGED <<now, thread>>
  BY <1>1 DEF Planned, Current, thread
<1>2. CASE Restart
  BY <1>2, NothingPlanned DEF Restart
<1>3. CASE WaitOn
  <2>1. list = <<>> /\ scheduled = 0
    BY <1>3 DEF WaitOn, TimedOut, TypeInv, IndexInv
  <2>2. QED
    BY <1>3, <2>1, NothingPlanned DEF WaitOn
<1>4. CASE Receive \/ Start \/ Finish \/ PanicUndescribed
  BY <1>4 DEF Receive, Start, Finish, PanicUndescribed, Planned
<1>5. QED
  <2>1. UNCHANGED <<now, thread>> \/ Tick \/ Restart \/ JobThread
    BY DEF Next, vars, AddJob, UpdateJob, RemoveJob, ServeRemoval, Save
  <2>2. QED
    BY <1>1, <1>2, <1>3, <1>4, <2>1, SchedulePlans, TickPlanned DEF JobThread

LEMMA PlanInvariant == Spec => [](TypeInv /\ Past /\ Planned)
<1>1. Init => Past /\ Planned
  <2> SUFFICES ASSUME Init PROVE Past /\ Planned
    OBVIOUS
  <2>1. Day \in Nat /\ Len(list) = 0
    BY JobSchedulerAssumption DEF Init
  <2>2. deadline <= wake + 2
    BY <2>1, WakeUpLate DEF Init
  <2>3. QED
    BY <2>1, <2>2 DEF Init, Past, Planned
<1>2. TypeInv /\ Past /\ Planned /\ [Next]_vars => (TypeInv /\ Past /\ Planned)'
  BY NextType, NextPast, NextPlanned
<1>3. QED
  BY <1>1, <1>2, InitType, PTL DEF Spec

\* While the thread waits, its deadline is no later than any of its jobs' own
\* (DeadlineIsFirst): no job received, kept or left by a removal is overlooked.
THEOREM NoJobIsOverlooked == Spec => []DeadlineIsFirst
<1>1. TypeInv /\ Past /\ Planned => DeadlineIsFirst
  BY DEF TypeInv, TypeOK, Planned, DeadlineIsFirst
<1>2. QED
  BY <1>1, PlanInvariant, PTL

LEMMA RunOnTime ==
  ASSUME TypeInv, Past, Planned, [Next]_vars, Runs, Job[Current].timing = "ontime"
  PROVE  LET job == Job[Current]
             last == list[scheduled].last
         IN  /\ last = Never => now + 2 >= job.time
             /\ last # Never /\ job.repeat = "everyday"
                  => now + 2 >= NextOfDay(job, last, last)
<1> DEFINE e == list[scheduled]
<1>1. Start
  BY DEF Runs, Next, JobThread, vars, thread, Tick, AddJob, UpdateJob, RemoveJob,
         ServeRemoval, Save, Restart, Receive, WaitOn, Finish, PanicUndescribed, Schedule
<1>2. /\ phase = "waiting" /\ now >= wake /\ scheduled # 0 /\ scheduled \in 1 .. Len(list)
      /\ wake \in Int /\ deadline \in Int /\ now \in Nat
  BY <1>1 DEF Start, TimedOut, TypeInv, TypeOK, IndexInv
<1>3. e \in Entries /\ e.last \in Instants /\ ~Unschedulable(e)
  <2>1. e \in Entries
    BY <1>2 DEF TypeInv, TypeOK
  <2>2. ~Unschedulable(e)
    BY <1>2 DEF Planned
  <2>3. QED
    BY <2>1, <2>2 DEF Entries
<1>4. Since(e) \in Nat
  BY <1>3 DEF Since, Instants
<1>5. Due(e, Since(e), 0) <= deadline /\ deadline <= wake + 2
  BY <1>2 DEF Planned
<1>6. Due(e, Since(e), 0) \in Int
  <2>1. PICK slot \in Slots : TRUE
    BY JobSchedulerAssumption
  <2>2. Job[e.id].timing # "drought"
    BY DEF Current
  <2>3. QED
    BY <1>3, <1>4, <2>1, <2>2, DueGrows
<1>7. /\ e.last = Never => Due(e, Since(e), 0) = Job[e.id].time
      /\ e.last # Never /\ Job[e.id].repeat = "everyday"
           => Due(e, Since(e), 0) = NextOfDay(Job[e.id], e.last, e.last)
  BY DEF Due, Since, Current
<1>8. now + 2 >= Due(e, Since(e), 0)
  <2> HIDE DEF e
  <2>1. QED
    BY <1>2, <1>5, <1>6
<1>9. QED
  BY <1>7, <1>8 DEF Current

\* A job is not run for the first time more than a second before the time it
\* names, nor one of every day more than a second before the first of its times
\* of day after its last run (NeverEarly).
THEOREM JobsRunOnTime == Spec => NeverEarly
<1> DEFINE Inv == TypeInv /\ Past /\ Planned
           Step == Runs /\ Job[Current].timing = "ontime" =>
                     LET job == Job[Current]
                         last == list[scheduled].last
                     IN  /\ last = Never => now + 2 >= job.time
                         /\ last # Never /\ job.repeat = "everyday"
                              => now + 2 >= NextOfDay(job, last, last)
<1>1. Inv /\ [Next]_vars => [Step]_vars
  BY RunOnTime
<1>2. QED
  BY <1>1, PlanInvariant, PTL DEF Spec, NeverEarly
=============================================================================
