---------------------------- MODULE JobScheduler ----------------------------
(***************************************************************************)
(* The job thread of src/src/database/jobs.rs and the part of the database *)
(* it works with: the stored jobs, the channel on which handle_add_request *)
(* forwards new ones, the removals the thread asks for, saves and restarts.*)
(*                                                                         *)
(* The thread keeps a list of its own, the index of the job it will run    *)
(* next and a deadline; it waits on its channel until the deadline, then   *)
(* runs that job.  After each job received or run it asks the database for *)
(* the user's statistics and chooses again (schedule_job).                 *)
(*                                                                         *)
(* Time is in ticks of half a second.  An instant read from the clock lies *)
(* strictly inside its tick; a time that a job names is the start of one.  *)
(* What a job does (notifications, titles, callbacks) is its outcome only. *)
(* The database is alive: its own death is the subject of module Database. *)
(***************************************************************************)
EXTENDS Integers, Sequences, SequencesExt, FiniteSets

CONSTANTS
  Jobs,         \* job ids; a job is added once
  Job,          \* what each job is
  Edited,       \* bound: the jobs that clients and the jobs tool update or remove
  Slots,        \* the times of day that the heat map of the user may give
  Day,          \* a day
  AsapDelay,    \* 3 s
  MaxTime,      \* bound: the clock stops there
  MaxRestarts   \* bound: restarts of the process

Never == -1
Instants == Nat \cup {Never}
JobRecords == [timing : {"asap", "drought", "ontime"}, time : Nat,
               repeat : {"no", "interval", "everyday"}, period : Nat,
               type : {"reminder", "title", "tag", "callback", "evolving"},
               described : BOOLEAN]

ASSUME JobSchedulerAssumption ==
  /\ IsFiniteSet(Jobs) /\ Job \in [Jobs -> JobRecords] /\ Edited \subseteq Jobs
  /\ Day \in Nat \ {0} /\ AsapDelay \in Nat
  /\ Slots # {} /\ Slots \subseteq 0 .. Day - 1
  /\ MaxTime \in Nat /\ MaxRestarts \in Nat

VARIABLES
  now,        \* the clock
  stored,     \* the jobs in the database
  disk,       \* the jobs in the last saved database
  revived,    \* history: the jobs a client's late update put back in the database
  added,      \* the jobs that were ever added
  inbox,      \* the thread's channel
  list,       \* the thread's jobs, each with the instant of its last_executed
  scheduled,  \* index of the job to run next, 0 for None
  deadline,   \* when it is due
  wake,       \* when recv_timeout gives up waiting
  removing,   \* removals the thread asked for that are not served yet
  phase,      \* what the thread is doing
  succeeded,  \* history: when each job last succeeded in this process
  restarts

database == <<stored, disk, revived, added, restarts>>
thread == <<list, scheduled, deadline, wake, phase>>
vars == <<now, database, inbox, thread, removing, succeeded>>

Entries == [id : Jobs, last : Instants]

-----------------------------------------------------------------------------
(* When a job is due *)

Midnight(t) == t - (t % Day)

\* RegularInterval: the number of intervals elapsed, rounded down.
NextInterval(job, t) ==
  IF t < job.time THEN job.time
  ELSE job.time + ((t - job.time) \div job.period) * job.period

\* RegularTimeOfDay: today, or tomorrow when it ran after that time today.
NextOfDay(job, last, t) ==
  LET today == Midnight(t) + job.period
  IN  IF today <= last THEN today + Day ELSE today

\* Job::schedule, at instant t, when the heat map gives slot.
Due(entry, t, slot) ==
  LET job == Job[entry.id]
  IN  CASE job.timing = "asap" -> t + AsapDelay
        [] job.timing = "drought" -> Midnight(t) + slot
        [] job.timing = "ontime" /\ entry.last = Never -> job.time
        [] job.timing = "ontime" /\ entry.last # Never /\ job.repeat = "interval"
             -> NextInterval(job, t)
        [] OTHER -> NextOfDay(job, entry.last, t)

\* Job::schedule panics on a job that was done and does not repeat, and on one
\* that was done and repeats at intervals of zero, by which it divides: the jobs
\* tool and the clients may give such an interval.
Unschedulable(entry) ==
  LET job == Job[entry.id]
  IN  /\ job.timing = "ontime" /\ entry.last # Never
      /\ job.repeat = "no" \/ (job.repeat = "interval" /\ job.period = 0)

SoonestKept(due, old) ==   \* mutant
  IF old # 0 THEN {old} ELSE {1}

\* The loop of schedule_job starts from the job scheduled before and moves to
\* a job that is due no later.  Each ASAP job is due later than the ASAP jobs
\* looked at before it, the clock having moved on.
Soonest(due, old) ==
  LET first == {i \in DOMAIN due : \A k \in DOMAIN due : due[i] <= due[k]}
      asap == {i \in first : Job[list[i].id].timing = "asap"}
  IN  {i \in first :
         \/ asap = {} /\ \A k \in first : k <= i
         \/ asap = first /\ IF old \in first THEN i = old ELSE \A k \in first : i <= k
         \/ asap \notin {first, {}}}

WakeUpHalf(t, due) ==   \* mutant
  LET seconds == (due - t - 1) \div 2
  IN  IF due > t /\ seconds > 0 THEN t + seconds ELSE t + 1

\* get_timeout_from_deadline: whole seconds, at least 500 ms.
WakeUp(t, due) ==
  LET seconds == (due - t - 1) \div 2
  IN  IF due > t /\ seconds > 0 THEN t + 2 * seconds ELSE t + 1

\* JobRepeat::must_repeat
MustRepeat(j) == Job[j].repeat # "no"

SuccessAgain(again, stamped) ==   \* mutant
  [ok |-> TRUE, again |-> TRUE, stamped |-> stamped]

\* Job::execute: how it can end, whether the job is kept, whether its
\* last_executed is set.
Success(again, stamped) == [ok |-> TRUE, again |-> again, stamped |-> stamped]
Failure(again) == [ok |-> FALSE, again |-> again, stamped |-> FALSE]

Outcomes(j) ==
  CASE Job[j].type = "reminder" -> {Success(MustRepeat(j), TRUE), Failure(TRUE)}
    [] Job[j].type = "title" -> {Success(FALSE, TRUE), Failure(TRUE)}
    [] Job[j].type = "tag" -> {Success(FALSE, TRUE), Failure(TRUE), Failure(FALSE)}
    [] Job[j].type = "callback" /\ Job[j].described
         -> {Success(MustRepeat(j), FALSE), Failure(MustRepeat(j))}
    [] Job[j].type = "callback" /\ ~Job[j].described -> {Failure(MustRepeat(j))}
    [] Job[j].type = "evolving" -> {Failure(FALSE)}

-----------------------------------------------------------------------------
Init ==
  /\ now = 0
  /\ stored = {} /\ disk = {} /\ revived = {} /\ added = {} /\ restarts = 0
  /\ inbox = <<>>
  /\ list = <<>> /\ scheduled = 0 /\ phase = "waiting"
  /\ deadline = Day /\ wake = WakeUp(0, Day)
  /\ removing = {}
  /\ succeeded = [j \in Jobs |-> Never]

Tick ==
  /\ now < MaxTime
  /\ now' = now + 1
  /\ UNCHANGED <<database, inbox, thread, removing, succeeded>>

\* A client or a tool adds job j: stored, then forwarded.  Once the job thread
\* has panicked the forwarding would panic the database thread.
AddJob(j) ==
  /\ j \notin added /\ phase # "dead"
  /\ stored' = stored \cup {j}
  /\ added' = added \cup {j}
  /\ inbox' = Append(inbox, j)
  /\ UNCHANGED <<now, disk, revived, restarts, thread, removing, succeeded>>

\* A client sends job j back, changed: update_job inserts it, whether or not it
\* was removed in the meantime, and the job thread is not told.  What the update
\* changes is left out: the thread runs the record it was sent, until a restart.
UpdateJob(j) ==
  /\ j \in added \cap Edited
  /\ stored' = stored \cup {j}
  /\ revived' = IF j \in stored THEN revived ELSE revived \cup {j}
  /\ UNCHANGED <<now, disk, added, restarts, inbox, thread, removing, succeeded>>

\* A client or the jobs tool removes job j: the job thread is not told.
RemoveJob(j) ==
  /\ j \in stored \cap Edited
  /\ stored' = stored \ {j} /\ revived' = revived \ {j}
  /\ UNCHANGED <<now, disk, added, restarts, inbox, thread, removing, succeeded>>

\* The database serves a removal that the job thread asked for.
ServeRemoval(j) ==
  /\ j \in removing
  /\ removing' = removing \ {j}
  /\ stored' = stored \ {j} /\ revived' = revived \ {j}
  /\ UNCHANGED <<now, disk, added, restarts, inbox, thread, succeeded>>

Save ==
  /\ disk' = stored
  /\ UNCHANGED <<now, stored, revived, added, restarts, inbox, thread, removing, succeeded>>

\* The sequences that hold each member of S exactly once.
Orders(S) ==
  LET D == 1 .. Cardinality(S)
  IN  {s \in [D -> S] : \A j \in S : \E i \in D : \A k \in D : s[k] = j <=> k = i}

\* A new process: the database thread forwards the jobs it loaded, in the order
\* of a hash map, to a new job thread.  No last_executed was ever saved.
Restart ==
  /\ restarts < MaxRestarts
  /\ restarts' = restarts + 1
  /\ stored' = disk /\ revived' = {}
  /\ inbox' \in Orders(disk)
  /\ list' = <<>> /\ scheduled' = 0 /\ phase' = "waiting"
  /\ deadline' = now + Day /\ wake' = WakeUp(now, now + Day)
  /\ removing' = {}
  /\ succeeded' = [j \in Jobs |-> Never]
  /\ UNCHANGED <<now, disk, added>>

-----------------------------------------------------------------------------
(* The job thread *)

Receive ==
  /\ phase = "waiting" /\ inbox # <<>>
  /\ list' = Append(list, [id |-> Head(inbox), last |-> Never])
  /\ inbox' = Tail(inbox)
  /\ phase' = "scheduling"
  /\ UNCHANGED <<now, database, scheduled, deadline, wake, removing, succeeded>>

TimedOut == phase = "waiting" /\ inbox = <<>> /\ now >= wake

Start ==
  /\ TimedOut /\ scheduled # 0
  /\ phase' = "executing"
  /\ UNCHANGED <<now, database, inbox, list, scheduled, deadline, wake, removing, succeeded>>

WaitOn ==
  /\ TimedOut /\ scheduled = 0
  /\ deadline' = now + Day
  /\ wake' = WakeUp(now, now + Day)
  /\ UNCHANGED <<now, database, inbox, list, scheduled, phase, removing, succeeded>>

IndexKept(i) == i   \* mutant
NothingAsked(j) == removing   \* mutant

\* A job that is not to run again is removed from the list, which leaves no job
\* scheduled, and from the database by a request nobody waits for.
IndexAfterRemoval(i) == 0
AskRemoval(j) == removing \cup {j}

Finish ==
  /\ phase = "executing"
  /\ phase' = "scheduling"
  /\ LET j == list[scheduled].id
     IN  \E outcome \in Outcomes(j) :
           /\ succeeded' = IF outcome.ok THEN [succeeded EXCEPT ![j] = now]
                                         ELSE succeeded
           /\ \/ /\ outcome.again
                 /\ list' = IF outcome.stamped
                            THEN [list EXCEPT ![scheduled].last = now] ELSE list
                 /\ UNCHANGED <<scheduled, removing>>
              \/ /\ ~outcome.again
                 /\ list' = RemoveAt(list, scheduled)
                 /\ scheduled' = IndexAfterRemoval(scheduled)
                 /\ removing' = AskRemoval(j)
  /\ UNCHANGED <<now, database, inbox, deadline, wake>>

\* The text of a callback is its description, which a client may leave out: with
\* none, the unwrap of Job::execute ends the thread.
PanicUndescribed ==
  /\ phase = "executing"
  /\ Job[list[scheduled].id].type = "callback" /\ ~Job[list[scheduled].id].described
  /\ phase' = "dead"
  /\ UNCHANGED <<now, database, inbox, list, scheduled, deadline, wake, removing, succeeded>>

\* schedule_job.  Its request to the database follows the removal on the same
\* channel, so the removal has been served when the reply comes.
Schedule ==
  /\ phase = "scheduling" /\ removing = {}
  /\ UNCHANGED <<now, database, inbox, list, removing, succeeded>>
  /\ \/ /\ \E i \in DOMAIN list : Unschedulable(list[i])
        /\ phase' = "dead"
        /\ UNCHANGED <<scheduled, deadline, wake>>
     \/ /\ list = <<>>
        /\ phase' = "waiting" /\ scheduled' = 0
        /\ deadline' = now + Day /\ wake' = WakeUp(now, now + Day)
     \/ /\ list # <<>> /\ \A i \in DOMAIN list : ~Unschedulable(list[i])
        /\ phase' = "waiting"
        /\ \E slot \in Slots :
             LET due == [i \in DOMAIN list |-> Due(list[i], now, slot)]
             IN  /\ scheduled' \in Soonest(due, scheduled)
                 /\ deadline' = due[scheduled']
                 /\ wake' = WakeUp(now, deadline')

JobThread == Receive \/ Start \/ WaitOn \/ Finish \/ PanicUndescribed \/ Schedule

Next ==
  \/ Tick
  \/ \E j \in Jobs : AddJob(j) \/ UpdateJob(j) \/ RemoveJob(j) \/ ServeRemoval(j)
  \/ Save \/ Restart
  \/ JobThread

Spec == Init /\ [][Next]_vars

-----------------------------------------------------------------------------
(* Properties *)

Runs == phase # "executing" /\ phase' = "executing"
Current == list[scheduled].id

\* Every variable keeps its type.
TypeOK ==
  /\ now \in Nat /\ deadline \in Int /\ wake \in Int /\ restarts \in Nat
  /\ stored \subseteq Jobs /\ disk \subseteq Jobs /\ added \subseteq Jobs
  /\ revived \subseteq Jobs /\ removing \subseteq Jobs
  /\ inbox \in Seq(Jobs) /\ list \in Seq(Entries) /\ scheduled \in Nat
  /\ phase \in {"waiting", "executing", "scheduling", "dead"}
  /\ succeeded \in [Jobs -> Instants]

\* The two jobs the thread cannot survive.
Fatal(entry) ==
  LET job == Job[entry.id]
  IN  \/ entry.last # Never /\ job.repeat = "interval" /\ job.period = 0
      \/ job.type = "callback" /\ ~job.described

\* The index kept across receptions, removals and choices is that of a job of
\* the list (jobs[job] is never out of range), and there is one whenever the
\* thread has a job and waits.  The thread never panics on a job already done
\* that does not repeat: what ends it is a callback without a description, or a
\* job done that repeats at intervals of zero.
ScheduledExists ==
  /\ scheduled # 0 => scheduled \in DOMAIN list
  /\ phase = "executing" => scheduled # 0
  /\ phase = "waiting" /\ list # <<>> => scheduled # 0
  /\ phase = "dead" => \E i \in DOMAIN list : Fatal(list[i])

\* While the thread waits, the deadline it waits for is no later than any of its
\* jobs' own: no job received, kept or left by a removal is overlooked.
DeadlineIsFirst ==
  phase = "waiting" =>
    \A i \in DOMAIN list :
      Job[list[i].id].timing # "drought" => deadline <= Due(list[i], now, 0)

\* A job is not run for the first time more than a second before the time it
\* names, and a job of every day not more than a second before the first of its
\* times of day after its last run, though timeouts are cut to whole seconds.
\* (So one started early comes again on the same day.  Of a job repeated at
\* intervals nothing of the kind holds: once run it is due in the past, and the
\* thread runs it every half second.)
NeverEarly ==
  [][Runs /\ Job[Current].timing = "ontime" =>
       LET job == Job[Current]
           last == list[scheduled].last
       IN  /\ last = Never => now + 2 >= job.time
           /\ last # Never /\ job.repeat = "everyday"
                => now + 2 >= NextOfDay(job, last, last)]_vars

\* A job that does not repeat succeeds at most once in the life of a process.
SucceedsOnce ==
  [][\A j \in Jobs :
       succeeded[j] # Never /\ ~MustRepeat(j)
         => succeeded'[j] \in {succeeded[j], Never} /\ ~(Runs /\ Current = j)]_vars

\* A job the database holds is known to the thread, or its removal is under way,
\* whatever fails or restarts: a stored job that nobody will run can only be one
\* that a client's update put back after its removal, and that the next restart
\* will hand to the thread.
StoredKnown ==
  \A j \in stored : \/ \E i \in DOMAIN list : list[i].id = j
                    \/ \E i \in DOMAIN inbox : inbox[i] = j
                    \/ j \in removing \cup revived

\* What jobs.txt and callback jobs are told: removing a job stops it.
RemovedNotRun == [][Runs => Current \in stored]_vars
=============================================================================
