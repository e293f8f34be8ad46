# Proxima backend in TLA+

Specifications, model-checking runs and machine-checked proofs of the Proxima
backend, the server of a personal multi-device AI assistant (`src/`, Rust).

## 1. The system

One process, `proxima_backend_server`, with a handful of long-lived threads that
own their state and talk over unbounded channels, plus the actix web workers and
the async tasks of the AI endpoint. A second process, `python_tool_server`, runs
python code in containers.

| component | state it keeps | operations | talks to |
|---|---|---|---|
| database thread (`src/src/database/mod.rs`) | all items (chats, tags, access modes, devices, notifications, jobs, memories, media, configurations, user data, a filesystem tree), the sessions with their update channels, `changed_since_last_save` | get, add, update, remove, getall, info, new and verify key, save, tool requests, tunnel | everybody, through a priority and a normal channel; pushes updates to the sessions' channels and new jobs to the job thread |
| web handlers (`proxima_backend_server/src/web_handlers`) | nothing between requests | `/auth`, `/db`, `/ai`, `/media` | the database thread, by request and reply; a session's update stream |
| saving thread and `save_to_disk` (`loading_saving.rs`) | the eleven JSON files | a save every 60 s, load at start | the database thread |
| job thread (`jobs.rs`) | its own list of jobs, the one scheduled, its deadline | receive a job, time out and execute, schedule | the database thread, the AI endpoint |
| AI endpoint (`ai_interaction/mod.rs`, `openai_full_impl`) | conversations under way | full prompts with up to 12 rounds of tool calls, streaming | the database thread, the tools, an inference server |
| tools (`ai_interaction/tools.rs`) | data carried by the chat | jobs, agents, memory, filesystem, python, web, arithmetic | the database thread, the filesystem thread, the python server, the AI endpoint |
| filesystem thread (`filesystem.rs`) | the tree of the server's folder | create, move, delete, list, read, write | the disk; the database's copy of the tree, by deltas |
| memories, media (`memories.rs`, `media.rs`) | entries and one file per memory or medium | add, update, retrieve | called by the database thread |
| python tool server (`python_tool_server`) | a pool of executor ports | run, stop | docker, one executor per run |

What is hard here: every web worker interleaves with the internal tasks at each
request; a key is checked in one request and used in the next; requests are given
up (`recv_timeout`) while they stay queued; changes are announced before they are
executed; a save works on a clone while the database moves on; jobs, AI rounds and
agents read an item, work for a long time and write the whole of it back; a crash
may fall between any two of the eleven files of a save. `PROJECT.json` lists these
hazards at their lines.

What makes each part correct:

* database thread: ids are never reused; writes are atomic and in the order of the
  channels; sessions are told everything the database does to the items they hold;
  no request is lost or answered twice; each is answered.
* saving: a start that succeeds finds what a save that ended had; the files of a save
  are in step; a skipped save loses nothing; changes reach the disk.
* job thread: a job that must not repeat succeeds at most once; none is overlooked or
  early; a removed job does not run.
* AI rounds: what a client is shown is what the chat will hold; a requester is answered
  once; an agent's chat is there to respond to; a round that writes its chat leaves it
  a title; a round ends.
* filesystem: the two trees and the disk agree once the channels are empty.
* memories and media: what an index names is there, media whole, and nobody else's; notes
  stay in their access mode; indexes saved together agree; what a request about them can
  end the database thread for is known.
* sessions: what a session is told reaches a client of it, once and in order; only a
  session that nobody listens to is evicted; a login finds the client's device.
* python server: a port is given to one executor at a time and comes back.

## 2. Modules

| module | models | status |
|---|---|---|
| `Database` | the database thread, its channels, web workers, agents, saving thread | here |
| `ItemStore` | abstract: what the database promises its writers | here |
| `MCDatabase` | constants of the three runs on `Database` | here |
| `Database_proofs` | theorems about `Database` for every value of the constants | here |
| `JobScheduler` | the job thread: deadlines, execution, removal, restart | here |
| `MCJobScheduler` | the jobs of its two runs | here |
| `JobScheduler_proofs` | theorems about it | here |
| `Persistence` | save, write errors, crash, creation, load; the order of the files | here |
| `MCPersistence` | the files of its run | here |
| `Persistence_proofs` | theorems about it | here |
| `PythonServer` | the listener, the queue handler, the execution threads and the callers | here |
| `MCPythonServer` | the ports of its run | here |
| `PythonServer_proofs` | theorems about it | here |
| `Filesystem` | the filesystem thread, the disk and who else changes it, the database's copy of the tree | here |
| `MCFilesystem` | the symmetry of its two runs | here |
| `Filesystem_proofs` | theorems about it | here |
| `ChatRound` | the AI endpoint: rounds, streams, tool turns, agents, and the other writers of a chat | here |
| `MCChatRound` | the requests of its run | here |
| `ChatRound_proofs` | theorems about it | here |
| `Memories` | memories, media, the Memory tool, and what crashes and saves that fail or overlap leave of them | here |
| `MCMemories` | the symmetry and inputs of its run | here |
| `Memories_proofs` | theorems about it | here |
| `Sessions` | a session's channel and its streams, eviction, login | here |
| `MCSessions` | its run | here |
| `Sessions_proofs` | theorems about it | here |

The modules share the state of the program and not variables: each takes of the database
thread what its properties need, and leaves the rest to the environment. `Database`
evicts any sessions, `Sessions` says which; `Persistence` has the files of a save and
nothing in them, `Memories` what three of them hold and writes each whole; `JobScheduler`
has the jobs' times, `ChatRound` what Title and Tag jobs do to a chat. An abstract
specification that is still to be written: for `Persistence`, a register whose value
after a restart is one that was saved.

### Database

`store` is every item by kind and id; `latest` the next id of each kind. An item's
record has a `body` (what clients write as a whole) and a `note` (what tool
requests overwrite in place: title, tags and context of a chat, tags and settings
of an access mode). Kinds are a parameter, and so is what the code does to each:
`Deletable` (`remove_request`), `JobKinds` (forwarded by `handle_add_request`),
`Annotatable` (changed by an announced tool request), `Configurable` (changed
silently, `UpdateAccessModeSettings`).

`call[p]` is the request a process has under way, in stages: a web worker first
has its key verified (`is_auth_right`), then sends the request (`db_post_handler`);
internal tasks execute at once, with the key `Local`. `prio` and `normal` are the two
channels, as sequences of the processes whose requests are in them; an entry that
is a session is a tunnel request whose worker has given up (`TunnelTimeout`), with
nobody to answer. `phase` is where `handling_loop` stands: waiting for a priority
request, looking at the priority channel, trying the normal one, or dead after a
panic. Each `Handle...` action is one arm of `handle_request`: the announcement to
the other sessions (`Tell`), eviction (`Evict`, any subset of them, since the clock
that decides it is in `Sessions`), the change and the reply, in one step,
because the thread alone touches this state.

`view[s]` is a history variable: what a client of session `s` has if it applies
everything its channel was sent and the replies to its own requests. An update is
announced to the others before it is looked at, and inserted whether or not the item is
there; when it was not, because a removal came first, the requester alone is answered
`ItemNotFound` and does without it (`TellOfUpdate`): `unaware` are these pairs of a
session and an item, until the item changes again or the session fetches it. `loaded` are
the sessions that fetched everything (`GetAll`). `issued` is a history variable,
the keys generated so far.

Clients and agents are external: a client names items it was told of; agents name
ids that were handed out. What is left out: `Info` requests and the retrieval of
memories, which only read; persistent memories and media (`Memories`);
`FilesystemUpdate` (`Filesystem`); the channels of the sessions (`Sessions`); the requests
the job thread sends without waiting for the answer (`JobScheduler`).

### JobScheduler

`list`, `scheduled` and `deadline` are the three locals of `job_thread` (`jobs`,
`scheduled_job` as 0 for `None`, `current_deadline`); `wake` is when its
`recv_timeout` gives up. `inbox` is its channel, `stored` the database's jobs, `disk`
the jobs of the last save, `removing` the removals the thread asked for. `phase` cuts
the loop at its long calls: waiting, executing, scheduling, dead after a panic.

The clock counts half seconds, the shortest timeout of the thread (500 ms). An
instant read from the clock lies strictly inside its tick and a time named by a job
at the start of one, which is what makes the truncation to whole seconds in
`get_timeout_from_deadline` and the comparisons of `schedule_job` come out as in the
code. `Soonest` is the result of the loop of `schedule_job`, stated without the
loop: the last of the jobs due first, except that an ASAP job, due three seconds
after the clock is read, never displaces one looked at before. `Outcomes` are the ways
`Job::execute` can end for each type of job: success or failure, kept or not,
`last_executed` set or not. What a job does is the AI endpoint's business.

Jobs are added once (ids are fresh, `IdsFresh` of `Database`). The heat map is any
member of `Slots`. A restart forwards the saved jobs in any order, as iterating a
hash map does, and no `last_executed` was ever saved. `UpdateJob` is a client's update of
a job, of which the thread is never told and which `update_job` inserts even when the job
was removed in the meantime: `revived` says which jobs came back so. What an update
changes in a job is left out, as the thread would only see it after a restart. Two jobs
end the thread: a callback without a description (`PanicUndescribed`), and one repeated
at intervals of zero, which the jobs tool and clients may give (`Unschedulable`). The
database is taken to be alive. `succeeded` is a history variable.

### Persistence

States of the database are numbered, and a file holds the number of the state it was
written from, or is `Missing`, `Empty` (truncated by `File::create`) or `Torn`. `save[s]`
is the save a requester has under way: the state it cloned (`image`), which file it is
at, whether that file is open, whether it was `alone` all the time. The saving thread is
one requester, and each of `Clients` another, since anyone logged in may send `Save`;
each save writes in a thread of its own. Two that write the same file leave either's
text, or the end of the longer behind the shorter (`Torn`). `secured` is the state of the
last save that was alone and ended, `overlap` says that saves overlapped since, `failed`
that the last one to end
failed. `changed` is `changed_since_last_save`; `noted` the last
state a flagged change led to. A crash may come between any two steps on files. At
the start the files are loaded, or, as soon as one is missing, created with premade
contents, after which the database is a new one. `Change` and `QuietChange` are the
database requests that set the flag and those that do not. A file of configuration
prompts is only created, never loaded, and is not among the files.

### PythonServer

Three kinds of threads and the callers. `listener` is the main thread, which accepts
a connection of `backlog`, reads it (`reading`) and puts it in `queue`; it reads one at a
time, so a caller that is slow to write holds up the others. `handler` is where
`handling_loop` stands: choosing what to wait for, a request or a port, or collecting,
the `recv_timeout` of a second that follows each request. `ports`, `inFlight` and
`finished` are its fields. `thread[c]` is the `InFlightExecution` of a call: being created
(docker, the connection to the executor, the request), running, ended, or panicked.
`call[c]` is the caller, `python_tool`: it may stop while it writes (`cut`) or while
it waits; `hungUp` are the streams the server dropped without a byte 255, on which the
caller's loop reads 0 bytes for ever (`Spin`).

A timeout or a failure of docker, of a socket or of the executor is a choice. When a
write to a stream closed by the other side fails is up to the network, so both outcomes
are possible once a caller has closed. Output is left out but for its end. `accept`
never fails here; if it did, the process would end, which `RefusePanics` shows.

### Filesystem

`disk` maps a path of names to contents, `"empty"` (just created or truncated) or
`"folder"`; `tree` is the thread's elements by id, `counter` its `id_counter`. A path of
the thread is a sequence of ids (`ProximaPath`), and `Existing` are those that
`resolve_existing_path` can give for what somebody writes: where two children have one
name, the first. `OnDisk` is `path_on_device`. `replica` is the database's elements,
`deltas` the `FilesystemUpdate`s on their way to it, `saved` the copy of the last save.

The thread serves one request at a time, but a listing, copy, move or deletion of
many elements touches the disk many times, and other programs may act in between. So
such a request is `work`, the calls still to make, from the recursion of
`copy_same_device` and `delete`: a `delete` frame whose folder is `open` comes after those
of its children; a `make` frame creates one child of a folder that is copied and then
becomes a `copy` frame. The first error drops them all (`Abandon`), as `?` does, and
leaves what was done. Any operation on the disk may fail.

The todo! of `delete` that ends the database thread on the deletion of a folder is
`ApplyFolderDeletion`; panics of the filesystem thread clear `threadUp`. A deletion of a
folder that had no children is not announced, and its element stays in the copy.

Left out: other devices, since nothing sends `CreateDevice` and device 0 is the server;
permissions, which let everybody read whatever the code builds and are not looked at
for writing; and what happens after an id is handed out twice, which `id_counter` allows
after a restart, since no update carries it: the model stops there (`reused`).

### ChatRound

A round is a request of the endpoint with the task that handles it: `Web` are those of
clients, `Sub` those the Agent tool sends. `pc` cuts `respond` and `streaming_respond` at
every call that waits or that another thread can see: `prompting` (the inserts and
`send_new_prompt`), `asking` (until the backend was reached), `reading` (the loop on
`rep_recv`), `deciding` (does the response call tools), `calling`, `waiting` for an agent,
`keeping` its chat, `closing` a turn that failed, then one label for each request of
`update_chat`. `context` is what the round adds to `whole_context`, `sent` what goes out on
the response tunnel, `streams` one relay task for each prompt of a streaming round, with
the tokens `piped` to it and those `relayed` to the client; `totals` is the channel on
which a relay hands the round the whole text. The round keeps a sender of that channel,
so that it does not see the relay end: `Starved`.

A part of a context is its kind, turn and number of tokens, which is what tells two
parts apart on the client's side. `form` is how the response reads to
`is_valid_tool_calling_response` and `looks_like_nonstandard_final_response`, both of
which depend on the model's text alone. `WithOutput` is the `Ok`/`Err` of
`handle_tool_calling_context_data`, which carries on with the outputs or ends the turn.
`AgentChat` is what `agent_tool` stores under the agent's id; the lookup of the chat, the
round and the write are three steps, as a client may remove the chat between them.
`chat[c].rounds` are the rounds whose parts a chat holds: a client starts a round from
its copy (`Based`) and `WriteChat` replaces the whole context.

The job thread appears as far as it changes chats: one Title or Tag job at a time, which
reads, asks and writes. The backend, its failures and its tokens are choices of the
environment. Left out: the tags put around a nonstandard answer, the texts of automatic
memories, media, and the normal channel of the endpoint, on which nobody sends. The
database and the filesystem thread answer every request here; that they may not is the
business of their own modules.

### Memories

`db` is what the database thread holds: `persistent`, the persistent memory of each access
mode, the `media`, the memories' `index` and `last_memory_id` (`latest`). `files` and
`mediaFiles` are the files of the two folders, written while a request is handled; `garbled`
are the memories' files that a crash cut inside a character, `cut` the media files whose
writing a crash cut. `disk` is what the saved indexes hold and `save[s]` the save a requester
has under way, which writes `access_modes.json`, `media.json` and `memories.json` in this
order, each whole (`Persistence` cuts them); it may end between them with an error
(`SaveFails`), and those of two requesters may alternate. `Crash` is the end of the process
and its next start, since nothing here can happen between the two. A restart takes `disk`;
data files that no index knows stay, and ids are handed out again, which is what `add_memory`
tests names for.

A memory's file name holds its access modes, a number and its kind, so that a name is that
triple. `FreeNames` are the names the loop of `add_memory` can end with, `MediaBytes` the
number of bytes of its hash that a medium is named with: each time the same medium is added
under the same name, one more. `StoreMedia` handles an update as the code does, by removing
the medium and adding it, with its file name, prefix included, in place of the client's name.
`Unnameable` is a medium for whose name the hash has no more bytes, or whose name has
become too long for a file to be created: either panics the thread. `MalformedMedia` is an
addition or an update with data that is not base64, which panics it at once.

A call of the Memory tool is two requests: `PersistentAdd` and `PersistentRemove` are the
first, which reads the notes, together with the edit (`GetAndEdit`); `Update` is the second,
which writes all of them. Between the two anybody may write the notes, and what they added is
then written over. A client takes an access mode or a memory to edit it (`copy`) and sends it
back: clients are other processes, and what they took outlives a crash of the server. `lost`
says of it that the index of a later start does not have its memory, whose id is then handed
out again. `astray` is a history variable: a start found an access mode whose memory was not
saved, or such an item was sent back. `Panic` is a request that needs a memory the index does
not have, which three arms of `handle_tool_request` unwrap, or one that reads a file that is
not there or is no text.

A line of data stands for the access mode it was written in, which is all that the
properties tell apart; `Extended` keeps the blank line that adding to empty notes begins with.

Left out: dates, tags and retrieval, which only read (`retrieve_data_from_ids` panics on a
memory without a file, which `EveryMemoryHasItsFile` excludes, and on one that is no text,
which `Panic` has); a memory's other access modes; failures to create or write a data file
for other reasons than its name, which panic the thread by design
("File should be creatable by now").

### Sessions

`channel[s]` are the pending updates of a session, `live` is `auth_sessions`, `lastLen` and
`lastDecrease` are its two counters. An announcement is several steps (`Begin`, then for each
session `Send` and `NoteLength`, then `EndAnnounce`), because the streams take from the channels
while the thread is in its loop: between the comparison of the length, the send and the
second reading of it. `Free` says that the thread is in no announcement; a tool request tells
every session in a loop that looks at no counter (`ToolAnnounce`, one step).

A stream is a task (`db_post_handler`) that holds a clone of the channel's receiver: it takes
an update (`Receive`), waits for room in the channel of its response (`Forward`) and hands it
over; the client reads (`Read`) or goes away (`Disconnect`), which the task notices only when
it sends (`ForwardFails`). A session evicted keeps its channel as long as a stream has a
receiver; the stream ends when the channel is empty (`Over`). A login is `NewKey`,
`LookForDevice` and `AddDevice`, the requests of `auth_post_handler`.

History variables: `told`, what each session was sent; `taken`, the day a stream last took
something of it; `refilled`, the sessions that a tool request sent something to since their
counters were set; `blind`, whether a login added a device unaware of another's. Left out: the
naps of a stream, which are only time, the three seconds a stream may be asked for
(`Database`), and clients that describe a device anew.

## 3. Runs

| run | instance | shows |
|---|---|---|
| `items` | 2 workers, 2 sessions, 1 agent, 1 chat, 2 bodies | `DeletableMirrored`: a live session that loaded the database holds its chats, through adds, updates that bring a removed one back, removals, an agent's read-work-write and evictions, but for the requester that was told `ItemNotFound`; `FreshIds`: no id held anywhere is handed out again; `BodiesAgree`: nobody is left with a wrong body; `ImplementsItemStore`: the abstract store is implemented |
| `queues` | 1 worker, 1 agent, saving thread, 1 session, 1 chat, 1 job, 1 access mode | `EveryCallQueuedOnce`; `BodiesAgree`: removals announced for items that stay, and silent settings, leave no client with a wrong body; `FlagCoversWrites`: a skipped save loses no body; liveness `PrioAnswered`, `NormalAnswered` |
| `tunnel` (violation) | 1 worker | `TunnelReceiverPresent` is violated: see below |
| `scheduler` | 4 jobs: a daily reminder, edited by clients, a drought titling, an undescribed callback, a reminder at intervals of zero; 5 ticks, a restart | `ScheduledExists`, `DeadlineIsFirst`, `StoredKnown`: no job is overlooked or left without anybody to run it, and only the last two end the thread; `NeverEarly`, `SucceedsOnce` |
| `removed_job` (violation) | 1 reminder at an interval, 12 ticks | a removed job runs |
| `crash` | the saving thread and 1 client, 3 files, 4 states, 2 crashes, 1 write error | `Durable`: a start that succeeds finds nothing older than the last lone save; `SavedCut`: files are in step along the save's order unless saves overlapped; liveness `EventuallySaved` |
| `python_calls` | 3 calls, 2 ports | `PortsConserved`, `OnePlace`: no port in two places, no call run twice; liveness `QueuedStarted`, `BacklogAccepted` |
| `files` | 2 names, 2 contents, paths of 2, 4 elements, 4 requests, 1 outside change, 1 restart | `TreeSound`: whatever stops half way, the elements stay a tree; `ReplicaFollows`: the copy follows; `MoveKeepsData`: a move loses no file |
| `moved_folder` (violation) | 3 requests | deleting or moving a folder that is not empty ends the database thread |
| `rounds` | 2 clients' rounds, 2 agents' rounds, 1 chat, 1 turn, 2 calls, 2 tokens, 1 edit | `StreamAgrees`, `AnsweredOnce`: what is shown and answered is what happened; `AgentsKept`; `TitlePlanned`: a chat keeps its title or a job for it against overlapping rounds, jobs and clients; liveness `RoundsEnd` |
| `memories` | 2 access modes, 2 tasks, 1 client, 2 requesters of saves, 1 line, 1 hash of 2 bytes, 2 memories, 3 calls, 2 crashes or failed saves | `EveryMemoryHasItsFile`, `MediaHaveTheirData`: what an index names is there and its own; `OwnMemory`, `NotesStayInMode`: modes never share notes, nor do lines pass between them, unless an item that names a lost memory came back; `SavedTogether`: lone saves agree; `ThreadSurvives`: what ends the thread |
| `sessions` | 2 logins, 2 streams, 2 updates, 2 days, a response of 1 | `UpdatesConserved`: each update in one place, in order; `EvictedWasIdle`, `LoginNamesItsDevice`; liveness `UpdatesDelivered` |

A type invariant that `TypeCorrect` proves of a module is not run again; TLC found each of
them to hold before. `sessions` still runs that of `Sessions`, which also bounds the channels
to the responses.

Bounds of `Database`. `MaxId` ids per kind: one is enough for the agreement of copies, since the
handlers treat items independently, and for the reuse of ids, since `FreshIds` compares
the next id with every id that is held. `MaxOrphans`: one abandoned tunnel request is
enough to end the thread. Keys are finite: two sessions make "the others" and "the
requester" differ; a session once evicted stays in `issued`. Channels hold at most
one entry per process, as in the code, where a caller blocks on its reply. `items` has one
kind and two workers, since an update that comes after a removal takes two (3.4 million
states); symmetry over sessions and workers is used there, where only safety is checked.
`queues` has the kinds that are never removed, that tools change silently and that are
forwarded to the job thread, with one worker (0.6 million states). It turns off the deadlock
check because the thread may die; in `items` a client can always ask something more.

Bounds of the others. Four jobs, at least one of each timing: the choice of the next job
compares two, and a third is there to be overlooked; two are the ones the thread cannot
survive, and one is updated and removed by clients while the thread has it. A day of two
seconds keeps the daily job, midnight and the drought slot within five ticks; nothing in
`Job::schedule` depends on a day's length but its being longer than the other delays.
Three files: a first, a last and one between, which is all that the order of a save
distinguishes; two crashes let one fall on what another left; four states let changes
come before, during and after a save; a client's save beside the saving thread's is what
an overlap takes, and one error leaves the flag clear with nothing saved. `crash` turns the deadlock check off: a process
that cannot load its files stays down. Three calls on two ports: the third waits for a
port and takes one that came back, which is when a port could be in two places, and
the handler is left with a port in `finished` and a request in `queue`. `python_calls`
turns the deadlock check off, since every call may have ended. For `files`, a folder in
a folder with a file is the least that has a path through an element that is copied,
and two names let one collide; four requests build, change and move it; one outside
change is what makes the tree stale, and a restart loses what was not saved. Its
deadlock check is off because requests, and with them everything, run out.

`rounds` covers three pairs of requests (`MCChatRound`): a streaming round with tools
together with a request variant that nobody handles; two rounds on the same chat, where
one overwrites the other's context; and a round that runs agents, responds to them and
waits for them. Two calls in a turn let one fail after another had its effect. Two
tokens make a stream that is read too early differ from one read in time. One turn
suffices for outputs to follow tokens and be followed by a second stream; a twelfth
adds no new order. Two agents' rounds let an agent be run and then responded to. One
edit by a client falls at any point of a round or of a job. The deadlock check is off
because every round may be over.

`memories`: two tasks and a client are who can read, overtake and write the same notes; two
access modes are what a stale copy could mix up; two requesters of saves can overlap; two
memories fill the index, so that an id is handed out again after a restart. The number a name
may be raised by (`NameSpan`) is 2 where the code has 100. A hash has two bytes, the first of
which names a medium, where the code has 32 and 12: a medium added a third time is what 22
times are there. `MaxPrefixes` is 2: how many prefixes a name takes depends on the file system
(with names of 255 bytes and prefixes of 24 digits, ten). `MaxFaults` counts crashes and
failed saves together; two let a second one fall on what the first left, and three calls are
a write before, between and after. A line of each mode is enough for `NotesStayInMode`, which
looks at no more of a text than whose lines are in it. Symmetry is over tasks, access modes
and requesters of saves. The deadlock check is off because calls and faults run out. The run
takes three minutes, for 5.9 million states.

`sessions`: two streams split one session's updates, or serve two; two updates are one on the
way while another is lost or left in the channel; a response with room for one makes a stream
wait for its client. The quiet time is 0 days where the code has three, with two days, so
that an eviction needs one day without a change: only the difference is looked at. Two
logins with one description are what can add a device twice. A run of the invariants with
three updates (14.5 million states) found nothing else. The deadlock check is off because
updates, days, logins and streams run out.

Fairness of `queues`. Weak fairness of the database thread as a whole, of a
web worker that has been told its key is right, and of a save under way: these are
threads of the operating system, and nothing they wait for is held by another.
Nothing forces a client to ask. `NormalAnswered` is conditional: it supposes the
thread keeps finding the priority channel empty; the code does not ensure it.

Fairness of `crash`. Weak fairness of starting (somebody restarts the server), of the
saving thread's asking, which it does every minute for ever, and of the writes of every
save under way, each a thread that ends. No client has to ask. `EventuallySaved` excuses a
failed save, since the flag stays cleared and the saving thread ignores the answer, and an
overlap, after which the older save may have written last with the flag clear: both last
until a later change is saved. It says nothing of removals and tool requests,
which do not set the flag and so reach the disk only along with a later change.

Fairness of `python_calls`. Weak fairness of the listener, of the handler and of each
execution, which are threads; an execution is bounded by its 15 s loop, whose reads and
writes time out, and a caller's write ends or times out (`Written` or `Cut`). Nothing
forces a caller to call, to give up or to stay. `QueuedStarted` excuses a process that
is down and a pool lost to panics, `BacklogAccepted` a listener that is down or reads a
cut connection for ever: the code ensures no more, and the run reaches these states.

Fairness of `rounds`. Weak fairness of the endpoint's thread, its tasks and the relays
taken together: every task does a bounded number of steps, so that none has to be
favoured over another for all of them to end. The backend is reached or gives an error,
and a stream ends. Nothing forces a client to ask, to fetch or to edit, nor a job to run.
`RoundsEnd` excuses only `Starved`, the round whose stream ended without a token: its
relay sends the client an error and the round nothing, and the run reaches it.

Fairness of `sessions`. Weak fairness of the announcement under way, a loop of the database
thread; of each stream, a task that only waits for updates and for room in its response; and
of the reading of each response that a client has not left: a client that neither reads nor
goes would stop its stream for ever, as it does in the code, and nothing bounds the channel
then. Nothing forces a client to log in, to ask for a stream or to stay.
`UpdatesDelivered` excuses a client that goes away, and an update that another stream of the
same session took for a client that has gone: in the code it is lost to the one that stays.

`tunnel`: `db_post_handler` waits 3000 ms for its tunnel, then drops the receiver;
the request stays in the channel and when it is served, `send(...).unwrap()`
(`mod.rs:945`) panics the database thread, which no code restarts. The thread may
be that late because handling a request includes loading memories and cloning the
database.

`removed_job`: `handle_remove_request` does not tell the job thread, so that a
repeating reminder removed by the user, or by the model with the jobs tool, goes on
until the next restart.
`moved_folder`: the database applies the deletion of a folder by the `delete` the thread
uses, told not to touch the disk, and that branch is a `todo!`.

`MoveKeepsData` says what a user expects of a move that fails half way or that meets
files the tree does not know: `fs::remove_dir` refuses a folder that is not empty, and
deletion starts only when the whole copy succeeded. It excuses what another program
changed during the move and a file put where the tree has the folder that is being
deleted, which `delete_on_device` removes as a file.

`Durable` is about starts that succeed: such a start finds no file older than the last save
that was alone from its request to its end, though later saves failed, overlapped or were
cut. It is not that nothing saved is lost. A crash between the truncation of a file and its
writing loses what it held, and no start succeeds any more; the run reaches this. Nor is an
answer `Saved` a promise of its own: a `Save` that comes while the flag is clear is answered
so at once, with another save still writing or after one that failed; and of two saves that
overlap, the older may write last. After that, `SavedCut` holds again when a save that was
alone has ended.

What `SavedCut` leaves possible is a newer file that refers to an entry of an older one:
access modes are written before the memories they name, and `GetPersistentMemoryFor` unwraps
the memory it finds no more (`mod.rs:839`). In `Memories` a crash, a failed save and an
overlap all lead there (`astray`): `SavedTogether` says that a save that was alone and ended
does not, and `ThreadSurvives` what it leads to.

`NeverEarly` is about first runs and daily ones, and allows a second. A daily job started in
that second before its time is due again on the same day, as it has not run after its time.
Of jobs at intervals nothing is stated, because they run every half second once they have run
(section 5).

## 4. Proofs

`Database_proofs` proves, with no assumption but `DatabaseAssumption` (the sets of
processes are apart, `Local` and the sentinels are none of the values), for any
kinds, sessions, workers, agents and bounds:

* `TypeCorrect`: `TypeOK` is inductive; one lemma per group of actions.
* `IdsFresh`: `FreshIds` is inductive over `TypeOK`. It needs the ids in requests
  under way in `IdsHeld`: a late `update` is why the store alone is not enough.
* `ClientsMirrorDeletable`, `ClientsHaveServerBodies`: inductive over `TypeOK` and
  `SessionsKnown`, which says a key not yet issued was told nothing, loaded nothing
  and asks nothing. Without it a new session could start with somebody's copy. The first
  is exact: an item the client was answered `ItemNotFound` for is absent from its copy.
* `SkippedSavesLoseNoBody`: `FlagCoversWrites` is inductive.
* `JobsReachScheduler`: `JobsForwarded`, every stored job was sent to the job thread, which no run
  repeats; from `AllScheduled`, which speaks of every id handed out
  and not of the store: a removed job may be inserted again by a late update.
* `CallsQueuedOnce`: `QueuedInv` states it with `Has` and `Once` on the sequences
  and adds that workers never use the normal channel and that only saves are
  answered by another thread; the timeout of a tunnel needs both.
* `DatabaseImplementsItemStore`: the initial states map to initial states and each
  step to a step of `ItemStore` or a stutter, from the previous invariants;
  `StepSplit` and `CallersStore` show that only handlers touch the store.

`JobScheduler_proofs`, from `JobSchedulerAssumption` (finitely many jobs, a day that is
not empty, slots within a day):

* `TypeCorrect`, with `IndexInv`: the index kept by the thread is in its list. The index
  is part of the induction because `Start` and `Finish` read the list at it.
* `IndexIsSound` (`ScheduledExists`): from `DoneRepeats`, an entry carries an execution only
  if its job repeats, so that `Job::schedule` panics on no job but one at intervals of zero,
  and `EndedBy`, what a dead thread has in its list.
* `StoredJobsAreKnown` (`StoredKnown`): `Known` is inductive; what leaves the channel is in the
  list, what leaves the list is in `removing`, and what a late update puts back is in `revived`.
* `DoneJobsStayDone` (`SucceedsOnce`): from `Once`, a job is in the list and the channel
  at most once and only if it was added, and `DoneLeft`, a job done for good is in
  neither. Without `Once` the removal of an entry could leave another.
* `NoJobIsOverlooked` (`DeadlineIsFirst`) and `JobsRunOnTime` (`NeverEarly`): from `Past`, no
  job was last run in the future, and `Planned`, which says of a waiting thread that its
  deadline is at or before the time of each of its jobs, that it is no earlier than what
  the chosen one asks for at the time the plan was made, and that the timeout, rounded down
  to seconds, ends less than two of them before it. `Past` is needed because an interval is
  counted from the last execution and an elapsed one rounds down. Droughts are in neither:
  a chat that is used meanwhile moves their time.

`Persistence_proofs`, from `PersistenceAssumption` (the files are distinct):

* `TypeCorrect`, for any number of requesters.
* `SavesAreDurable` and `FilesAreCut`, for any number of requesters, from `DiskInv`: every file
  that can be read, and every image being written, lies between the last state secured and
  the one in memory (`Bounded`, `SaveInv`), whatever saves overlap; a save that is alone is the
  only one, no file is newer than its image, and those before the one being written hold it
  (`LoneInv`). `CreationInv` says that a file is missing only before the first start that
  succeeded, when nothing was secured: without it a new database could take the place of one
  that was saved.

`PythonServer_proofs`, from `PythonServerAssumption` (the ports are distinct):

* `TypeCorrect`, `PortsAreConserved` and `CallsRunOnce` from one invariant: a call is in
  one place; a call without a thread holds nothing, and one with a thread holds or gave
  back the port of it; `inFlight` is the number of ports that are not free. The last is
  what keeps `inFlight -= 1` from underflowing, and needs that a port in `finished` is
  not free, which needs the rest.

`Filesystem_proofs`, from `FilesystemAssumption` (the sentinels are no names, ids or
contents):

* `TypeCorrect`, `TreeIsSound` and `DatabaseFollows` from one invariant, which stops
  promising anything once an id was handed out twice. It says of the thread's tree, the
  copy and the saved copy that they are `Good`: sound, and with a rank that falls from
  parents to children, which excludes a cycle apart from the root. `Follows` relates
  the updates on their way to both trees: insertions are in the order of ids, a
  deletion is the last word about its element, and the folder of an insertion is in the
  copy or inserted earlier; without that order the copy could get a child before
  its folder. `Planned` says of the calls still to make that a copy never deletes before
  its last call and that children are deleted before the folder they are in; without it
  a folder could go from the tree while its children stay. There is one lemma per
  action.

* `MovesKeepData` (`MoveKeepsData`): from the same invariant with `MoveInv`. The disk is closed,
  so that what is anywhere is in a folder, and a folder from which the children of the tree are
  gone is removed only when nothing else is in it. `Ending`: the source is deleted by the
  last call, and every call is about something in it. Then the move is `Starting`, or
  `Underway`: each element of the source in the tree lies in what a call has still to copy,
  or its content is stored outside the source, while calls still copy at the place that
  corresponds to its own (`Goes`), or another program touched it; and each call that copies
  is `Aimed` at the corresponding place, off the source. The correspondence is what keeps a
  later copy from writing over an earlier one: a call that wrote there would be about the
  same place. This needs `NamesResolve`: of two children with one name a path finds the
  first, so that the paths that resolve differ in their names. Facts about paths of any
  length are proved by `SetInduction`, the least element of a set of naturals, which
  follows from the well-foundedness theorems of the library, since its induction theorems
  take an operator.

`ChatRound_proofs`, from `ChatRoundAssumption`, for any number of tasks, calls and turns:

* `TypeCorrect`: `TypeOK` with `Waiting` (the queue holds just rounds that are queued,
  each once), `Places`, `Counts` and `Piped`: what the place of a task says of its
  request, its agent's round, its turns, calls and streams. A handler's next value is
  only in range because of where the task is.
* `RoundsAnswerOnce` (`AnsweredOnce`): from `AnswerInv`, a round that does not stream
  has no stream, so that only its task sends, and it sends in its last step.
* `AgentsAreKept` (`AgentsKept`): from `AgentInv`, the chat read before an agent's
  round, which is written back after it, already held the agent's first answer.
* `TitlesArePlanned` (`TitlePlanned`): from `TitleInv`, with `JobTitled`: a title job
  leaves the list only after the title was written.

* `StreamsAgree` (`StreamAgrees`): from `StreamInv`, which says for each place of a round's
  task what was sent and is not in its context yet: the tokens the latest relay forwarded,
  its error if it had none, or the response of the turn; all relays before it are over, and
  what the latest one collected is handed to the task exactly when it ends with a token.
  Without that a second turn could begin while the first is still being relayed. What is
  shown of a context is a concatenation of any length, `FlattenSeq`, which the community
  modules define by iteration; `SetInduction` (induction over a set of numbers, from
  the least element of its complement) gives `UnrollExists` and `UnrollUnique`, and these
  `FlattenAppend` and `KeptAppend`: what one more part adds at the end of the context.

`Memories_proofs`, from `MemoriesAssumption` and `NoneAssumption` (`None` is no id, no data and
no record), for any modes, tasks, clients, requesters of saves, lines, hashes and bounds, from
one invariant:

* `TypeCorrect`; data and file names of media are sequences of any length.
* `MemoriesHaveFiles` (`EveryMemoryHasItsFile`): a file is never deleted and `FreeNames` gives one
  that does not exist, so that it is none that an index, saved or not, names.
* `MediaAreWhole` (`MediaHaveTheirData`): likewise, with `cut`, which a name of an index never
  enters.
* `MemoriesAreOwn` (`OwnMemory`): from `NamesAreOwn`, which says it of every place that holds an
  access mode (the database, the saves, the disk, and the copies of clients that are not
  `lost`), and `IndexesGrow`: the index in memory extends those being saved and the saved one,
  and has no id at or above its `last_memory_id`, so that what a copy names is still what it
  was. `MemoriesTaken` says that a client that edits a memory has one.
* `WholeSavesAgree` (`SavedTogether`): from `LoneSaves`, what the files hold at each stage of a
  save that is alone.
* `ThreadEndsFor` (`ThreadSurvives`): from the others, for the request that ended it.
* `NotesAreApart` (`NotesStayInMode`): from `NotesArePure`, which says it of the files by their
  names and of the data of calls under way: files of memories that were lost count, since
  their names may come back with an index.

`Sessions_proofs`, from `SessionsAssumption` (sessions, streams and the clock are counted, the
sentinels are no values, no announcement is `None`):

* `TypeCorrect`: `TypeOK` is part of `Base`, with `Places`, what the stage of a stream says of
  its hand and its channels (one in its send has an update in its hand), `Announced`, who is
  still to be told in an announcement and that nobody was told anything newer, and
  `Unissued`, a key not handed out has no session.
* `UpdatesAreConserved` (`UpdatesConserved`): `Conserved` restates it per session, per stream and
  per pair of streams, as sets and orders of `Has(t)`, what a stream carries or lost, so that a
  step of one stream disturbs few of them. `Announced` is what makes an update new to the
  session it is sent to, so that no stream can hold it already.
* `EvictedSessionsWereIdle` (`EvictedWasIdle`): from `IdleInv`, which says that a channel not
  refilled is no longer than the length noted and, when it is as long, was not taken from
  since the length last fell. The second reading of the length, after the send, is what
  needs it in that form: a stream may have taken the update in between.
* `LoginsFindTheirDevice` (`LoginNamesItsDevice`): from `SeenNone`, a login that found no device
  had compared all those there were when it looked.

### What TLC alone checks

Every safety property of a passing run is stated by a theorem. TLC alone checks liveness
under fairness (`PrioAnswered`, `NormalAnswered`, `EventuallySaved`,
`QueuedStarted`, `BacklogAccepted`, `RoundsEnd`, `UpdatesDelivered`), which the prover does not
do, and the three violations, whose counterexamples are what they show.

## 5. Not modelled

Interactive setup, logging and HTTP details; the legacy modules the server does
not reach (`files.rs`, `folders.rs`, `description.rs`, `create_prompt.rs`,
`ai_response.rs`, `openai_simple_impl`); arithmetic, web search and prompt parsing,
which keep no state; `Info` requests and the retrieval of items, which only read.

Met while modelling, and stated by no run. Each shows in the actions of a module:

* `Job::schedule` rounds the elapsed intervals of a regular job down, so that its next
  execution lies in the past and it runs every 500 ms, where `jobs.txt:54` says one delay
  apart (`NextInterval`).
* A daily job started in the second before its time runs again the same day, against
  `jobs.txt:55` (`WakeUp`, `NextOfDay`).
* An interval of zero, which the jobs tool takes (`tools.rs:1194`), ends the job thread on a
  division after the first run (`jobs.rs:369`, `Unschedulable`); a callback added without a
  description ends it on an unwrap (`jobs.rs:313`, `PanicUndescribed`). Adding a job after
  that ends the database thread.
* An update that arrives after the removal of its item brings it back and is answered
  `ItemNotFound` (`chats.rs:163`, `mod.rs:169`, `TellOfUpdate`): its requester alone has it not.
  A job put back so is in nobody's list before the next restart (`jobs.rs:497`, `revived`).
* A call that fails takes the outputs of the calls before it with it (`tools.rs:1605`), where
  `tool_use.txt:14` and 36 promise the outputs and errors of all calls (`WithOutput`). What
  the model is told of its calls is stated by no property.
* Of two calls of the Memory tool that overlap in one access mode, the later drops the lines
  of the other, where `memory.txt:71` says that all lines will be added (`mod.rs:810`,
  `Update`).
* An agent without tools, which `agent.txt:25` allows, panics the task that asked for it
  (`tools.rs:750`, `HearAgent`).
* Files are truncated in place (`loading_saving.rs:98`), and a start unwraps their loading
  (`mod.rs:70`): after a crash in between the server does not start again (`Crash` and
  `Load` of `Persistence`).
* Any client may send `Save` while the saving thread writes, and the two writers share no lock
  (`mod.rs:713`): an older state may stay on disk with the flag clear, or a file that is no
  JSON, with which no start succeeds (`Write` of `Persistence`).
* An access mode saved without its memory ends the database thread at the next round in it
  (`mod.rs:839`, 854; `astray` of `Memories`). Its memory's id is handed out again; if that is
  to another mode, the two share their notes. An access mode that a client took before
  a restart and sends back after it does the same.
* A medium added again under its name for the 22nd time asks for a 33rd byte of its hash and
  panics the thread (`media.rs:86`); so does one updated until its name is too long
  (`media.rs:43`, `Unnameable`), and one whose data is not base64 (`media.rs:123`,
  `MalformedMedia`).
* Notes cut by a crash inside a character end the thread when they are read
  (`memories.rs:124`, 138, `garbled`).
* Adding to notes that were emptied begins them with a blank line; the number
  `persistent_add` reports for it, and for the next line added, is not the one
  `persistent_get` shows (`tools.rs:952`, `Extended`).
* Memories made by a tool call do not set `changed_since_last_save` when they are the first
  notes of an access mode (`mod.rs:820`, `Update`).
* Two logins of one device that overlap add it twice (`auth_web_handlers.rs:36`, `blind`).
* A session that was told nothing since its login is evicted at the first announcement after
  three days, though its client is connected; its stream ends, and it must log in again. A
  session whose client has gone is not evicted as long as announcements are less than three
  days apart, since each sets `last_decrease` anew; nothing bounds its channel (`Quiet`, `Send`).
* A container that could not be reached within five seconds is not stopped, though its port
  is given back (`main.rs:81` of the python server): `PortsConserved` is about the server's
  ports, and docker may refuse the next container on such a one.
* `MemReqMax::MaxRecentFirst` takes any ten memories in the order of a hash map
  (`memories.rs:100`), so that the automatic memory of a round need not have the latest; it
  is not modelled.
