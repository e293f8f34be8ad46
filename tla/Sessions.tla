------------------------------ MODULE Sessions ------------------------------
(***************************************************************************)
(* The sessions of the database thread (auth_sessions of                   *)
(* src/src/database/mod.rs), the streams that carry their updates to the   *)
(* clients (db_post_handler of database_web_handlers.rs), and the login    *)
(* that opens a session and finds the client's device (auth_post_handler   *)
(* of auth_web_handlers.rs).                                               *)
(*                                                                         *)
(* A session has an unbounded channel.  A client asks for a stream: a task *)
(* with a clone of the channel's receiver, which hands what it receives to *)
(* an HTTP response through a bounded channel.  The clones of a receiver   *)
(* share one channel, and each update is received by one of them.          *)
(*                                                                         *)
(* An update is its number in the order of the announcements.              *)
(***************************************************************************)
EXTENDS Integers, Sequences, FiniteSets

CONSTANTS
  Sessions,     \* the keys the thread generates, one for each login, numbered in order
  Streams,      \* the tasks that carry updates, one for each request, numbered in order
  Descriptions, \* model, name and type of the clients' devices
  ServerDevice, \* the description of device 0
  BufferSize,   \* of the channel to the HTTP response: 1000 in the code
  QuietDays,    \* 3 in the code
  MaxDay,       \* bound: days
  MaxUpdates,   \* bound: announcements
  Local, None

Updates == 1 .. MaxUpdates

\* The database thread in the loop of an announcement: the sessions it has still to
\* go through, the one whose update it has just sent, those it found quiet.
Announcements == [update : Updates, left : SUBSET Sessions, sent : Sessions \cup {None},
                  evicted : SUBSET Sessions]

ASSUME SessionsAssumption ==
  /\ Sessions \subseteq Nat /\ Streams \subseteq Nat
  /\ BufferSize \in Nat \ {0} /\ QuietDays \in Nat
  /\ MaxDay \in Nat /\ MaxUpdates \in Nat
  /\ Local \notin Sessions /\ None \notin Nat /\ None \notin Announcements
  /\ ServerDevice \notin Descriptions

VARIABLES
  day,          \* the clock
  devices,      \* the descriptions of the devices, by id + 1
  login,        \* each login: its stage, its device's description, what it found
  live,         \* auth_sessions
  channel,      \* pending updates of each session
  lastLen,      \* last_len
  lastDecrease, \* last_decrease
  announcing,   \* the announcement the database thread is in
  updates,      \* how many announcements were begun
  stream,       \* each stream's task
  buffer,       \* its channel to the response
  got,          \* what its client has received
  dropped,      \* what it lost when its client went away
  told,         \* history: what each session was told
  taken,        \* history: the day a stream last took an update of the session
  refilled,     \* history: sessions told something by a tool request since their counters were set
  blind         \* history: a login added a device after another did, unseen

counters == <<lastLen, lastDecrease>>
streamVars == <<stream, buffer, got, dropped>>
loginVars == <<devices, login, blind>>
history == <<told, taken, refilled>>
vars == <<day, loginVars, live, channel, counters, announcing, updates, streamVars, history>>

NoLogin == [stage |-> "none", description |-> ServerDevice, id |-> 0, seen |-> 0]
NoStream == [stage |-> "unused", session |-> None, hand |-> None]

Init ==
  /\ day = 0
  /\ devices = <<ServerDevice>>
  /\ login = [s \in Sessions |-> NoLogin]
  /\ live = {}
  /\ channel = [s \in Sessions |-> <<>>]
  /\ lastLen = [s \in Sessions |-> 0] /\ lastDecrease = [s \in Sessions |-> 0]
  /\ announcing = None
  /\ updates = 0
  /\ stream = [t \in Streams |-> NoStream]
  /\ buffer = [t \in Streams |-> <<>>] /\ got = [t \in Streams |-> <<>>]
  /\ dropped = [t \in Streams |-> {}]
  /\ told = [s \in Sessions |-> <<>>]
  /\ taken = [s \in Sessions |-> 0]
  /\ refilled = {}
  /\ blind = FALSE

Free == announcing = None

\* An announcement falls within one day.
Pass ==
  /\ Free /\ day < MaxDay
  /\ day' = day + 1
  /\ UNCHANGED <<loginVars, live, channel, counters, announcing, updates, streamVars, history>>

-----------------------------------------------------------------------------
(* Announcements: handle_add_request, handle_update_request and             *)
(* handle_remove_request.  The streams go on while the thread is in the loop. *)

\* The loop over the sessions but the requester's begins.
Begin(requester) ==
  /\ updates' = updates + 1
  /\ announcing' = [update |-> updates + 1, left |-> live \ {requester},
                    sent |-> None, evicted |-> {}]

Announce(requester) ==
  /\ Free /\ updates < MaxUpdates
  /\ requester \in live \cup {Local}
  /\ Begin(requester)
  /\ UNCHANGED <<day, loginVars, live, channel, counters, streamVars, history>>

\* Mutant: the length is not looked at.
QuietWhateverLength(s) == day - lastDecrease[s] > QuietDays

Quiet(s) == lastLen[s] = Len(channel[s]) /\ day - lastDecrease[s] > QuietDays

\* One session's turn: the counters are looked at, and the update is sent.
Send(s) ==
  /\ ~Free /\ announcing.sent = None /\ s \in announcing.left
  /\ lastDecrease' = IF Quiet(s) THEN lastDecrease ELSE [lastDecrease EXCEPT ![s] = day]
  /\ channel' = [channel EXCEPT ![s] = Append(@, announcing.update)]
  /\ told' = [told EXCEPT ![s] = Append(@, announcing.update)]
  /\ announcing' = [announcing EXCEPT !.sent = s,
                      !.evicted = IF Quiet(s) THEN @ \cup {s} ELSE @]
  /\ UNCHANGED <<day, loginVars, live, lastLen, updates, streamVars, taken, refilled>>

\* The length is read again, when a stream may have taken the update.
NoteLength ==
  /\ ~Free /\ announcing.sent # None
  /\ lastLen' = [lastLen EXCEPT ![announcing.sent] = Len(channel[announcing.sent])]
  /\ announcing' = [announcing EXCEPT !.left = @ \ {announcing.sent}, !.sent = None]
  /\ refilled' = refilled \ {announcing.sent}
  /\ UNCHANGED <<day, loginVars, live, channel, lastDecrease, updates, streamVars, told, taken>>

EndAnnounce ==
  /\ ~Free /\ announcing.left = {}
  /\ live' = live \ announcing.evicted
  /\ announcing' = None
  /\ UNCHANGED <<day, loginVars, channel, counters, updates, streamVars, history>>

\* A tool request tells every session and looks at no counter.
ToolAnnounce ==
  /\ Free /\ updates < MaxUpdates
  /\ updates' = updates + 1
  /\ channel' = [s \in Sessions |-> IF s \in live THEN Append(channel[s], updates + 1)
                                    ELSE channel[s]]
  /\ told' = [s \in Sessions |-> IF s \in live THEN Append(told[s], updates + 1)
                                 ELSE told[s]]
  /\ refilled' = refilled \cup live
  /\ UNCHANGED <<day, loginVars, live, counters, announcing, streamVars, taken>>

-----------------------------------------------------------------------------
(* Login *)

\* NewAuthKey, once the name and the password were found right.
NewKey(s, d) ==
  /\ Free /\ login[s].stage = "none"
  /\ \A r \in Sessions : login[r].stage = "none" => s <= r
  /\ login' = [login EXCEPT ![s] = [NoLogin EXCEPT !.stage = "keyed", !.description = d]]
  /\ live' = live \cup {s}
  /\ lastDecrease' = [lastDecrease EXCEPT ![s] = day]
  /\ taken' = [taken EXCEPT ![s] = day]
  /\ UNCHANGED <<day, devices, blind, channel, lastLen, announcing, updates, streamVars,
                 told, refilled>>

\* Mutant: the ids are counted from 1.
MatchesFromOne(d) == {i \in 1 .. Len(devices) - 1 : devices[i] = d}

\* The ids of the devices that look like the client's.
Matches(d) == {i \in 0 .. Len(devices) - 1 : devices[i + 1] = d}

\* NumbersOfItems and a Get for each device until one matches.  No device is ever
\* removed, and clients that describe one anew (Update(Device)) are left out, so
\* that the answers are those of one instant.
LookForDevice(s) ==
  /\ Free /\ login[s].stage = "keyed"
  /\ \/ /\ Matches(login[s].description) = {}
        /\ login' = [login EXCEPT ![s].stage = "missing", ![s].seen = Len(devices)]
     \/ \E i \in Matches(login[s].description) :
          /\ \A k \in Matches(login[s].description) : i <= k
          /\ login' = [login EXCEPT ![s].stage = "done", ![s].id = i]
  /\ UNCHANGED <<day, devices, blind, live, channel, counters, announcing, updates,
                 streamVars, history>>

\* Add(Device): an announcement to every session.
AddDevice(s) ==
  /\ Free /\ login[s].stage = "missing" /\ updates < MaxUpdates
  /\ devices' = Append(devices, login[s].description)
  /\ login' = [login EXCEPT ![s].stage = "done", ![s].id = Len(devices)]
  /\ blind' = (blind \/ login[s].seen # Len(devices))
  /\ Begin(Local)
  /\ UNCHANGED <<day, live, channel, counters, streamVars, history>>

-----------------------------------------------------------------------------
(* Streams *)

\* db_post_handler: the key is verified, then the receiver is asked for.
AskStream(t, s) ==
  /\ Free /\ s \in live
  /\ stream[t].stage = "unused"
  /\ \A u \in Streams : stream[u].stage = "unused" => t <= u
  /\ login[s].stage = "done"
  /\ stream' = [stream EXCEPT ![t] = [stage |-> "asked", session |-> s, hand |-> None]]
  /\ UNCHANGED <<day, loginVars, live, channel, counters, announcing, updates, buffer, got,
                 dropped, history>>

\* An evicted session's request is not answered: 403 after three seconds.
OpenStream(t) ==
  /\ Free /\ stream[t].stage = "asked"
  /\ stream' = [stream EXCEPT ![t].stage =
                  IF stream[t].session \in live THEN "receiving" ELSE "ended"]
  /\ UNCHANGED <<day, loginVars, live, channel, counters, announcing, updates, buffer, got,
                 dropped, history>>

\* Whether the response is still read is a second part of the stage: "broken"
\* receives and "breaking" sends for a client that has gone, "left" has ended.
Connected(t) == stream[t].stage \in {"receiving", "sending"}

\* Mutant: a stream gives out the latest update.
TakenLast(s) == channel[s][Len(channel[s])]

Taken(s) == Head(channel[s])

\* recv_timeout: an update, if there is one; the sleep that follows a timeout is
\* only time.
Receive(t) ==
  LET s == stream[t].session IN
  /\ stream[t].stage \in {"receiving", "broken"}
  /\ channel[s] # <<>>
  /\ stream' = [stream EXCEPT ![t].hand = Taken(s),
                  ![t].stage = IF @ = "receiving" THEN "sending" ELSE "breaking"]
  /\ channel' = [channel EXCEPT ![s] = Tail(@)]
  /\ taken' = [taken EXCEPT ![s] = day]
  /\ UNCHANGED <<day, loginVars, live, counters, announcing, updates, buffer, got, dropped,
                 told, refilled>>

\* Mutant: the stream of an evicted session ends at once.
OverEvicted(s) == s \notin live

\* The sender of an evicted session is gone: Disconnected, once the channel is empty.
Over(s) == s \notin live /\ channel[s] = <<>>

EndStream(t) ==
  /\ stream[t].stage \in {"receiving", "broken"}
  /\ Over(stream[t].session)
  /\ stream' = [stream EXCEPT ![t].stage = IF @ = "receiving" THEN "ended" ELSE "left"]
  /\ UNCHANGED <<day, loginVars, live, channel, counters, announcing, updates, buffer, got,
                 dropped, history>>

\* Mutant: the channel to the response is unbounded.
RoomAlways(t) == TRUE

HasRoom(t) == Len(buffer[t]) < BufferSize

\* The send to the response waits for room.
Forward(t) ==
  /\ stream[t].stage = "sending" /\ HasRoom(t)
  /\ buffer' = [buffer EXCEPT ![t] = Append(@, stream[t].hand)]
  /\ stream' = [stream EXCEPT ![t].hand = None, ![t].stage = "receiving"]
  /\ UNCHANGED <<day, loginVars, live, channel, counters, announcing, updates, got, dropped,
                 history>>

\* The response is gone: the send fails, the task ends.
ForwardFails(t) ==
  /\ stream[t].stage = "breaking"
  /\ dropped' = [dropped EXCEPT ![t] = @ \cup {stream[t].hand}]
  /\ stream' = [stream EXCEPT ![t].hand = None, ![t].stage = "left"]
  /\ UNCHANGED <<day, loginVars, live, channel, counters, announcing, updates, buffer, got,
                 history>>

\* The client reads its response.
Read(t) ==
  /\ Connected(t) \/ stream[t].stage = "ended"
  /\ buffer[t] # <<>>
  /\ got' = [got EXCEPT ![t] = Append(@, Head(buffer[t]))]
  /\ buffer' = [buffer EXCEPT ![t] = Tail(@)]
  /\ UNCHANGED <<day, loginVars, live, channel, counters, announcing, updates, stream, dropped,
                 history>>

\* The client goes away: the response is dropped with what is in its channel.
Disconnect(t) ==
  /\ Connected(t)
  /\ stream' = [stream EXCEPT ![t].stage = IF @ = "receiving" THEN "broken" ELSE "breaking"]
  /\ dropped' = [dropped EXCEPT ![t] = {buffer[t][i] : i \in DOMAIN buffer[t]}]
  /\ buffer' = [buffer EXCEPT ![t] = <<>>]
  /\ UNCHANGED <<day, loginVars, live, channel, counters, announcing, updates, got, history>>

-----------------------------------------------------------------------------
AnnounceStep == (\E s \in Sessions : Send(s)) \/ NoteLength \/ EndAnnounce
StreamStep(t) ==
  OpenStream(t) \/ Receive(t) \/ EndStream(t) \/ Forward(t) \/ ForwardFails(t)

Next ==
  \/ Pass
  \/ \E requester \in Sessions \cup {Local} : Announce(requester)
  \/ AnnounceStep \/ ToolAnnounce
  \/ \E s \in Sessions :
       \/ \E d \in Descriptions : NewKey(s, d)
       \/ LookForDevice(s) \/ AddDevice(s)
  \/ \E t \in Streams :
       \/ \E s \in Sessions : AskStream(t, s)
       \/ StreamStep(t) \/ Read(t) \/ Disconnect(t)

Spec == Init /\ [][Next]_vars

\* The thread ends its loops, the runtime runs the tasks, and a client that
\* stays connected reads its response.
Fairness ==
  /\ WF_vars(AnnounceStep)
  /\ \A t \in Streams : WF_vars(StreamStep(t)) /\ WF_vars(Read(t))

FairSpec == Spec /\ Fairness

-----------------------------------------------------------------------------
(* Properties *)

ThreadTypes ==
  /\ day \in 0 .. MaxDay /\ updates \in 0 .. MaxUpdates
  /\ announcing \in Announcements \cup {None}
Logins == [stage : {"none", "keyed", "missing", "done"},
           description : Descriptions \cup {ServerDevice}, id : Nat, seen : Nat]
LoginTypes ==
  /\ devices \in Seq(Descriptions \cup {ServerDevice}) /\ devices # <<>>
  /\ login \in [Sessions -> Logins]
  /\ blind \in BOOLEAN
SessionTypes ==
  /\ live \subseteq Sessions /\ refilled \subseteq Sessions
  /\ channel \in [Sessions -> Seq(Updates)] /\ told \in [Sessions -> Seq(Updates)]
  /\ lastLen \in [Sessions -> Nat]
  /\ lastDecrease \in [Sessions -> 0 .. MaxDay] /\ taken \in [Sessions -> 0 .. MaxDay]
StreamStates == [stage : {"unused", "asked", "receiving", "sending", "broken", "breaking",
                          "ended", "left"},
                 session : Sessions \cup {None}, hand : Updates \cup {None}]
StreamTypes ==
  /\ stream \in [Streams -> StreamStates]
  /\ buffer \in [Streams -> Seq(Updates)] /\ got \in [Streams -> Seq(Updates)]
  /\ \A t \in Streams : Len(buffer[t]) <= BufferSize
  /\ dropped \in [Streams -> SUBSET Updates]

\* Every variable keeps its type, and the channels to the responses their size.
TypeOK == ThreadTypes /\ LoginTypes /\ SessionTypes /\ StreamTypes

\* Everything a stream took and has not dropped, in the order it gives it out.
Hand(t) == IF stream[t].hand = None THEN <<>> ELSE <<stream[t].hand>>
Carried(t) == got[t] \o buffer[t] \o Hand(t)
Elements(seq) == {seq[i] : i \in DOMAIN seq}
StreamsOf(s) == {t \in Streams : stream[t].session = s}
Ascending(seq) == \A i, k \in DOMAIN seq : i < k => seq[i] < seq[k]

\* What a session was told is, each update once, in its channel, with one of its
\* streams, or lost by one whose client went away, which loses one update more
\* than it had ready at most.  Each stream gives its part out in order, and a
\* client that only asked for one, and stays, misses nothing.
UpdatesConserved ==
  \A s \in Sessions :
    /\ Elements(told[s]) = Elements(channel[s])
         \cup UNION {Elements(Carried(t)) \cup dropped[t] : t \in StreamsOf(s)}
    /\ \A t \in StreamsOf(s) :
         /\ Ascending(Carried(t) \o channel[s])
         /\ (Elements(Carried(t)) \cup dropped[t]) \cap Elements(channel[s]) = {}
         /\ Elements(Carried(t)) \cap dropped[t] = {}
         /\ Cardinality(dropped[t]) <= BufferSize + 1
         /\ \A u \in StreamsOf(s) \ {t} :
              (Elements(Carried(t)) \cup dropped[t])
                \cap (Elements(Carried(u)) \cup dropped[u]) = {}
         /\ Connected(t) /\ StreamsOf(s) = {t} => Carried(t) \o channel[s] = told[s]

\* A session is found quiet, to be evicted, only if no stream has taken an update
\* of it for the quiet time, unless a tool request has filled its channel again
\* since.  (A stream may still take one while the announcement goes on.)
evicting == IF announcing = None THEN {} ELSE announcing.evicted
EvictedWasIdle ==
  [][\A s \in evicting' \ evicting : s \in refilled \/ day - taken[s] > QuietDays]_vars

\* A login that ends names a device that is described as the client's, and there
\* are two devices of one description only if a login added one without having
\* seen the other.
LoginNamesItsDevice ==
  /\ \A s \in Sessions : login[s].stage = "done" =>
       login[s].id < Len(devices) /\ devices[login[s].id + 1] = login[s].description
  /\ ~blind => \A i, k \in DOMAIN devices : devices[i] = devices[k] => i = k

\* What a session that has a stream was told reaches a client of it, also when
\* the session is evicted meanwhile, or is lost by a stream whose client went
\* away, unless the stream's own client goes away.
Gone(t) == stream[t].stage \in {"broken", "breaking", "left"}
UpdatesDelivered ==
  \A t \in Streams, n \in Updates :
    Connected(t) /\ n \in Elements(told[stream[t].session]) ~>
      \/ \E u \in StreamsOf(stream[t].session) : n \in Elements(got[u]) \cup dropped[u]
      \/ Gone(t)
=============================================================================
