---------------------------- MODULE PythonServer ----------------------------
(***************************************************************************)
(* The python tool server, src/python_tool_server/src/main.rs, and the     *)
(* tool calls made to it by python_tool in src/src/ai_interaction/tools.rs. *)
(*                                                                         *)
(* The main thread accepts one connection after the other and reads its    *)
(* request, the queue handler gives each request a port and a thread of    *)
(* its own, and the thread starts an executor in a container and passes its *)
(* output along.  A thread gives its port back on a channel; the handler   *)
(* looks at that channel only now and then.  Callers stop waiting when they *)
(* like; docker and the executors are external, and any call may fail.     *)
(*                                                                         *)
(* Timeouts are choices.  The contents of requests and answers are left    *)
(* out: an answer is what a caller has when it has read a byte 255.        *)
(***************************************************************************)
EXTENDS Naturals, Sequences, SequencesExt, FiniteSets

CONSTANTS
  Calls,      \* the tool calls
  PortOrder,  \* the ports, in their first order
  None

Ports == Range(PortOrder)

ASSUME PythonServerAssumption ==
  /\ PortOrder \in Seq(Ports) /\ IsInjective(PortOrder)
  /\ None \notin Calls /\ None \notin Ports

VARIABLES
  call,      \* where each caller stands
  cut,       \* the calls closed before the whole request was written
  hungUp,    \* the calls whose stream the server dropped without an end
  backlog,   \* connections not accepted yet
  listener,  \* the main thread
  reading,   \* the connection it reads
  queue,     \* requests read and not started
  handler,   \* the queue handler: choosing what to wait for, or collecting
  ports,     \* the handler's free ports
  inFlight,  \* in_flight
  finished,  \* finished_queue
  thread     \* the thread of each call, and its port

callers == <<call, cut>>
main == <<backlog, listener, reading>>
handling == <<handler, ports, inFlight>>
vars == <<callers, hungUp, main, queue, handling, finished, thread>>

Up == listener # "down"
NoThread == [stage |-> "none", port |-> None]

Init ==
  /\ call = [c \in Calls |-> "idle"] /\ cut = {} /\ hungUp = {}
  /\ backlog = <<>> /\ listener = "accepting" /\ reading = None
  /\ queue = <<>>
  /\ handler = "choosing" /\ ports = PortOrder /\ inFlight = 0
  /\ finished = <<>>
  /\ thread = [c \in Calls |-> NoThread]

-----------------------------------------------------------------------------
(* Callers: python_tool *)

Connect(c) ==
  /\ Up /\ call[c] = "idle"
  /\ call' = [call EXCEPT ![c] = "writing"]
  /\ backlog' = Append(backlog, c)
  /\ UNCHANGED <<cut, hungUp, listener, reading, queue, handling, finished, thread>>

Written(c) ==
  /\ call[c] = "writing"
  /\ call' = [call EXCEPT ![c] = "waiting"]
  /\ UNCHANGED <<cut, hungUp, main, queue, handling, finished, thread>>

\* The write times out after 15 s, or the caller dies.
Cut(c) ==
  /\ call[c] = "writing"
  /\ call' = [call EXCEPT ![c] = "failed"]
  /\ cut' = cut \cup {c}
  /\ UNCHANGED <<hungUp, main, queue, handling, finished, thread>>

\* Nothing was read for 15 s, or the caller dies.
GiveUp(c) ==
  /\ call[c] = "waiting"
  /\ call' = [call EXCEPT ![c] = "failed"]
  /\ UNCHANGED <<cut, hungUp, main, queue, handling, finished, thread>>

\* On a stream that has ended read returns 0 bytes at once, and the loop goes
\* round for ever: the timeout never strikes.
Spin(c) ==
  /\ call[c] = "waiting" /\ c \in hungUp
  /\ call' = [call EXCEPT ![c] = "stuck"]
  /\ UNCHANGED <<cut, hungUp, main, queue, handling, finished, thread>>

Answered(c) ==
  IF call[c] = "waiting" THEN [call EXCEPT ![c] = "answered"] ELSE call

-----------------------------------------------------------------------------
(* The main thread: listening_loop *)

AcceptingWithRoom == listener = "accepting" /\ inFlight < Len(PortOrder)   \* mutant

Accepting == listener = "accepting"

Accept ==
  /\ Accepting /\ backlog # <<>>
  /\ listener' = "reading" /\ reading' = Head(backlog)
  /\ backlog' = Tail(backlog)
  /\ UNCHANGED <<callers, hungUp, queue, handling, finished, thread>>

Whole(c) == call[c] # "writing" /\ c \notin cut

Enqueue ==
  /\ listener = "reading" /\ Whole(reading)
  /\ queue' = Append(queue, reading)
  /\ listener' = "accepting" /\ reading' = None
  /\ UNCHANGED <<callers, hungUp, backlog, handling, finished, thread>>

\* A request that makes no sense, or an error while reading, is answered.
Refuse ==
  /\ listener = "reading"
  /\ Whole(reading) \/ reading \in cut
  /\ call' = Answered(reading)
  /\ listener' = "accepting" /\ reading' = None
  /\ UNCHANGED <<cut, hungUp, backlog, queue, handling, finished, thread>>

\* The answer is unwrapped: when the caller has closed, the main thread may
\* panic, which ends the process and drops every stream.
RefusePanics ==
  /\ listener = "reading" /\ call[reading] = "failed"
  /\ listener' = "down" /\ reading' = None
  /\ hungUp' = Calls
  /\ UNCHANGED <<callers, backlog, queue, handling, finished, thread>>

\* The end of a stream that was cut reads as 0 bytes, again and again.
ReadNothing ==
  /\ listener = "reading" /\ reading \in cut
  /\ listener' = "spinning"
  /\ UNCHANGED <<callers, hungUp, backlog, reading, queue, handling, finished, thread>>

Listener == Accept \/ Enqueue \/ Refuse \/ RefusePanics \/ ReadNothing

-----------------------------------------------------------------------------
(* The queue handler: handling_loop *)

HasRoomBut1 == inFlight + 1 < Len(PortOrder) /\ ports # <<>>   \* mutant

HasRoom == inFlight < Len(PortOrder) /\ ports # <<>>

PortsKept(s) == s   \* mutant
PortsLeft(s) == Tail(s)

InFlightNow == inFlight + 1

QueueKept(s) == s   \* mutant
QueueLeft(s) == Tail(s)

Begin ==
  /\ Up /\ handler = "choosing" /\ HasRoom
  /\ queue # <<>>
  /\ thread' = [thread EXCEPT ![Head(queue)] = [stage |-> "creating", port |-> Head(ports)]]
  /\ queue' = QueueLeft(queue) /\ ports' = PortsLeft(ports)
  /\ inFlight' = InFlightNow
  /\ handler' = "collecting"
  /\ UNCHANGED <<callers, hungUp, main, finished>>

\* One port at most is taken back after each request, within a second.
CollectNothing ==
  /\ Up /\ handler = "collecting" /\ finished = <<>>
  /\ handler' = "choosing"
  /\ UNCHANGED <<callers, hungUp, main, queue, ports, inFlight, finished, thread>>

Collect ==
  /\ Up /\ finished # <<>>
  /\ handler = "collecting" \/ ~HasRoom
  /\ ports' = Append(ports, Head(finished)) /\ finished' = Tail(finished)
  /\ inFlight' = inFlight - 1
  /\ handler' = "choosing"
  /\ UNCHANGED <<callers, hungUp, main, queue, thread>>

Handler == Begin \/ CollectNothing \/ Collect

-----------------------------------------------------------------------------
(* The thread of a call: InFlightExecution *)

Stage(c, stage) == thread' = [thread EXCEPT ![c].stage = stage]

\* The container runs, and the request was written to its executor.
Reach(c) ==
  /\ Up /\ thread[c].stage = "creating"
  /\ Stage(c, "running")
  /\ UNCHANGED <<callers, hungUp, main, queue, handling, finished>>

\* docker failed or the executor could not be reached: the caller is told.
NotReached(c) ==
  /\ Up /\ thread[c].stage = "creating"
  /\ call' = Answered(c)
  /\ finished' = Append(finished, thread[c].port)
  /\ Stage(c, "ended")
  /\ UNCHANGED <<cut, hungUp, main, queue, handling>>

\* Writing to the executor, or to a caller that closed, fails and is unwrapped:
\* the stream and the port are lost with the thread.
Panic(c) ==
  /\ Up /\ thread[c].stage = "creating"
  /\ Stage(c, "panicked")
  /\ hungUp' = hungUp \cup {c}
  /\ UNCHANGED <<callers, main, queue, handling, finished>>

\* The end of the executor's own output is passed along; the thread goes on.
PassEnd(c) ==
  /\ Up /\ thread[c].stage = "running" /\ call[c] = "waiting"
  /\ call' = Answered(c)
  /\ UNCHANGED <<cut, hungUp, main, queue, handling, finished, thread>>

\* 15 s have passed, or a stream failed.
Finish(c) ==
  /\ Up /\ thread[c].stage = "running"
  /\ call' = Answered(c)
  /\ finished' = Append(finished, thread[c].port)
  /\ Stage(c, "ended")
  /\ UNCHANGED <<cut, hungUp, main, queue, handling>>

Execution(c) == Reach(c) \/ NotReached(c) \/ Panic(c) \/ Finish(c)

Next ==
  \/ \E c \in Calls : \/ Connect(c) \/ Written(c) \/ Cut(c) \/ GiveUp(c) \/ Spin(c)
                      \/ Execution(c) \/ PassEnd(c)
  \/ Listener \/ Handler

Spec == Init /\ [][Next]_vars

\* Threads go on; a write ends or times out; an execution lasts 15 s at most.
Fairness ==
  /\ WF_vars(Listener) /\ WF_vars(Handler)
  /\ \A c \in Calls : WF_vars(Execution(c)) /\ WF_vars(Written(c) \/ Cut(c))

FairSpec == Spec /\ Fairness

-----------------------------------------------------------------------------
(* Properties *)

\* Every variable keeps its type.
TypeOK ==
  /\ call \in [Calls -> {"idle", "writing", "waiting", "answered", "failed", "stuck"}]
  /\ cut \subseteq Calls /\ hungUp \subseteq Calls
  /\ backlog \in Seq(Calls) /\ queue \in Seq(Calls)
  /\ listener \in {"accepting", "reading", "spinning", "down"}
  /\ reading \in Calls \cup {None}
  /\ listener \in {"reading", "spinning"} <=> reading # None
  /\ handler \in {"choosing", "collecting"}
  /\ ports \in Seq(Ports) /\ finished \in Seq(Ports) /\ inFlight \in Nat
  /\ thread \in [Calls -> [stage : {"none", "creating", "running", "ended", "panicked"},
                           port : Ports \cup {None}]]

\* A call holds its port until it gives it back, for ever if its thread panics.
Holds(c, p) == thread[c].stage \in {"creating", "running", "panicked"} /\ thread[c].port = p
Held(p) == \E c \in Calls : Holds(c, p)

\* Each port is free, held by one call or on its way back, and in one of these
\* places only; in_flight counts those that are not free and never underflows.
PortsConserved ==
  /\ IsInjective(ports) /\ IsInjective(finished)
  /\ \A c, d \in Calls : \A p \in Ports : Holds(c, p) /\ Holds(d, p) => c = d
  /\ \A p \in Ports : \/ p \in Range(ports) /\ p \notin Range(finished) /\ ~Held(p)
                      \/ p \notin Range(ports) /\ p \in Range(finished) /\ ~Held(p)
                      \/ p \notin Range(ports) /\ p \notin Range(finished) /\ Held(p)
  /\ inFlight + Len(ports) = Len(PortOrder)

\* A call is executed at most once, however its caller and its thread end: it is
\* in the backlog, being read, queued or started, and in one place only.
OnePlace ==
  LET started == {c \in Calls : thread[c].stage # "none"}
  IN  /\ IsInjective(backlog) /\ IsInjective(queue)
      /\ Range(backlog) \cap Range(queue) = {}
      /\ started \cap (Range(backlog) \cup Range(queue)) = {}
      /\ reading \notin started \cup Range(backlog) \cup Range(queue)

Lost == {p \in Ports : \E c \in Calls : thread[c].stage = "panicked" /\ thread[c].port = p}

\* A request that was read is started, although ports are taken back one at a
\* time and only after a request, as long as one port is not lost to a panic.
QueuedStarted ==
  \A c \in Calls :
    c \in Range(queue) ~> thread[c].stage # "none" \/ ~Up \/ Lost = Ports

\* A connection is accepted, though each may take its time to write, unless one
\* before it was cut or the process ended.
BacklogAccepted ==
  \A c \in Calls : c \in Range(backlog) ~> c \notin Range(backlog) \/ listener \in {"spinning", "down"}
=============================================================================
