--------------------------- MODULE MCJobScheduler ---------------------------
(* JobScheduler on a few jobs.  A day is shortened to two seconds and the    *)
(* delay of an ASAP job to one and a half; WakeUp's one second is the code's. *)
EXTENDS JobScheduler, TLC

CONSTANTS j1, j2, j3, j4

J(timing, time, repeat, period, type) ==
  [timing |-> timing, time |-> time, repeat |-> repeat, period |-> period,
   type |-> type, described |-> TRUE]

\* One of each timing: a callback that a client gave no description, a reminder
\* every day, a title, a reminder at intervals of zero.
Mixed == j1 :> [J("asap", 0, "no", 0, "callback") EXCEPT !.described = FALSE]
      @@ j2 :> J("ontime", 2, "everyday", 3, "reminder")
      @@ j3 :> J("drought", 0, "no", 0, "title")
      @@ j4 :> J("ontime", 1, "interval", 0, "reminder")

Regular == j1 :> J("ontime", 4, "interval", 8, "reminder")
=============================================================================
