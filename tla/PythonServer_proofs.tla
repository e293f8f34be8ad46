------------------------ MODULE PythonServer_proofs -------------------------
(* Proofs about the python tool server, for any calls and ports.             *)
EXTENDS PythonServer, TLAPS, SequenceTheorems, FiniteSetTheorems

-----------------------------------------------------------------------------
(* Sequences: their elements after Tail and Append.                          *)

LEMMA TailRange ==
  ASSUME NEW S, NEW s \in Seq(S), s # <<>>
  PROVE  /\ Head(s) \in S /\ Tail(s) \in Seq(S) /\ Len(Tail(s)) = Len(s) - 1
         /\ Head(s) \in Range(s) /\ Range(s) = Range(Tail(s)) \cup {Head(s)}
         /\ IsInjective(s) => IsInjective(Tail(s)) /\ Head(s) \notin Range(Tail(s))
<1>1. /\ Len(s) \in Nat /\ Len(s) > 0 /\ DOMAIN s = 1 .. Len(s)
      /\ Head(s) = s[1] /\ Head(s) \in S
      /\ Tail(s) \in Seq(S) /\ Len(Tail(s)) = Len(s) - 1 /\ DOMAIN Tail(s) = 1 .. Len(s) - 1
      /\ \A k \in 1 .. Len(s) - 1 : Tail(s)[k] = s[k + 1]
  BY HeadTailProperties
<1>2. \A k \in 1 .. Len(s) - 1 : k + 1 \in 1 .. Len(s) /\ k + 1 # 1
  BY <1>1
<1>3. \A k \in 1 .. Len(s) : k = 1 \/ (k - 1 \in 1 .. Len(s) - 1 /\ (k - 1) + 1 = k)
  BY <1>1
<1>4. 1 \in 1 .. Len(s)
  BY <1>1
<1>5. Range(Tail(s)) \subseteq Range(s)
  BY <1>1, <1>2 DEF Range
<1>6. Range(s) \subseteq Range(Tail(s)) \cup {Head(s)}
  <2>1. ASSUME NEW k \in 1 .. Len(s)
        PROVE  s[k] \in Range(Tail(s)) \cup {Head(s)}
    <3>1. CASE k = 1
      BY <1>1, <3>1
    <3>2. CASE k # 1
      <4>1. k - 1 \in DOMAIN Tail(s) /\ Tail(s)[k - 1] = s[k]
        BY <1>1, <1>3, <3>2
      <4>2. QED
        BY <4>1 DEF Range
    <3>3. QED
      BY <3>1, <3>2
  <2>2. QED
    BY <1>1, <2>1 DEF Range
<1>7. Head(s) \in Range(s)
  BY <1>1, <1>4 DEF Range
<1>8. ASSUME IsInjective(s)
      PROVE  IsInjective(Tail(s)) /\ Head(s) \notin Range(Tail(s))
  <2>1. \A i, k \in 1 .. Len(s) : s[i] = s[k] => i = k
    BY <1>1, <1>8 DEF IsInjective
  <2>2. \A i, k \in 1 .. Len(s) - 1 : Tail(s)[i] = Tail(s)[k] => i = k
    BY <1>1, <1>2, <2>1
  <2>3. \A k \in 1 .. Len(s) - 1 : Tail(s)[k] # Head(s)
    BY <1>1, <1>2, <1>4, <2>1
  <2>4. QED
    BY <1>1, <2>2, <2>3 DEF IsInjective, Range
<1>9. QED
  BY <1>1, <1>5, <1>6, <1>7, <1>8

LEMMA AppendRange ==
  ASSUME NEW S, NEW s \in Seq(S), NEW e \in S
  PROVE  /\ Append(s, e) \in Seq(S) /\ Len(Append(s, e)) = Len(s) + 1
         /\ Range(Append(s, e)) = Range(s) \cup {e}
         /\ IsInjective(s) /\ e \notin Range(s) => IsInjective(Append(s, e))
<1>1. /\ Append(s, e) \in Seq(S) /\ Len(Append(s, e)) = Len(s) + 1 /\ Len(s) \in Nat
      /\ DOMAIN s = 1 .. Len(s) /\ DOMAIN Append(s, e) = 1 .. Len(s) + 1
      /\ \A k \in 1 .. Len(s) : Append(s, e)[k] = s[k]
      /\ Append(s, e)[Len(s) + 1] = e
  OBVIOUS
<1>2. \A k \in 1 .. Len(s) + 1 : k \in 1 .. Len(s) \/ k = Len(s) + 1
  BY <1>1
<1>3. \A k \in 1 .. Len(s) : k \in 1 .. Len(s) + 1
  BY <1>1
<1>4. Len(s) + 1 \in 1 .. Len(s) + 1
  BY <1>1
<1>5. Range(Append(s, e)) = Range(s) \cup {e}
  BY <1>1, <1>2, <1>3, <1>4 DEF Range
<1>6. ASSUME IsInjective(s), e \notin Range(s)
      PROVE  IsInjective(Append(s, e))
  <2>1. \A i, k \in 1 .. Len(s) : s[i] = s[k] => i = k
    BY <1>1, <1>6 DEF IsInjective
  <2>2. \A k \in 1 .. Len(s) : s[k] # e
    BY <1>1, <1>6 DEF Range
  <2>3. QED
    BY <1>1, <1>2, <2>1, <2>2 DEF IsInjective
<1>7. QED
  BY <1>1, <1>5, <1>6

LEMMA EmptyRange == Range(<<>>) = {} /\ IsInjective(<<>>)
BY DEF Range, IsInjective


LEMMA PortsFinite == IsFiniteSet(Ports) /\ Len(PortOrder) \in Nat
<1>1. Len(PortOrder) \in Nat /\ DOMAIN PortOrder = 1 .. Len(PortOrder)
  BY PythonServerAssumption
<1>2. IsFiniteSet(1 .. Len(PortOrder))
  BY <1>1, FS_Interval
<1>3. PortOrder \in Surjection(1 .. Len(PortOrder), Ports)
  <2>1. PortOrder \in [1 .. Len(PortOrder) -> Ports]
    BY <1>1, PythonServerAssumption
  <2>2. \A p \in Ports : \E i \in 1 .. Len(PortOrder) : PortOrder[i] = p
    BY <1>1 DEF Ports, Range
  <2>3. QED
    BY <2>1, <2>2 DEF Surjection
<1>4. QED
  BY <1>1, <1>2, <1>3, FS_Surjection

-----------------------------------------------------------------------------
(* Type correctness and the ports.  in_flight is the number of ports that    *)
(* are not free: stated with a cardinality, it cannot underflow.             *)

Shapes ==
  /\ call \in [Calls -> {"idle", "writing", "waiting", "answered", "failed", "stuck"}]
  /\ cut \subseteq Calls /\ hungUp \subseteq Calls
  /\ backlog \in Seq(Calls) /\ queue \in Seq(Calls)
  /\ listener \in {"accepting", "reading", "spinning", "down"}
  /\ reading \in Calls \cup {None}
  /\ listener \in {"reading", "spinning"} <=> reading # None
  /\ handler \in {"choosing", "collecting"}
  /\ ports \in Seq(Ports) /\ finished \in Seq(Ports)
  /\ thread \in [Calls -> [stage : {"none", "creating", "running", "ended", "panicked"},
                           port : Ports \cup {None}]]

Apart ==
  /\ IsInjective(ports) /\ IsInjective(finished)
  /\ \A c, d \in Calls : \A p \in Ports : Holds(c, p) /\ Holds(d, p) => c = d
  /\ \A p \in Ports : \/ p \in Range(ports) /\ p \notin Range(finished) /\ ~Held(p)
                      \/ p \notin Range(ports) /\ p \in Range(finished) /\ ~Held(p)
                      \/ p \notin Range(ports) /\ p \notin Range(finished) /\ Held(p)
  /\ \A c \in Calls : thread[c].stage \in {"creating", "running"} => thread[c].port \in Ports

Counted ==
  /\ inFlight = Cardinality(Ports \ Range(ports))
  /\ inFlight + Len(ports) = Len(PortOrder)

PortsInv == Shapes /\ OnePlace /\ Apart /\ Counted

LEMMA CountedNat == Counted => inFlight \in Nat
<1>1. \A S \in SUBSET Ports : Cardinality(S) \in Nat
  BY PortsFinite, FS_Subset, FS_CardinalityType
<1>2. QED
  BY <1>1 DEF Counted

LEMMA InitPorts == Init => PortsInv
<1> SUFFICES ASSUME Init PROVE PortsInv
  OBVIOUS
<1>1. Shapes
  BY PythonServerAssumption DEF Init, Shapes, NoThread
<1>2. \A c \in Calls : thread[c] = [stage |-> "none", port |-> None]
  BY DEF Init, NoThread
<1>3. \A c \in Calls : \A p \in Ports : ~Holds(c, p)
  BY <1>2 DEF Holds
<1>4. Apart
  BY <1>2, <1>3, PythonServerAssumption, EmptyRange DEF Init, Apart, Held, Ports
<1>5. Ports \ Range(ports) = {}
  BY DEF Init, Ports
<1>6. Counted
  <2>1. Cardinality(Ports \ Range(ports)) = 0
    BY <1>5, FS_EmptySet
  <2>2. inFlight = 0 /\ Len(ports) = Len(PortOrder)
    BY DEF Init
  <2>3. inFlight = Cardinality(Ports \ Range(ports))
    BY <2>1, <2>2
  <2>4. inFlight + Len(ports) = Len(PortOrder)
    BY <2>2, PortsFinite
  <2>5. QED
    BY <2>3, <2>4 DEF Counted
<1>7. OnePlace
  <2>1. Range(backlog) = {} /\ Range(queue) = {} /\ IsInjective(backlog) /\ IsInjective(queue)
    BY EmptyRange DEF Init
  <2>2. reading = None /\ {c \in Calls : thread[c].stage # "none"} = {}
    BY <1>2 DEF Init
  <2>3. QED
    BY <2>1, <2>2 DEF OnePlace
<1>8. QED
  BY <1>1, <1>4, <1>6, <1>7 DEF PortsInv

\* What callers and the main thread do leaves the ports alone.
LEMMA CallersPorts ==
  ASSUME PortsInv, UNCHANGED <<handling, finished, thread>>
  PROVE  Apart' /\ Counted'
BY DEF PortsInv, Apart, Counted, handling, Holds, Held

LEMMA CallersShapes ==
  ASSUME PortsInv, NEW c \in Calls,
         Connect(c) \/ Written(c) \/ Cut(c) \/ GiveUp(c) \/ Spin(c) \/ PassEnd(c)
  PROVE  Shapes'
<1>1. CASE Connect(c)
  BY <1>1, AppendRange DEF PortsInv, Shapes, Connect, handling
<1>2. CASE Written(c)
  BY <1>2 DEF PortsInv, Shapes, Written, handling, main
<1>3. CASE Cut(c)
  BY <1>3 DEF PortsInv, Shapes, Cut, handling, main
<1>4. CASE GiveUp(c)
  BY <1>4 DEF PortsInv, Shapes, GiveUp, handling, main
<1>5. CASE Spin(c)
  BY <1>5 DEF PortsInv, Shapes, Spin, handling, main
<1>6. CASE PassEnd(c)
  BY <1>6 DEF PortsInv, Shapes, PassEnd, Answered, handling, main
<1>7. QED
  BY <1>1, <1>2, <1>3, <1>4, <1>5, <1>6

LEMMA ListenerShapes ==
  ASSUME PortsInv, Listener
  PROVE  Shapes'
<1>1. CASE Accept
  <2>1. Head(backlog) \in Calls /\ Tail(backlog) \in Seq(Calls) /\ Head(backlog) # None
    BY <1>1, TailRange, PythonServerAssumption DEF PortsInv, Shapes, Accept
  <2>2. QED
    BY <1>1, <2>1 DEF PortsInv, Shapes, Accept, handling, callers
<1>2. CASE Enqueue
  <2>1. reading \in Calls
    BY <1>2 DEF PortsInv, Shapes, Enqueue
  <2>2. queue' \in Seq(Calls)
    BY <1>2, <2>1, AppendRange DEF PortsInv, Shapes, Enqueue
  <2>3. QED
    BY <1>2, <2>2 DEF PortsInv, Shapes, Enqueue, handling, callers
<1>3. CASE Refuse
  <2>1. call' \in [Calls -> {"idle", "writing", "waiting", "answered", "failed", "stuck"}]
    BY <1>3 DEF PortsInv, Shapes, Refuse, Answered
  <2>2. QED
    BY <1>3, <2>1 DEF PortsInv, Shapes, Refuse, handling
<1>4. CASE RefusePanics
  BY <1>4 DEF PortsInv, Shapes, RefusePanics, handling, callers
<1>5. CASE ReadNothing
  BY <1>5 DEF PortsInv, Shapes, ReadNothing, handling, callers
<1>6. QED
  BY <1>1, <1>2, <1>3, <1>4, <1>5 DEF Listener

LEMMA BeginPorts ==
  ASSUME PortsInv, Begin
  PROVE  PortsInv'
<1> DEFINE c == Head(queue)
           p == Head(ports)
<1>1. /\ c \in Calls /\ Tail(queue) \in Seq(Calls)
      /\ c \in Range(queue) /\ Range(queue) = Range(Tail(queue)) \cup {c}
      /\ IsInjective(Tail(queue)) /\ c \notin Range(Tail(queue))
  BY TailRange DEF PortsInv, OnePlace, Shapes, Begin
<1>2. /\ p \in Ports /\ Tail(ports) \in Seq(Ports) /\ Len(Tail(ports)) = Len(ports) - 1
      /\ p \in Range(ports) /\ Range(ports) = Range(Tail(ports)) \cup {p}
      /\ IsInjective(Tail(ports)) /\ p \notin Range(Tail(ports))
  BY TailRange DEF PortsInv, Shapes, Apart, Begin, HasRoom
<1>3. /\ ports' = Tail(ports) /\ queue' = Tail(queue) /\ finished' = finished
      /\ inFlight' = inFlight + 1 /\ backlog' = backlog /\ reading' = reading
      /\ thread' = [thread EXCEPT ![c] = [stage |-> "creating", port |-> p]]
  BY DEF Begin, PortsLeft, QueueLeft, InFlightNow, main
<1> HIDE DEF c, p
<1>4. thread[c].stage = "none" /\ reading # c /\ c \notin Range(backlog)
  BY <1>1 DEF PortsInv, OnePlace
<1>5. Shapes'
  BY <1>1, <1>2, <1>3 DEF PortsInv, Shapes, Begin, callers, main
<1>6. \A d \in Calls : thread'[d] = IF d = c THEN [stage |-> "creating", port |-> p] ELSE thread[d]
  BY <1>1, <1>3 DEF PortsInv, Shapes
<1>7. OnePlace'
  <2>1. \A d \in Calls : thread'[d].stage # "none" <=> thread[d].stage # "none" \/ d = c
    BY <1>6
  <2>2. {d \in Calls : thread'[d].stage # "none"} = {d \in Calls : thread[d].stage # "none"} \cup {c}
    BY <1>1, <2>1
  <2>3. QED
    BY <1>1, <1>3, <1>4, <2>2 DEF PortsInv, OnePlace
<1>8. \A d \in Calls : \A q \in Ports : Holds(d, q)' <=> Holds(d, q) \/ (d = c /\ q = p)
  BY <1>4, <1>6 DEF Holds
<1>9. \A q \in Ports : Held(q)' <=> Held(q) \/ q = p
  BY <1>1, <1>8 DEF Held
<1>10. Apart'
  <2>1. \A d \in Calls : ~Holds(d, p)
    BY <1>2 DEF PortsInv, Apart, Held
  <2>2. \A d, e \in Calls : \A q \in Ports : Holds(d, q)' /\ Holds(e, q)' => d = e
    BY <1>8, <2>1 DEF PortsInv, Apart
  <2>3. \A d \in Calls : thread'[d].stage \in {"creating", "running"} => thread'[d].port \in Ports
    BY <1>2, <1>6 DEF PortsInv, Apart
  <2>4. \A q \in Ports : q \in Range(ports') <=> q \in Range(ports) /\ q # p
    BY <1>2, <1>3
  <2>5. QED
    BY <1>2, <1>3, <1>9, <2>2, <2>3, <2>4 DEF PortsInv, Apart
<1>11. Counted'
  <2>1. Ports \ Range(ports') = (Ports \ Range(ports)) \cup {p} /\ p \notin Ports \ Range(ports)
    BY <1>2, <1>3
  <2>2. IsFiniteSet(Ports \ Range(ports))
    BY PortsFinite, FS_Subset
  <2>3. Cardinality(Ports \ Range(ports')) = Cardinality(Ports \ Range(ports)) + 1
    BY <2>1, <2>2, FS_AddElement
  <2>4. inFlight \in Nat /\ Len(ports) \in Nat
    BY CountedNat DEF PortsInv, Shapes
  <2>5. inFlight' = Cardinality(Ports \ Range(ports'))
    BY <1>3, <2>3 DEF PortsInv, Counted
  <2>6. inFlight + Len(ports) = Len(PortOrder)
    BY DEF PortsInv, Counted
  <2>7. inFlight' + Len(ports') = Len(PortOrder)
    BY <1>2, <1>3, <2>4, <2>6
  <2>8. QED
    BY <2>5, <2>7 DEF Counted
<1>12. QED
  BY <1>5, <1>7, <1>10, <1>11 DEF PortsInv

LEMMA CollectPorts ==
  ASSUME PortsInv, Collect
  PROVE  PortsInv'
<1> DEFINE p == Head(finished)
<1>1. /\ p \in Ports /\ Tail(finished) \in Seq(Ports)
      /\ p \in Range(finished) /\ Range(finished) = Range(Tail(finished)) \cup {p}
      /\ IsInjective(Tail(finished)) /\ p \notin Range(Tail(finished))
  BY TailRange DEF PortsInv, Apart, Shapes, Collect
<1>2. p \notin Range(ports) /\ ~Held(p)
  BY <1>1 DEF PortsInv, Apart
<1>3. /\ Append(ports, p) \in Seq(Ports) /\ Len(Append(ports, p)) = Len(ports) + 1
      /\ Range(Append(ports, p)) = Range(ports) \cup {p} /\ IsInjective(Append(ports, p))
  BY <1>1, <1>2, AppendRange DEF PortsInv, Apart, Shapes
<1>4. /\ ports' = Append(ports, p) /\ finished' = Tail(finished) /\ inFlight' = inFlight - 1
      /\ thread' = thread /\ backlog' = backlog /\ reading' = reading /\ queue' = queue
  BY DEF Collect, main
<1> HIDE DEF p
<1>5. Shapes'
  BY <1>1, <1>3, <1>4 DEF PortsInv, Shapes, Collect, callers, main
<1>6. OnePlace'
  BY <1>4 DEF PortsInv, OnePlace
<1>7. Apart'
  BY <1>1, <1>2, <1>3, <1>4 DEF PortsInv, Apart, Holds, Held
<1>8. Counted'
  <2>1. Ports \ Range(ports') = (Ports \ Range(ports)) \ {p} /\ p \in Ports \ Range(ports)
    BY <1>1, <1>2, <1>3, <1>4
  <2>2. IsFiniteSet(Ports \ Range(ports))
    BY PortsFinite, FS_Subset
  <2>3. Cardinality(Ports \ Range(ports')) = Cardinality(Ports \ Range(ports)) - 1
    BY <2>1, <2>2, FS_RemoveElement
  <2>4. inFlight \in Nat /\ Len(ports) \in Nat
    BY CountedNat DEF PortsInv, Shapes
  <2>5. inFlight' = Cardinality(Ports \ Range(ports'))
    BY <1>4, <2>3 DEF PortsInv, Counted
  <2>6. inFlight + Len(ports) = Len(PortOrder)
    BY DEF PortsInv, Counted
  <2>7. inFlight' + Len(ports') = Len(PortOrder)
    BY <1>3, <1>4, <2>4, <2>6
  <2>8. QED
    BY <2>5, <2>7 DEF Counted
<1>9. QED
  BY <1>5, <1>6, <1>7, <1>8 DEF PortsInv

LEMMA CollectNothingPorts ==
  ASSUME PortsInv, CollectNothing
  PROVE  PortsInv'
<1>1. Shapes'
  BY DEF PortsInv, Shapes, CollectNothing, callers, main
<1>2. OnePlace'
  BY DEF PortsInv, OnePlace, CollectNothing, callers, main
<1>3. Apart'
  BY DEF PortsInv, Apart, CollectNothing, Holds, Held
<1>4. Counted'
  BY DEF PortsInv, Counted, CollectNothing
<1>5. QED
  BY <1>1, <1>2, <1>3, <1>4 DEF PortsInv

\* A thread whose stage changes keeps its port, or gives it back.
LEMMA StageFacts ==
  ASSUME Shapes, NEW c \in Calls, NEW stage, Stage(c, stage)
  PROVE  \A d \in Calls : /\ thread'[d].port = thread[d].port
                          /\ thread'[d].stage = IF d = c THEN stage ELSE thread[d].stage
BY DEF Shapes, Stage

LEMMA KeepPort ==
  ASSUME PortsInv, NEW c \in Calls, Reach(c) \/ Panic(c)
  PROVE  PortsInv'
<1>1. PICK stage \in {"running", "panicked"} : Stage(c, stage)
  BY DEF Reach, Panic
<1>2. \A d \in Calls : /\ thread'[d].port = thread[d].port
                       /\ thread'[d].stage = IF d = c THEN stage ELSE thread[d].stage
  BY <1>1, StageFacts DEF PortsInv
<1>3. thread[c].stage = "creating"
  BY DEF Reach, Panic
<1>4. UNCHANGED <<call, cut, backlog, listener, reading, queue, handler, ports, inFlight, finished>>
  BY DEF Reach, Panic, callers, main, handling
<1>5. hungUp' \subseteq Calls
  BY DEF Reach, Panic, PortsInv, Shapes
<1>6. thread' \in [Calls -> [stage : {"none", "creating", "running", "ended", "panicked"},
                             port : Ports \cup {None}]]
  BY <1>1 DEF Stage, PortsInv, Shapes
<1>7. Shapes'
  BY <1>4, <1>5, <1>6 DEF PortsInv, Shapes
<1>8. OnePlace'
  <2>1. {d \in Calls : thread'[d].stage # "none"} = {d \in Calls : thread[d].stage # "none"}
    BY <1>2, <1>3
  <2>2. QED
    BY <1>4, <2>1 DEF PortsInv, OnePlace
<1>9. \A d \in Calls : \A q \in Ports : Holds(d, q)' <=> Holds(d, q)
  BY <1>2, <1>3 DEF Holds
<1>10. \A q \in Ports : Held(q)' <=> Held(q)
  BY <1>9 DEF Held
<1>11. Apart'
  BY <1>2, <1>3, <1>4, <1>9, <1>10 DEF PortsInv, Apart
<1>12. Counted'
  BY <1>4 DEF PortsInv, Counted
<1>13. QED
  BY <1>7, <1>8, <1>11, <1>12 DEF PortsInv

LEMMA GiveBackPort ==
  ASSUME PortsInv, NEW c \in Calls, NotReached(c) \/ Finish(c)
  PROVE  PortsInv'
<1> DEFINE p == thread[c].port
<1>1. /\ thread[c].stage \in {"creating", "running"} /\ Stage(c, "ended")
      /\ finished' = Append(finished, p) /\ call' = Answered(c)
      /\ UNCHANGED <<cut, hungUp, backlog, listener, reading, queue, handler, ports, inFlight>>
  BY DEF NotReached, Finish, main, handling
<1>2. p \in Ports /\ Holds(c, p)
  BY <1>1 DEF PortsInv, Apart, Holds
<1>3. p \notin Range(ports) /\ p \notin Range(finished) /\ \A d \in Calls : Holds(d, p) => d = c
  BY <1>2 DEF PortsInv, Apart, Held
<1>4. /\ finished' \in Seq(Ports) /\ Range(finished') = Range(finished) \cup {p}
      /\ IsInjective(finished')
  BY <1>1, <1>2, <1>3, AppendRange DEF PortsInv, Apart, Shapes
<1>5. \A d \in Calls : /\ thread'[d].port = thread[d].port
                       /\ thread'[d].stage = IF d = c THEN "ended" ELSE thread[d].stage
  BY <1>1, StageFacts DEF PortsInv
<1>6. Shapes'
  <2>1. call' \in [Calls -> {"idle", "writing", "waiting", "answered", "failed", "stuck"}]
    BY <1>1 DEF Answered, PortsInv, Shapes
  <2>2. thread' \in [Calls -> [stage : {"none", "creating", "running", "ended", "panicked"},
                               port : Ports \cup {None}]]
    BY <1>1 DEF Stage, PortsInv, Shapes
  <2>3. QED
    BY <1>1, <1>4, <2>1, <2>2 DEF PortsInv, Shapes
<1>7. OnePlace'
  <2>1. {d \in Calls : thread'[d].stage # "none"} = {d \in Calls : thread[d].stage # "none"}
    BY <1>1, <1>5
  <2>2. QED
    BY <1>1, <2>1 DEF PortsInv, OnePlace
<1> HIDE DEF p
<1>8. \A d \in Calls : \A q \in Ports : Holds(d, q)' <=> Holds(d, q) /\ d # c
  BY <1>5 DEF Holds
<1>9. \A q \in Ports : Holds(c, q) => q = p
  BY DEF Holds, p
<1>10. \A q \in Ports : Held(q)' <=> Held(q) /\ q # p
  BY <1>2, <1>3, <1>8, <1>9 DEF Held
<1>11. Apart'
  <2>1. \A d, e \in Calls : \A q \in Ports : Holds(d, q)' /\ Holds(e, q)' => d = e
    BY <1>8 DEF PortsInv, Apart
  <2>2. \A d \in Calls : thread'[d].stage \in {"creating", "running"} => thread'[d].port \in Ports
    BY <1>5 DEF PortsInv, Apart
  <2>3. Held(p)
    BY <1>2 DEF Held
  <2>4. QED
    BY <1>1, <1>3, <1>4, <1>10, <2>1, <2>2, <2>3 DEF PortsInv, Apart
<1>12. Counted'
  BY <1>1 DEF PortsInv, Counted
<1>13. QED
  BY <1>6, <1>7, <1>11, <1>12 DEF PortsInv

-----------------------------------------------------------------------------
(* One place for each call.  A call not made yet is nowhere, so that a       *)
(* connection is new to the backlog.                                         *)

Somewhere(c) ==
  c \in Range(backlog) \/ reading = c \/ c \in Range(queue) \/ thread[c].stage # "none"

IdleNowhere == \A c \in Calls : call[c] = "idle" => ~Somewhere(c)

Inv == PortsInv /\ IdleNowhere

LEMMA InitInv == Init => Inv
<1> SUFFICES ASSUME Init PROVE Inv
  OBVIOUS
<1>1. PortsInv
  BY InitPorts
<1>2. \A c \in Calls : ~Somewhere(c)
  <2>1. Range(backlog) = {} /\ Range(queue) = {} /\ reading = None
    BY EmptyRange DEF Init
  <2>2. \A c \in Calls : thread[c].stage = "none" /\ c # None
    BY PythonServerAssumption DEF Init, NoThread
  <2>3. QED
    BY <2>1, <2>2 DEF Somewhere
<1>3. QED
  BY <1>1, <1>2 DEF Inv, IdleNowhere

\* Where nothing moves, nothing changes place.
LEMMA StillInv ==
  ASSUME Inv, Shapes', UNCHANGED <<backlog, reading, queue, handling, finished, thread>>,
         \A c \in Calls : call'[c] = "idle" => call[c] = "idle"
  PROVE  Inv'
<1>1. Apart' /\ Counted'
  BY CallersPorts DEF Inv
<1>2. OnePlace'
  BY DEF Inv, PortsInv, OnePlace
<1>3. IdleNowhere'
  BY DEF Inv, IdleNowhere, Somewhere
<1>4. QED
  BY <1>1, <1>2, <1>3 DEF Inv, PortsInv

LEMMA CallersInv ==
  ASSUME Inv, NEW c \in Calls, Written(c) \/ Cut(c) \/ GiveUp(c) \/ Spin(c) \/ PassEnd(c)
  PROVE  Inv'
<1>1. Shapes'
  BY CallersShapes DEF Inv
<1>2. UNCHANGED <<backlog, reading, queue, handling, finished, thread>>
  BY DEF Written, Cut, GiveUp, Spin, PassEnd, main
<1>3. \A d \in Calls : call'[d] = "idle" => call[d] = "idle"
  BY DEF Written, Cut, GiveUp, Spin, PassEnd, Answered, Inv, PortsInv, Shapes
<1>4. QED
  BY <1>1, <1>2, <1>3, StillInv

LEMMA ConnectInv ==
  ASSUME Inv, NEW c \in Calls, Connect(c)
  PROVE  Inv'
<1>1. Shapes' /\ Apart' /\ Counted'
  BY CallersShapes, CallersPorts DEF Inv, Connect
<1>2. ~Somewhere(c)
  BY DEF Connect, Inv, IdleNowhere
<1>3. Range(backlog') = Range(backlog) \cup {c} /\ IsInjective(backlog')
  BY <1>2, AppendRange DEF Connect, Inv, PortsInv, Shapes, OnePlace, Somewhere
<1>4. UNCHANGED <<reading, queue, thread>>
  BY DEF Connect
<1>5. OnePlace'
  BY <1>2, <1>3, <1>4 DEF Inv, PortsInv, OnePlace, Somewhere
<1>6. \A d \in Calls : call'[d] = "idle" => call[d] = "idle" /\ d # c
  BY DEF Connect, Inv, PortsInv, Shapes
<1>7. IdleNowhere'
  BY <1>3, <1>4, <1>6 DEF Inv, IdleNowhere, Somewhere
<1>8. QED
  BY <1>1, <1>5, <1>7 DEF Inv, PortsInv

LEMMA ListenerInv ==
  ASSUME Inv, Listener
  PROVE  Inv'
<1>1. Shapes' /\ Apart' /\ Counted'
  BY ListenerShapes, CallersPorts
     DEF Inv, Listener, Accept, Enqueue, Refuse, RefusePanics, ReadNothing
<1>2. \A d \in Calls : call'[d] = "idle" => call[d] = "idle"
  BY DEF Listener, Accept, Enqueue, Refuse, RefusePanics, ReadNothing, callers, Answered,
         Inv, PortsInv, Shapes
<1>3. thread' = thread
  BY DEF Listener, Accept, Enqueue, Refuse, RefusePanics, ReadNothing
<1>4. CASE Accept
  <2>1. /\ Head(backlog) \in Range(backlog) /\ Range(backlog) = Range(Tail(backlog)) \cup {Head(backlog)}
        /\ IsInjective(Tail(backlog)) /\ Head(backlog) \notin Range(Tail(backlog))
    BY <1>4, TailRange DEF Inv, PortsInv, Shapes, OnePlace, Accept
  <2>2. backlog' = Tail(backlog) /\ reading' = Head(backlog) /\ queue' = queue
    BY <1>4 DEF Accept
  <2>3. OnePlace'
    BY <1>3, <2>1, <2>2 DEF Inv, PortsInv, OnePlace
  <2>4. IdleNowhere'
    BY <1>2, <1>3, <2>1, <2>2 DEF Inv, IdleNowhere, Somewhere
  <2>5. QED
    BY <1>1, <2>3, <2>4 DEF Inv, PortsInv
<1>5. CASE Enqueue
  <2>1. reading \in Calls /\ reading' = None /\ backlog' = backlog
    BY <1>5 DEF Inv, PortsInv, Shapes, Enqueue
  <2>2. Range(queue') = Range(queue) \cup {reading} /\ IsInjective(queue')
    BY <1>5, <2>1, AppendRange DEF Inv, PortsInv, Shapes, OnePlace, Enqueue
  <2>3. None \notin Calls
    BY PythonServerAssumption
  <2>4. Range(queue) \subseteq Calls /\ Range(backlog) \subseteq Calls
    BY DEF Range, Inv, PortsInv, Shapes
  <2>5. OnePlace'
    BY <1>3, <2>1, <2>2, <2>3, <2>4 DEF Inv, PortsInv, OnePlace
  <2>6. IdleNowhere'
    BY <1>2, <1>3, <2>1, <2>2, <2>3 DEF Inv, IdleNowhere, Somewhere
  <2>7. QED
    BY <1>1, <2>5, <2>6 DEF Inv, PortsInv
<1>6. CASE Refuse \/ RefusePanics \/ ReadNothing
  <2>1. backlog' = backlog /\ queue' = queue /\ reading' \in {reading, None}
    BY <1>6 DEF Refuse, RefusePanics, ReadNothing
  <2>2. None \notin Calls
    BY PythonServerAssumption
  <2>3. Range(queue) \subseteq Calls /\ Range(backlog) \subseteq Calls
    BY DEF Range, Inv, PortsInv, Shapes
  <2>4. OnePlace'
    BY <1>3, <2>1, <2>2, <2>3 DEF Inv, PortsInv, OnePlace
  <2>5. IdleNowhere'
    BY <1>2, <1>3, <2>1, <2>2 DEF Inv, IdleNowhere, Somewhere
  <2>6. QED
    BY <1>1, <2>4, <2>5 DEF Inv, PortsInv
<1>7. QED
  BY <1>4, <1>5, <1>6 DEF Listener

LEMMA HandlerInv ==
  ASSUME Inv, Handler
  PROVE  Inv'
<1>1. PortsInv'
  BY BeginPorts, CollectPorts, CollectNothingPorts DEF Inv, Handler
<1>2. call' = call /\ backlog' = backlog /\ reading' = reading
  BY DEF Handler, Begin, Collect, CollectNothing, callers, main
<1>3. CASE Begin
  <2>1. Head(queue) \in Range(queue) /\ Range(queue) = Range(Tail(queue)) \cup {Head(queue)}
    BY <1>3, TailRange DEF Inv, PortsInv, Shapes, Begin
  <2>2. \A d \in Calls : thread'[d].stage # "none" => thread[d].stage # "none" \/ d = Head(queue)
    BY <1>3 DEF Begin, Inv, PortsInv, Shapes
  <2>3. queue' = Tail(queue)
    BY <1>3 DEF Begin, QueueLeft
  <2>4. IdleNowhere'
    BY <1>2, <2>1, <2>2, <2>3 DEF Inv, IdleNowhere, Somewhere
  <2>5. QED
    BY <1>1, <2>4 DEF Inv
<1>4. CASE Collect \/ CollectNothing
  <2>1. queue' = queue /\ thread' = thread
    BY <1>4 DEF Collect, CollectNothing
  <2>2. IdleNowhere'
    BY <1>2, <2>1 DEF Inv, IdleNowhere, Somewhere
  <2>3. QED
    BY <1>1, <2>2 DEF Inv
<1>5. QED
  BY <1>3, <1>4 DEF Handler

LEMMA ExecutionInv ==
  ASSUME Inv, NEW c \in Calls, Execution(c)
  PROVE  Inv'
<1>1. PortsInv'
  BY KeepPort, GiveBackPort DEF Inv, Execution
<1>2. UNCHANGED <<backlog, reading, queue>>
  BY DEF Execution, Reach, NotReached, Panic, Finish, main
<1>3. \A d \in Calls : call'[d] = "idle" => call[d] = "idle"
  BY DEF Execution, Reach, NotReached, Panic, Finish, callers, Answered, Inv, PortsInv, Shapes
<1>4. thread[c].stage # "none" /\ \E stage \in {"running", "ended", "panicked"} : Stage(c, stage)
  BY DEF Execution, Reach, NotReached, Panic, Finish
<1>5. \A d \in Calls : thread'[d].stage # "none" => thread[d].stage # "none"
  BY <1>4, StageFacts DEF Inv, PortsInv
<1>6. IdleNowhere'
  BY <1>2, <1>3, <1>5 DEF Inv, IdleNowhere, Somewhere
<1>7. QED
  BY <1>1, <1>6 DEF Inv

LEMMA NextInv == Inv /\ [Next]_vars => Inv'
<1> SUFFICES ASSUME Inv, [Next]_vars PROVE Inv'
  OBVIOUS
<1>1. CASE UNCHANGED vars
  <2>1. Shapes'
    BY <1>1 DEF vars, callers, main, handling, Inv, PortsInv, Shapes
  <2>2. QED
    BY <1>1, <2>1, StillInv DEF vars, callers, main
<1>2. CASE Next
  BY <1>2, CallersInv, ConnectInv, ListenerInv, HandlerInv, ExecutionInv DEF Next
<1>3. QED
  BY <1>1, <1>2

LEMMA Invariance == Spec => []Inv
<1>1. QED
  BY InitInv, NextInv, PTL DEF Spec

\* Every variable keeps its type (TypeOK); in particular in_flight never goes
\* below zero.
THEOREM TypeCorrect == Spec => []TypeOK
<1>1. Inv => TypeOK
  BY CountedNat DEF Inv, PortsInv, Shapes, TypeOK
<1>2. QED
  BY <1>1, Invariance, PTL

\* A port is free, held by one call or on its way back, and in_flight counts
\* those that are not free (PortsConserved), whoever gives up or panics.
THEOREM PortsAreConserved == Spec => []PortsConserved
<1>1. Inv => PortsConserved
  BY DEF Inv, PortsInv, Apart, Counted, PortsConserved
<1>2. QED
  BY <1>1, Invariance, PTL

\* A call is executed at most once: it is in one place only (OnePlace).
THEOREM CallsRunOnce == Spec => []OnePlace
<1>1. Inv => OnePlace
  BY DEF Inv, PortsInv
<1>2. QED
  BY <1>1, Invariance, PTL
=============================================================================
