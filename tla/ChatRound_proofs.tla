------------------------- MODULE ChatRound_proofs --------------------------
(* Proofs about the rounds of the AI endpoint, for any requests and bounds.  *)
EXTENDS ChatRound, TLAPS, SequenceTheorems, FiniteSetTheorems, WellFoundedInduction

-----------------------------------------------------------------------------
(* Sequences: their elements after Tail and Append.                          *)

LEMMA TailRange ==
  ASSUME NEW S, NEW s \in Seq(S), s # <<>>
  PROVE  /\ Head(s) \in S /\ Tail(s) \in Seq(S) /\ Len(Tail(s)) = Len(s) - 1
         /\ Head(s) \in Range(s) /\ Range(s) = Range(Tail(s)) \cup {Head(s)}
         /\ IsInjective(s) => IsInjective(Tail(s)) /\ Head(s) \notin Range(Tail(s))
<1>1. /\ Len(s) \in Nat /\ Len(s) > 0 /\ DOMAIN s = 1 .. Len(s)
      /\ Head(s) = s[1] /\ Head(s) \in S
      /\ Tail(s) \in Seq(S) /\ Len(Tail(s)) = Len(s) - 1 /\ DOMAIN Tail(s) = 1 .. Len(s) - 1
      /\ \A k \in 1 .. Len(s) - 1 : Tail(s)[k] = s[k + 1]
  BY HeadTailProperties
<1>2. \A k \in 1 .. Len(s) - 1 : k + 1 \in 1 .. Len(s) /\ k + 1 # 1
  BY <1>1
<1>3. \A k \in 1 .. Len(s) : k = 1 \/ (k - 1 \in 1 .. Len(s) - 1 /\ (k - 1) + 1 = k)
  BY <1>1
<1>4. 1 \in 1 .. Len(s)
  BY <1>1
<1>5. Range(Tail(s)) \subseteq Range(s)
  BY <1>1, <1>2 DEF Range
<1>6. Range(s) \subseteq Range(Tail(s)) \cup {Head(s)}
  <2>1. ASSUME NEW k \in 1 .. Len(s)
        PROVE  s[k] \in Range(Tail(s)) \cup {Head(s)}
    <3>1. CASE k = 1
      BY <1>1, <3>1
    <3>2. CASE k # 1
      <4>1. k - 1 \in DOMAIN Tail(s) /\ Tail(s)[k - 1] = s[k]
        BY <1>1, <1>3, <3>2
      <4>2. QED
        BY <4>1 DEF Range
    <3>3. QED
      BY <3>1, <3>2
  <2>2. QED
    BY <1>1, <2>1 DEF Range
<1>7. Head(s) \in Range(s)
  BY <1>1, <1>4 DEF Range
<1>8. ASSUME IsInjective(s)
      PROVE  IsInjective(Tail(s)) /\ Head(s) \notin Range(Tail(s))
  <2>1. \A i, k \in 1 .. Len(s) : s[i] = s[k] => i = k
    BY <1>1, <1>8 DEF IsInjective
  <2>2. \A i, k \in 1 .. Len(s) - 1 : Tail(s)[i] = Tail(s)[k] => i = k
    BY <1>1, <1>2, <2>1
  <2>3. \A k \in 1 .. Len(s) - 1 : Tail(s)[k] # Head(s)
    BY <1>1, <1>2, <1>4, <2>1
  <2>4. QED
    BY <1>1, <2>2, <2>3 DEF IsInjective, Range
<1>9. QED
  BY <1>1, <1>5, <1>6, <1>7, <1>8

LEMMA AppendRange ==
  ASSUME NEW S, NEW s \in Seq(S), NEW e \in S
  PROVE  /\ Append(s, e) \in Seq(S) /\ Len(Append(s, e)) = Len(s) + 1
         /\ Range(Append(s, e)) = Range(s) \cup {e}
         /\ IsInjective(s) /\ e \notin Range(s) => IsInjective(Append(s, e))
<1>1. /\ Append(s, e) \in Seq(S) /\ Len(Append(s, e)) = Len(s) + 1 /\ Len(s) \in Nat
      /\ DOMAIN s = 1 .. Len(s) /\ DOMAIN Append(s, e) = 1 .. Len(s) + 1
      /\ \A k \in 1 .. Len(s) : Append(s, e)[k] = s[k]
      /\ Append(s, e)[Len(s) + 1] = e
  OBVIOUS
<1>2. \A k \in 1 .. Len(s) + 1 : k \in 1 .. Len(s) \/ k = Len(s) + 1
  BY <1>1
<1>3. \A k \in 1 .. Len(s) : k \in 1 .. Len(s) + 1
  BY <1>1
<1>4. Len(s) + 1 \in 1 .. Len(s) + 1
  BY <1>1
<1>5. Range(Append(s, e)) = Range(s) \cup {e}
  BY <1>1, <1>2, <1>3, <1>4 DEF Range
<1>6. ASSUME IsInjective(s), e \notin Range(s)
      PROVE  IsInjective(Append(s, e))
  <2>1. \A i, k \in 1 .. Len(s) : s[i] = s[k] => i = k
    BY <1>1, <1>6 DEF IsInjective
  <2>2. \A k \in 1 .. Len(s) : s[k] # e
    BY <1>1, <1>6 DEF Range
  <2>3. QED
    BY <1>1, <1>2, <2>1, <2>2 DEF IsInjective
<1>7. QED
  BY <1>1, <1>5, <1>6


-----------------------------------------------------------------------------
(* Type correctness.  It rests on what the place of a task says of its round: *)
(* how many turns and streams it can have had, and whom it waits for.        *)

Handled == Labels \ {"new", "queued", "dropped"}
Updating == {"writing", "notifying", "checking", "titling and tagging", "titling", "tagging"}
InTurn == {"calling", "waiting", "keeping", "closing"}

Waiting ==
  /\ IsInjective(queue)
  /\ \A r \in Range(queue) : pc[r] = "queued"

Places ==
  /\ \A r \in Rounds :
       /\ pc[r] \in Handled => request[r] # Continue
       /\ pc[r] \in Updating => request[r].chat \in Chats
       /\ pc[r] \in {"waiting", "keeping"} => child[r] \in Sub
  /\ \A s \in Sub : request[s] \in Prompts

Counts ==
  \A r \in Rounds :
    /\ pc[r] \in InTurn => turn[r] < MaxTurns
    /\ Len(calls[r].outputs) <= calls[r].made
    /\ pc[r] \in {"waiting", "keeping"} => Len(calls[r].outputs) < calls[r].made
    /\ pc[r] \in {"new", "queued", "prompting"} => Len(streams[r]) <= turn[r]
    /\ Len(streams[r]) <= turn[r] + 1

Piped ==
  \A r \in Rounds : \A i \in DOMAIN streams[r] :
    streams[r][i].piped + streams[r][i].relayed <= MaxTokens

CallRecords == [made : 0 .. MaxCalls, outputs : Seq({"ok", "error"})]

RoundTypes ==
  /\ queue \in Seq(Rounds)
  /\ request \in [Rounds -> Prompts \cup {Continue}]
  /\ pc \in [Rounds -> Labels]
  /\ turn \in [Rounds -> 0 .. MaxTurns]
  /\ context \in [Rounds -> Seq(Parts)]
  /\ response \in [Rounds -> Parts]
  /\ form \in [Rounds -> {"call", "final", "raw"}]
  /\ calls \in [Rounds -> CallRecords]
  /\ agents \in [Rounds -> SUBSET Sub]
  /\ child \in [Rounds -> Sub \cup {NoRound}]
  /\ target \in [Rounds -> [agent : Sub, read : ChatRecords] \cup {NoTarget}]

Streams == [state : {"connecting", "open", "closed"}, piped : 0 .. MaxTokens,
            relayed : 0 .. MaxTokens, over : BOOLEAN]

StreamTypes ==
  /\ result \in [Rounds -> {"none", "ok", "error"}]
  /\ streams \in [Rounds -> Seq(Streams)]
  /\ totals \in [Rounds -> Seq(Parts)]
  /\ sent \in [Rounds -> Seq(Messages)]

ChatTypes ==
  /\ chat \in [ChatIds -> ChatRecords]
  /\ jobs \subseteq JobRecords
  /\ job \in [run : JobRecords, state : {"asking", "written"}] \cup {NoJob}
  /\ notices \subseteq Rounds
  /\ copy \in [Chats -> ChatRecords]
  /\ cleared \subseteq Chats
  /\ edits \in 0 .. MaxEdits

TypeInv == RoundTypes /\ StreamTypes /\ ChatTypes /\ Waiting /\ Places /\ Counts /\ Piped

LEMMA Bounds ==
  /\ MaxTurns \in Nat /\ MaxCalls \in Nat /\ MaxTokens \in Nat /\ MaxEdits \in Nat
  /\ Rounds = Web \cup Sub /\ Web \cap Sub = {} /\ Chats \cap Sub = {}
  /\ ChatIds = Chats \cup Sub /\ NoChat \notin Chats /\ NoChat \notin Sub
  /\ Continue \notin Prompts /\ NoRound \notin Rounds /\ Allocatable \subseteq ToolNames
  BY ChatRoundAssumption DEF Rounds, ChatIds

LEMMA TypesApart == TypeOK <=> RoundTypes /\ StreamTypes /\ ChatTypes
  BY DEF TypeOK, RoundTypes, StreamTypes, ChatTypes, Streams, CallRecords

LEMMA InitTypes == Init => TypeInv
<1> SUFFICES ASSUME Init PROVE TypeInv
  OBVIOUS
<1> USE Bounds
<1>1. PICK asked \in Requests :
        request = [r \in Rounds |-> IF r \in Web THEN asked[r] ELSE NoPrompt]
  BY DEF Init
<1>2. asked \in [Web -> Prompts \cup {Continue}]
  BY <1>1, ChatRoundAssumption
<1>3. NoPrompt \in Prompts
  BY DEF NoPrompt, Prompts
<1>4. request \in [Rounds -> Prompts \cup {Continue}] /\ \A s \in Sub : request[s] \in Prompts
  BY <1>1, <1>2, <1>3
<1>5. NoPart \in Parts /\ NoCalls \in CallRecords
  BY DEF NoPart, Part, Parts, NoCalls, CallRecords
<1>6. RoundTypes
  BY <1>4, <1>5 DEF Init, RoundTypes, Labels
<1>7. StreamTypes
  BY DEF Init, StreamTypes
<1>8. chat \in [ChatIds -> ChatRecords]
  BY DEF Init, Gone, Started, ChatRecords
<1>9. ChatTypes
  BY <1>8 DEF Init, ChatTypes
<1>10. Waiting
  BY DEF Init, Waiting, IsInjective, Range
<1>11. Places
  BY <1>4 DEF Init, Places, Handled, Updating
<1>12. Counts /\ Piped
  BY DEF Init, Counts, Piped, InTurn, NoCalls
<1>13. QED
  BY <1>6, <1>7, <1>9, <1>10, <1>11, <1>12 DEF TypeInv

\* Steps of a task that is not about to be taken.
LEMMA WaitingStays ==
  ASSUME TypeInv, NEW r \in Rounds, NEW l, pc[r] # "queued", pc' = [pc EXCEPT ![r] = l],
         UNCHANGED queue
  PROVE  Waiting'
  BY DEF TypeInv, Waiting, RoundTypes, Range

LEMMA WaitingKept ==
  ASSUME TypeInv, UNCHANGED <<queue, pc>>
  PROVE  Waiting'
  BY DEF TypeInv, Waiting

LEMMA BasedTyped ==
  ASSUME TypeInv, NEW q \in Prompts \cup {Continue}
  PROVE  /\ Based(q) \in Prompts \cup {Continue}
         /\ q = Continue <=> Based(q) = Continue
         /\ q # Continue => Based(q) \in Prompts /\ Based(q).streaming = q.streaming
  BY Bounds DEF Based, TypeInv, ChatTypes, ChatRecords, Prompts

LEMMA SubmitTypes ==
  ASSUME TypeInv, NEW r \in Web, Submit(r)
  PROVE  TypeInv'
<1> USE Bounds
<1>1. request[r] \in Prompts \cup {Continue}
  BY DEF TypeInv, RoundTypes
<1>2. Based(request[r]) \in Prompts \cup {Continue}
  BY <1>1, BasedTyped
<1>3. Append(queue, r) \in Seq(Rounds) /\ Range(Append(queue, r)) = Range(queue) \cup {r}
      /\ r \notin Range(queue) /\ IsInjective(Append(queue, r))
  BY AppendRange DEF TypeInv, RoundTypes, Waiting, Submit
<1>4. RoundTypes'
  BY <1>2, <1>3 DEF Submit, Goto, TypeInv, RoundTypes, Labels
<1>5. StreamTypes' /\ ChatTypes'
  BY DEF Submit, TypeInv, StreamTypes, ChatTypes, streamVars, clientVars
<1>6. Waiting'
  BY <1>3 DEF Submit, Goto, TypeInv, RoundTypes, Waiting
<1>7. Places'
  BY <1>2 DEF Submit, Goto, TypeInv, RoundTypes, Places, Handled, Updating
<1>8. Counts' /\ Piped'
  BY DEF Submit, Goto, TypeInv, RoundTypes, Counts, Piped, InTurn, streamVars
<1>9. QED
  BY <1>4, <1>5, <1>6, <1>7, <1>8 DEF TypeInv

LEMMA TakeTypes ==
  ASSUME TypeInv, Take
  PROVE  TypeInv'
<1> USE Bounds
<1> DEFINE r == Head(queue)
<1>1. r \in Rounds /\ Tail(queue) \in Seq(Rounds) /\ r \in Range(queue)
      /\ Range(Tail(queue)) \subseteq Range(queue) /\ r \notin Range(Tail(queue))
      /\ IsInjective(Tail(queue)) /\ pc[r] = "queued"
  BY TailRange DEF TypeInv, RoundTypes, Waiting, Take
<1> HIDE DEF r
<1>2. pc' = [pc EXCEPT ![r] = IF request[r] = Continue THEN "dropped" ELSE "prompting"]
      /\ queue' = Tail(queue)
  BY DEF Take, Goto, r
<1>3. RoundTypes'
  BY <1>1, <1>2 DEF Take, TypeInv, RoundTypes, Labels, Over
<1>4. StreamTypes' /\ ChatTypes'
  BY DEF Take, TypeInv, StreamTypes, ChatTypes, streamVars, clientVars
<1>5. Range(queue) \subseteq Rounds
  BY DEF TypeInv, RoundTypes, Range
<1>6. Waiting'
  BY <1>1, <1>2, <1>5 DEF TypeInv, RoundTypes, Waiting
<1>7. Places'
  BY <1>1, <1>2 DEF Take, TypeInv, RoundTypes, Places, Handled, Updating
<1>8. Counts' /\ Piped'
  BY <1>1, <1>2 DEF Take, TypeInv, RoundTypes, Counts, Piped, InTurn, streamVars
<1>9. QED
  BY <1>3, <1>4, <1>6, <1>7, <1>8 DEF TypeInv

\* A step of a task that is handling its request: where it goes is what counts.
LEMMA TaskMoves ==
  ASSUME TypeInv, NEW r \in Rounds, NEW l \in Handled,
         pc[r] \in Handled, pc' = [pc EXCEPT ![r] = l],
         UNCHANGED <<queue, request, child>>,
         l \in Updating => request[r].chat \in Chats,
         l \in {"waiting", "keeping"} => child[r] \in Sub
  PROVE  pc' \in [Rounds -> Labels] /\ pc'[r] = l /\ Waiting' /\ Places'
<1>1. l \in Labels /\ l # "queued" /\ pc[r] # "queued" /\ request[r] # Continue
  BY DEF Handled, TypeInv, Places
<1>2. pc \in [Rounds -> Labels]
  BY DEF TypeInv, RoundTypes
<1>3. pc' \in [Rounds -> Labels] /\ pc'[r] = l /\ \A s \in Rounds : s # r => pc'[s] = pc[s]
  BY <1>1, <1>2
<1>4. Waiting'
  BY <1>1, WaitingStays
<1>5. Places'
  BY <1>1, <1>3 DEF TypeInv, Places
<1>6. QED
  BY <1>3, <1>4, <1>5

LEMMA CountsMove ==
  ASSUME TypeInv, NEW r \in Rounds, NEW l \in Handled, pc' = [pc EXCEPT ![r] = l],
         UNCHANGED <<turn, calls, streams>>,
         l \in InTurn => turn[r] < MaxTurns, l # "prompting",
         l \in {"waiting", "keeping"} => Len(calls[r].outputs) < calls[r].made
  PROVE  Counts' /\ Piped'
<1>1. pc' \in [Rounds -> Labels] /\ pc'[r] = l /\ \A s \in Rounds : s # r => pc'[s] = pc[s]
  BY DEF TypeInv, RoundTypes, Handled
<1>2. l \notin {"new", "queued", "prompting"}
  BY DEF Handled
<1>3. QED
  BY <1>1, <1>2 DEF TypeInv, Counts, Piped

LEMMA PartTyped ==
  ASSUME NEW kind \in {"response", "outputs", "insert", "listing"}, NEW t \in 0 .. MaxTurns,
         NEW size \in 0 .. MaxTokens + MaxCalls + 2
  PROVE  Part(kind, t, size) \in Parts
  BY DEF Part, Parts

LEMMA SmallPartTyped ==
  ASSUME NEW kind \in {"response", "outputs", "insert", "listing"}, NEW t \in 0 .. MaxTurns
  PROVE  Part(kind, t, 0) \in Parts /\ Part(kind, t, 1) \in Parts
<1>1. 0 \in 0 .. MaxTokens + MaxCalls + 2 /\ 1 \in 0 .. MaxTokens + MaxCalls + 2
  BY Bounds
<1>2. QED
  BY <1>1, PartTyped

LEMMA AnswerTyped ==
  ASSUME NEW kind \in {"error", "block", "multiturn"}
  PROVE  Answer(kind) \in Messages /\ <<Answer(kind)>> \in Seq(Messages)
  BY Bounds DEF Answer, Messages

LEMMA SendTyped ==
  ASSUME TypeInv, NEW r \in Rounds, NEW m \in Seq(Messages), Send(r, m)
  PROVE  sent' \in [Rounds -> Seq(Messages)]
<1>1. sent[r] \o m \in Seq(Messages)
  BY DEF TypeInv, StreamTypes
<1>2. QED
  BY <1>1 DEF TypeInv, StreamTypes, Send

LEMMA FailTyped ==
  ASSUME TypeInv, NEW r \in Rounds, Fail(r)
  PROVE  /\ pc' = [pc EXCEPT ![r] = "failed"]
         /\ sent' \in [Rounds -> Seq(Messages)]
  BY AnswerTyped, SendTyped DEF Fail, Goto

LEMMA PromptTypes ==
  ASSUME TypeInv, NEW r \in Rounds, Prompt(r)
  PROVE  TypeInv'
<1> USE Bounds
<1> DEFINE stream == [state |-> "connecting", piped |-> 0, relayed |-> 0, over |-> FALSE]
<1>1. stream \in Streams /\ stream.piped + stream.relayed <= MaxTokens
  BY DEF Streams
<1> HIDE DEF stream
<1>2. /\ turn \in [Rounds -> 0 .. MaxTurns] /\ context[r] \in Seq(Parts)
      /\ streams \in [Rounds -> Seq(Streams)]
      /\ sent \in [Rounds -> Seq(Messages)]
      /\ pc[r] = "prompting" /\ pc[r] \in Handled
  BY DEF TypeInv, RoundTypes, StreamTypes, Prompt, Handled, Labels
<1>3. Part("listing", turn[r], 1) \in Parts
  <2>1. turn[r] \in 0 .. MaxTurns
    BY <1>2
  <2>2. QED
    BY <2>1, SmallPartTyped
<1>4. Listing(r) \in Seq(Parts)
  BY <1>3 DEF Listing
<1>5. context[r] \o Listing(r) \in Seq(Parts)
  BY <1>2, <1>4
<1>6. context' \in [Rounds -> Seq(Parts)]
  BY <1>5 DEF Prompt, TypeInv, RoundTypes
<1>7. PICK l \in {"asking", "failed"} :
        /\ pc' = [pc EXCEPT ![r] = l]
        /\ streams' = [streams EXCEPT ![r] = Append(@, stream)] \/ UNCHANGED streams
        /\ sent' \in [Rounds -> Seq(Messages)]
  <2>1. CASE Fail(r) /\ UNCHANGED streams
    BY <2>1, FailTyped
  <2>2. CASE ~(Fail(r) /\ UNCHANGED streams)
    BY <1>2, <2>2 DEF Prompt, Goto, stream
  <2>3. QED
    BY <2>1, <2>2
<1>8. l \in Handled /\ l \notin Updating \cup InTurn \cup {"new", "queued", "prompting"}
  BY DEF Handled, Labels, Over, Updating, InTurn
<1>9. pc' \in [Rounds -> Labels] /\ pc'[r] = l /\ Waiting' /\ Places'
  BY <1>2, <1>7, <1>8, TaskMoves DEF Prompt, InTurn
<1>10. RoundTypes'
  BY <1>6, <1>9 DEF Prompt, TypeInv, RoundTypes
<1>11. /\ streams' \in [Rounds -> Seq(Streams)]
       /\ Len(streams[r]) <= turn[r]
       /\ Len(streams'[r]) \in {Len(streams[r]), Len(streams[r]) + 1}
       /\ \A i \in DOMAIN streams'[r] : streams'[r][i].piped + streams'[r][i].relayed <= MaxTokens
       /\ \A s \in Rounds : s # r => streams'[s] = streams[s] /\ pc'[s] = pc[s]
  <2>1. /\ Append(streams[r], stream) \in Seq(Streams)
        /\ Len(Append(streams[r], stream)) = Len(streams[r]) + 1
        /\ \A i \in DOMAIN Append(streams[r], stream) :
             \/ i \in DOMAIN streams[r] /\ Append(streams[r], stream)[i] = streams[r][i]
             \/ Append(streams[r], stream)[i] = stream
    BY <1>1, <1>2
  <2>2. \A s \in Rounds : s # r => pc'[s] = pc[s]
    BY <1>7 DEF TypeInv, RoundTypes
  <2>3. Len(streams[r]) <= turn[r]
    BY <1>2 DEF TypeInv, Counts
  <2>4. CASE UNCHANGED streams
    BY <1>2, <2>2, <2>3, <2>4 DEF TypeInv, Piped
  <2>5. CASE streams' = [streams EXCEPT ![r] = Append(@, stream)]
    <3>1. streams'[r] = Append(streams[r], stream)
          /\ \A s \in Rounds : s # r => streams'[s] = streams[s]
      BY <1>2, <2>5
    <3>2. streams' \in [Rounds -> Seq(Streams)]
      BY <1>2, <2>1, <2>5
    <3>3. \A i \in DOMAIN streams'[r] : streams'[r][i].piped + streams'[r][i].relayed <= MaxTokens
      BY <1>1, <2>1, <3>1 DEF TypeInv, Piped
    <3>4. QED
      BY <2>1, <2>2, <2>3, <3>1, <3>2, <3>3
  <2>6. QED
    BY <1>7, <2>4, <2>5
<1>12. StreamTypes' /\ ChatTypes'
  BY <1>7, <1>11 DEF Prompt, TypeInv, StreamTypes, ChatTypes, clientVars
<1>13. Counts'
  <2>1. turn[r] \in Nat /\ Len(streams'[r]) \in Nat /\ Len(streams[r]) \in Nat
    BY <1>2, <1>11
  <2>2. Len(streams'[r]) <= turn[r] + 1
    BY <1>11, <2>1
  <2>3. QED
    BY <1>8, <1>9, <1>11, <2>2 DEF Prompt, TypeInv, Counts
<1>14. Piped'
  BY <1>11 DEF TypeInv, Piped
<1>15. QED
  BY <1>9, <1>10, <1>12, <1>13, <1>14 DEF TypeInv

LEMMA GetResponseTypes ==
  ASSUME TypeInv, NEW r \in Rounds, GetResponse(r)
  PROVE  TypeInv'
<1> USE Bounds
<1>1. turn[r] \in 0 .. MaxTurns /\ pc[r] = "asking" /\ pc[r] \in Handled
  BY DEF TypeInv, RoundTypes, GetResponse, Handled, Labels
<1>2. /\ Part("response", turn[r], 0) \in Parts /\ Part("response", turn[r], 1) \in Parts
  BY <1>1, SmallPartTyped
<1>3. PICK l \in {"failed", "reading", "deciding"} :
        /\ pc' = [pc EXCEPT ![r] = l]
        /\ response' \in [Rounds -> Parts]
        /\ sent' \in [Rounds -> Seq(Messages)]
  <2>1. response \in [Rounds -> Parts] /\ sent \in [Rounds -> Seq(Messages)]
    BY DEF TypeInv, RoundTypes, StreamTypes
  <2>2. CASE result[r] = "error"
    BY <2>1, <2>2, FailTyped DEF GetResponse
  <2>3. CASE result[r] = "ok"
    <3>1. sent' = sent /\ pc' = [pc EXCEPT ![r] = IF Streaming(r) THEN "reading" ELSE "deciding"]
          /\ response' = [response EXCEPT ![r] =
                            Part("response", turn[r], IF Streaming(r) THEN 0 ELSE 1)]
      BY <2>3 DEF GetResponse, Goto
    <3>2. QED
      BY <1>2, <2>1, <3>1
  <2>4. QED
    BY <2>2, <2>3 DEF GetResponse
<1>4. l \in Handled /\ l \notin Updating \cup InTurn \cup {"new", "queued", "prompting"}
  BY DEF Handled, Labels, Over, Updating, InTurn
<1>5. pc' \in [Rounds -> Labels] /\ pc'[r] = l /\ Waiting' /\ Places'
  BY <1>1, <1>3, <1>4, TaskMoves DEF GetResponse, InTurn
<1>6. RoundTypes'
  BY <1>3, <1>5 DEF GetResponse, TypeInv, RoundTypes
<1>7. StreamTypes' /\ ChatTypes'
  BY <1>3 DEF GetResponse, TypeInv, StreamTypes, ChatTypes, clientVars
<1>8. Counts' /\ Piped'
  BY <1>3, <1>4, CountsMove DEF GetResponse, InTurn
<1>9. QED
  BY <1>5, <1>6, <1>7, <1>8 DEF TypeInv

LEMMA ReadTypes ==
  ASSUME TypeInv, NEW r \in Rounds, Read(r)
  PROVE  TypeInv'
<1> USE Bounds
<1>1. /\ pc[r] \in Handled /\ pc' = [pc EXCEPT ![r] = "deciding"]
      /\ "deciding" \in Handled
      /\ "deciding" \notin Updating \cup InTurn \cup {"new", "queued", "prompting"}
  BY DEF TypeInv, RoundTypes, Read, Goto, Handled, Labels, Updating, InTurn
<1>2. totals[r] \in Seq(Parts) /\ totals[r] # <<>>
  BY DEF TypeInv, StreamTypes, Read
<1>3. Head(totals[r]) \in Parts /\ Tail(totals[r]) \in Seq(Parts)
  BY <1>2
<1>4. pc' \in [Rounds -> Labels] /\ Waiting' /\ Places'
  BY <1>1, TaskMoves DEF Read, InTurn
<1>5. RoundTypes'
  BY <1>3, <1>4 DEF Read, TypeInv, RoundTypes
<1>6. StreamTypes' /\ ChatTypes'
  BY <1>3 DEF Read, TypeInv, StreamTypes, ChatTypes, clientVars
<1>7. Counts' /\ Piped'
  BY <1>1, CountsMove DEF Read, InTurn
<1>8. QED
  BY <1>4, <1>5, <1>6, <1>7 DEF TypeInv

LEMMA DecideTypes ==
  ASSUME TypeInv, NEW r \in Rounds, Decide(r)
  PROVE  TypeInv'
<1> USE Bounds
<1>1. /\ pc[r] = "deciding" /\ pc[r] \in Handled
      /\ context[r] \in Seq(Parts) /\ response[r] \in Parts
      /\ calls \in [Rounds -> CallRecords]
      /\ context \in [Rounds -> Seq(Parts)] /\ form \in [Rounds -> {"call", "final", "raw"}]
  BY DEF TypeInv, RoundTypes, Decide, Handled, Labels
<1>2. PICK f \in {"call", "final", "raw"} :
        /\ form' = [form EXCEPT ![r] = f]
        /\ \/ /\ LoopsOn(r, f)
              /\ pc' = [pc EXCEPT ![r] = "calling"]
              /\ calls' = [calls EXCEPT ![r] = NoCalls]
              /\ UNCHANGED context
           \/ /\ context' = [context EXCEPT ![r] = Append(@, response[r])]
              /\ pc' = [pc EXCEPT ![r] =
                           IF request[r].chat = NoChat THEN "answering" ELSE "writing"]
              /\ UNCHANGED calls
  BY DEF Decide, Goto
<1>3. Append(context[r], response[r]) \in Seq(Parts)
  BY <1>1
<1>4. NoCalls \in CallRecords
      /\ Len(NoCalls.outputs) <= NoCalls.made
  BY DEF NoCalls, CallRecords
<1>5. request[r] \in Prompts
  BY <1>1 DEF TypeInv, RoundTypes, Places
<1>6. request[r].chat # NoChat => request[r].chat \in Chats
  BY <1>5 DEF Prompts
<1>7. PICK l \in {"calling", "answering", "writing"} :
        /\ pc' = [pc EXCEPT ![r] = l]
        /\ l = "calling" => turn[r] < MaxTurns
        /\ l = "writing" => request[r].chat \in Chats
  BY <1>2, <1>6 DEF LoopsOn
<1>8. l \in Handled /\ l \notin {"new", "queued", "prompting", "waiting", "keeping"}
      /\ (l \in InTurn => l = "calling") /\ (l \in Updating => l = "writing")
  BY DEF Handled, Labels, Updating, InTurn
<1>9. pc' \in [Rounds -> Labels] /\ pc'[r] = l /\ Waiting' /\ Places'
  BY <1>1, <1>7, <1>8, TaskMoves DEF Decide
<1>10. /\ context' \in [Rounds -> Seq(Parts)]
       /\ form' \in [Rounds -> {"call", "final", "raw"}]
       /\ calls' \in [Rounds -> CallRecords]
       /\ \A s \in Rounds : calls'[s] \in {calls[s], NoCalls}
  <2>1. form' \in [Rounds -> {"call", "final", "raw"}]
    BY <1>1, <1>2
  <2>2. CASE LoopsOn(r, f) /\ UNCHANGED context /\ calls' = [calls EXCEPT ![r] = NoCalls]
    BY <1>1, <1>4, <2>1, <2>2
  <2>3. CASE UNCHANGED calls /\ context' = [context EXCEPT ![r] = Append(@, response[r])]
    BY <1>1, <1>3, <2>1, <2>3
  <2>4. QED
    BY <1>2, <2>2, <2>3
<1>11. RoundTypes'
  BY <1>9, <1>10 DEF Decide, TypeInv, RoundTypes
<1>12. StreamTypes' /\ ChatTypes'
  BY DEF Decide, TypeInv, StreamTypes, ChatTypes, streamVars, clientVars
<1>13. \A s \in Rounds : s # r => pc'[s] = pc[s]
  BY <1>7 DEF TypeInv, RoundTypes
<1>14. Counts' /\ Piped'
  BY <1>4, <1>7, <1>8, <1>9, <1>10, <1>13 DEF Decide, TypeInv, Counts, Piped, streamVars
<1>15. QED
  BY <1>9, <1>11, <1>12, <1>14 DEF TypeInv

LEMMA FinishTypes ==
  ASSUME TypeInv, NEW r \in Rounds, Finish(r)
  PROVE  TypeInv'
<1> USE Bounds
<1>1. /\ pc[r] \in Handled /\ pc' = [pc EXCEPT ![r] = "done"] /\ "done" \in Handled
      /\ "done" \notin Updating \cup InTurn \cup {"new", "queued", "prompting"}
  BY DEF TypeInv, RoundTypes, Finish, Goto, Handled, Labels, Over, Updating, InTurn
<1>2. <<>> \in Seq(Messages) /\ <<Answer("block")>> \in Seq(Messages)
      /\ <<Answer("multiturn")>> \in Seq(Messages)
  BY AnswerTyped
<1>3. sent' \in [Rounds -> Seq(Messages)]
  BY <1>2, SendTyped DEF Finish
<1>4. pc' \in [Rounds -> Labels] /\ Waiting' /\ Places'
  BY <1>1, TaskMoves DEF Finish, InTurn
<1>5. RoundTypes'
  BY <1>4 DEF Finish, TypeInv, RoundTypes
<1>6. StreamTypes' /\ ChatTypes'
  BY <1>3 DEF Finish, TypeInv, StreamTypes, ChatTypes, streamVars, clientVars
<1>7. Counts' /\ Piped'
  BY <1>1, CountsMove DEF Finish, InTurn, streamVars
<1>8. QED
  BY <1>4, <1>5, <1>6, <1>7 DEF TypeInv

\* Steps of streams, jobs and clients leave the rounds where they are.
LEMMA RoundsStay ==
  ASSUME TypeInv, UNCHANGED <<queue, roundVars>>
  PROVE  RoundTypes' /\ Waiting' /\ Places'
<1>1. UNCHANGED <<queue, request, pc, turn, context, response, form, calls, agents, child, target>>
  BY DEF roundVars
<1>2. QED
  BY <1>1 DEF TypeInv, RoundTypes, Waiting, Places

LEMMA CountsStay ==
  ASSUME TypeInv, UNCHANGED <<roundVars, streams>>
  PROVE  Counts' /\ Piped'
<1>1. UNCHANGED <<pc, turn, calls, streams>>
  BY DEF roundVars
<1>2. QED
  BY <1>1 DEF TypeInv, Counts, Piped

\* One stream of a round changes.
LEMMA StreamChanges ==
  ASSUME TypeInv, NEW r \in Rounds, NEW i, NEW new,
         UNCHANGED <<queue, roundVars>>,
         streams' = [streams EXCEPT ![r][i] = new],
         i \in DOMAIN streams[r] => new \in Streams /\ new.piped + new.relayed <= MaxTokens
  PROVE  /\ streams' \in [Rounds -> Seq(Streams)]
         /\ Counts' /\ Piped'
<1>1. UNCHANGED <<pc, turn, calls>>
  BY DEF roundVars
<1>2. streams \in [Rounds -> Seq(Streams)]
  BY DEF TypeInv, StreamTypes
<1>3. /\ streams'[r] = [streams[r] EXCEPT ![i] = new]
      /\ \A s \in Rounds : s # r => streams'[s] = streams[s]
  BY <1>2
<1>4. streams'[r] \in Seq(Streams) /\ Len(streams'[r]) = Len(streams[r])
      /\ DOMAIN streams'[r] = DOMAIN streams[r]
      /\ \A k \in DOMAIN streams[r] : streams'[r][k] = IF k = i THEN new ELSE streams[r][k]
  <2> DEFINE s == streams[r]
             t == [s EXCEPT ![i] = new]
  <2>1. s \in Seq(Streams) /\ t = streams'[r]
    BY <1>2, <1>3
  <2> HIDE DEF s
  <2>2. CASE i \in DOMAIN s
    BY <2>1, <2>2 DEF s
  <2>3. CASE i \notin DOMAIN s
    <3>1. t = s
      BY <2>1, <2>3
    <3>2. QED
      BY <2>1, <2>3, <3>1 DEF s
  <2>4. QED
    BY <2>2, <2>3
<1>5. streams' \in [Rounds -> Seq(Streams)]
  BY <1>2, <1>3, <1>4
<1>6. Counts'
  BY <1>1, <1>3, <1>4 DEF TypeInv, Counts
<1>7. Piped'
  BY <1>3, <1>4 DEF TypeInv, Piped
<1>8. QED
  BY <1>5, <1>6, <1>7

LEMMA ReachTypes ==
  ASSUME TypeInv, NEW r \in Rounds, Reach(r)
  PROVE  TypeInv'
<1> USE Bounds
<1>1. PICK res \in {"ok", "error"} :
        /\ result' = [result EXCEPT ![r] = res]
        /\ streams' = IF Streaming(r)
                      THEN [streams EXCEPT ![r][turn[r] + 1].state =
                              IF res = "ok" THEN "open" ELSE "closed"]
                      ELSE streams
  BY DEF Reach
<1> DEFINE i == turn[r] + 1
           new == [streams[r][i] EXCEPT !.state = IF res = "ok" THEN "open" ELSE "closed"]
<1>2. RoundTypes' /\ Waiting' /\ Places'
  BY RoundsStay DEF Reach
<1>3. streams' \in [Rounds -> Seq(Streams)] /\ Counts' /\ Piped'
  <2>1. CASE Streaming(r)
    <3>1. streams' = [streams EXCEPT ![r][i] = new]
      BY <1>1, <2>1
    <3>2. ASSUME i \in DOMAIN streams[r]
          PROVE  new \in Streams /\ new.piped + new.relayed <= MaxTokens
      <4>1. streams[r][i] \in Streams
        BY <3>2 DEF TypeInv, StreamTypes
      <4>2. new \in Streams /\ new.piped = streams[r][i].piped
            /\ new.relayed = streams[r][i].relayed
        BY <4>1 DEF Streams
      <4>3. QED
        BY <3>2, <4>2 DEF TypeInv, Piped
    <3> HIDE DEF i, new
    <3>3. QED
      BY <3>1, <3>2, StreamChanges DEF Reach
  <2>2. CASE ~Streaming(r)
    BY <1>1, <2>2, CountsStay DEF Reach, TypeInv, StreamTypes
  <2>3. QED
    BY <2>1, <2>2
<1>4. StreamTypes' /\ ChatTypes'
  BY <1>1, <1>3 DEF Reach, TypeInv, StreamTypes, ChatTypes, clientVars
<1>5. QED
  BY <1>2, <1>3, <1>4 DEF TypeInv

LEMMA ProduceTypes ==
  ASSUME TypeInv, NEW r \in Rounds, NEW i \in DOMAIN streams[r], Produce(r, i)
  PROVE  TypeInv'
<1> USE Bounds
<1>1. /\ streams[r][i] \in Streams
      /\ streams[r][i].piped + streams[r][i].relayed <= MaxTokens
  BY DEF TypeInv, StreamTypes, Piped
<1>2. PICK new \in Streams :
        /\ streams' = [streams EXCEPT ![r][i] = new]
        /\ new.piped + new.relayed <= MaxTokens
  <2>1. CASE /\ streams[r][i].piped + streams[r][i].relayed < MaxTokens
             /\ streams' = [streams EXCEPT ![r][i].piped = @ + 1]
    <3> DEFINE new == [streams[r][i] EXCEPT !.piped = streams[r][i].piped + 1]
    <3>1. streams' = [streams EXCEPT ![r][i] = new]
      BY <2>1
    <3>2. new \in Streams /\ new.piped + new.relayed <= MaxTokens
      BY <1>1, <2>1 DEF Streams
    <3>3. QED
      BY <3>1, <3>2
  <2>2. CASE streams' = [streams EXCEPT ![r][i].state = "closed"]
    <3> DEFINE new == [streams[r][i] EXCEPT !.state = "closed"]
    <3>1. streams' = [streams EXCEPT ![r][i] = new]
      BY <2>2
    <3>2. new \in Streams /\ new.piped + new.relayed <= MaxTokens
      BY <1>1 DEF Streams
    <3>3. QED
      BY <3>1, <3>2
  <2>3. QED
    BY <2>1, <2>2 DEF Produce
<1>3. streams' \in [Rounds -> Seq(Streams)] /\ Counts' /\ Piped'
  BY <1>2, StreamChanges DEF Produce
<1>4. RoundTypes' /\ Waiting' /\ Places'
  BY RoundsStay DEF Produce
<1>5. StreamTypes' /\ ChatTypes'
  BY <1>3 DEF Produce, TypeInv, StreamTypes, ChatTypes, clientVars
<1>6. QED
  BY <1>3, <1>4, <1>5 DEF TypeInv

LEMMA RelayTypes ==
  ASSUME TypeInv, NEW r \in Rounds, NEW i \in DOMAIN streams[r], Relay(r, i)
  PROVE  TypeInv'
<1> USE Bounds
<1> DEFINE stream == streams[r][i]
           part == Part("response", i - 1, stream.relayed)
<1>1. /\ stream \in Streams /\ stream.piped + stream.relayed <= MaxTokens
      /\ i - 1 \in 0 .. MaxTurns
  <2>1. streams[r] \in Seq(Streams) /\ turn[r] \in 0 .. MaxTurns
    BY DEF TypeInv, RoundTypes, StreamTypes
  <2>2. i \in 1 .. Len(streams[r]) /\ Len(streams[r]) \in Nat /\ Len(streams[r]) <= turn[r] + 1
    BY <2>1 DEF TypeInv, Counts
  <2>3. QED
    BY <2>1, <2>2 DEF TypeInv, Piped
<1>2. part \in Parts
  BY <1>1 DEF Part, Parts, Streams
<1>3. PICK new \in Streams :
        /\ streams' = [streams EXCEPT ![r][i] = new]
        /\ new.piped + new.relayed <= MaxTokens
        /\ sent' \in [Rounds -> Seq(Messages)]
        /\ totals' \in [Rounds -> Seq(Parts)]
  <2>1. totals \in [Rounds -> Seq(Parts)] /\ sent \in [Rounds -> Seq(Messages)]
    BY DEF TypeInv, StreamTypes
  <2>2. CASE /\ stream.piped > 0
             /\ streams' = [streams EXCEPT ![r][i].piped = @ - 1, ![r][i].relayed = @ + 1]
             /\ Send(r, <<Token(part, stream.relayed + 1)>>)
             /\ UNCHANGED totals
    <3> DEFINE new == [stream EXCEPT !.piped = stream.piped - 1, !.relayed = stream.relayed + 1]
    <3>1. streams' = [streams EXCEPT ![r][i] = new]
      BY <2>2 DEF TypeInv, StreamTypes
    <3>2. new \in Streams /\ new.piped + new.relayed <= MaxTokens
      <4>1. stream.piped \in Nat /\ stream.relayed \in Nat /\ MaxTokens \in Nat
        BY <1>1 DEF Streams
      <4>2. stream.piped - 1 \in 0 .. MaxTokens /\ stream.relayed + 1 \in 0 .. MaxTokens
            /\ (stream.piped - 1) + (stream.relayed + 1) <= MaxTokens
        BY <1>1, <2>2, <4>1
      <4> HIDE DEF stream
      <4>3. new \in Streams /\ new.piped = stream.piped - 1 /\ new.relayed = stream.relayed + 1
        BY <1>1, <4>2 DEF Streams
      <4>4. QED
        BY <4>2, <4>3
    <3>3. Token(part, stream.relayed + 1) \in Messages
      BY <1>1, <2>2 DEF Token, Part, Messages, Streams
    <3>4. <<Token(part, stream.relayed + 1)>> \in Seq(Messages)
      BY <3>3
    <3>5. sent' \in [Rounds -> Seq(Messages)]
      BY <2>2, <3>4, SendTyped
    <3>6. QED
      BY <2>1, <2>2, <3>1, <3>2, <3>5
  <2>3. CASE /\ streams' = [streams EXCEPT ![r][i].over = TRUE]
             /\ IF stream.relayed = 0
                THEN Send(r, <<Answer("error")>>) /\ UNCHANGED totals
                ELSE totals' = [totals EXCEPT ![r] = Append(@, part)] /\ UNCHANGED sent
    <3> DEFINE new == [stream EXCEPT !.over = TRUE]
    <3>1. streams' = [streams EXCEPT ![r][i] = new]
      BY <2>3
    <3>2. new \in Streams /\ new.piped + new.relayed <= MaxTokens
      BY <1>1 DEF Streams
    <3>3. sent' \in [Rounds -> Seq(Messages)] /\ totals' \in [Rounds -> Seq(Parts)]
      <4>1. CASE stream.relayed = 0
        BY <2>1, <2>3, <4>1, AnswerTyped, SendTyped
      <4>2. CASE stream.relayed # 0
        <5> HIDE DEF part
        <5>1. Append(totals[r], part) \in Seq(Parts)
          BY <1>2, <2>1
        <5>2. QED
          BY <2>1, <2>3, <4>2, <5>1
      <4>3. QED
        BY <4>1, <4>2
    <3>4. QED
      BY <3>1, <3>2, <3>3
  <2>4. QED
    BY <2>2, <2>3 DEF Relay
<1>4. streams' \in [Rounds -> Seq(Streams)] /\ Counts' /\ Piped'
  BY <1>3, StreamChanges DEF Relay
<1>5. RoundTypes' /\ Waiting' /\ Places'
  BY RoundsStay DEF Relay
<1>6. StreamTypes' /\ ChatTypes'
  BY <1>3, <1>4 DEF Relay, TypeInv, StreamTypes, ChatTypes, clientVars
<1>7. QED
  BY <1>4, <1>5, <1>6 DEF TypeInv

\* The counted call of a turn gets its output.
LEMMA AfterCallTypes ==
  ASSUME TypeInv, NEW r \in Rounds, NEW c \in CallRecords, NEW res \in {"ok", "error"},
         AfterCall(r, c, res), Len(c.outputs) < c.made,
         pc[r] \in InTurn, UNCHANGED <<queue, request, turn, child, streams>>
  PROVE  /\ pc' \in [Rounds -> Labels] /\ Waiting' /\ Places' /\ Counts' /\ Piped'
         /\ calls' \in [Rounds -> CallRecords]
<1> USE Bounds
<1>1. PICK l \in {"calling", "closing"} : pc' = [pc EXCEPT ![r] = l]
  BY DEF AfterCall, Goto
<1>2. /\ l \in Handled /\ l \in InTurn /\ pc[r] \in Handled
      /\ l \notin Updating \cup {"new", "queued", "prompting", "waiting", "keeping"}
  BY DEF Handled, Labels, Updating, InTurn
<1>3. pc' \in [Rounds -> Labels] /\ pc'[r] = l /\ Waiting' /\ Places'
  BY <1>1, <1>2, TaskMoves
<1>4. WithOutput(c, res) \in CallRecords
      /\ Len(WithOutput(c, res).outputs) <= WithOutput(c, res).made
  <2>1. /\ c.outputs \in Seq({"ok", "error"}) /\ c.made \in 0 .. MaxCalls
        /\ Len(c.outputs) \in Nat
    BY DEF CallRecords
  <2>2. CASE res = "ok"
    <3>1. Append(c.outputs, res) \in Seq({"ok", "error"})
          /\ Len(Append(c.outputs, res)) = Len(c.outputs) + 1
      BY <2>1
    <3>2. WithOutput(c, res) = [c EXCEPT !.outputs = Append(c.outputs, res)]
      BY <2>2 DEF WithOutput
    <3>3. WithOutput(c, res) \in CallRecords /\ WithOutput(c, res).made = c.made
          /\ WithOutput(c, res).outputs = Append(c.outputs, res)
      BY <3>1, <3>2 DEF CallRecords
    <3>4. QED
      BY <2>1, <3>1, <3>3
  <2>3. CASE res # "ok"
    <3>1. <<res>> \in Seq({"ok", "error"}) /\ Len(<<res>>) = 1
      OBVIOUS
    <3>2. WithOutput(c, res) = [c EXCEPT !.outputs = <<res>>]
      BY <2>3 DEF WithOutput
    <3>3. WithOutput(c, res) \in CallRecords /\ WithOutput(c, res).made = c.made
          /\ WithOutput(c, res).outputs = <<res>>
      BY <3>1, <3>2 DEF CallRecords
    <3>4. QED
      BY <2>1, <3>1, <3>3
  <2>4. QED
    BY <2>2, <2>3
<1>5. /\ calls' \in [Rounds -> CallRecords] /\ calls'[r] = WithOutput(c, res)
      /\ \A s \in Rounds : s # r => calls'[s] = calls[s] /\ pc'[s] = pc[s]
  BY <1>1, <1>4 DEF AfterCall, TypeInv, RoundTypes
<1>6. turn[r] < MaxTurns /\ Len(streams[r]) <= turn[r] + 1
  BY DEF TypeInv, Counts
<1>7. Counts' /\ Piped'
  BY <1>2, <1>3, <1>4, <1>5, <1>6 DEF TypeInv, Counts, Piped
<1>8. QED
  BY <1>3, <1>5, <1>7

LEMMA CountedTyped ==
  ASSUME TypeInv, NEW r \in Rounds, MayCall(r)
  PROVE  /\ Counted(r) \in CallRecords /\ Len(Counted(r).outputs) < Counted(r).made
         /\ Counted(r).outputs = calls[r].outputs /\ Counted(r).made = calls[r].made + 1
<1>1. /\ calls[r] \in CallRecords /\ Len(calls[r].outputs) <= calls[r].made
      /\ calls[r].made < MaxCalls
  BY DEF TypeInv, RoundTypes, Counts, MayCall
<1>2. calls[r].made + 1 \in 0 .. MaxCalls /\ Len(calls[r].outputs) \in Nat
  BY <1>1, Bounds DEF CallRecords
<1>3. Counted(r) \in CallRecords /\ Counted(r).outputs = calls[r].outputs
      /\ Counted(r).made = calls[r].made + 1
  BY <1>1, <1>2 DEF Counted, CallRecords
<1>4. QED
  BY <1>1, <1>2, <1>3 DEF CallRecords

LEMMA CallToolTypes ==
  ASSUME TypeInv, NEW r \in Rounds, CallTool(r)
  PROVE  TypeInv'
<1>1. PICK res \in {"ok", "error"} : AfterCall(r, Counted(r), res)
  BY DEF CallTool
<1>2. UNCHANGED <<queue, request, turn, child, streams>> /\ MayCall(r) /\ pc[r] \in InTurn
  BY DEF CallTool, streamVars, MayCall, InTurn
<1>3. /\ pc' \in [Rounds -> Labels] /\ Waiting' /\ Places' /\ Counts' /\ Piped'
      /\ calls' \in [Rounds -> CallRecords]
  BY <1>1, <1>2, CountedTyped, AfterCallTypes
<1>4. RoundTypes'
  BY <1>3 DEF CallTool, TypeInv, RoundTypes
<1>5. StreamTypes' /\ ChatTypes'
  BY DEF CallTool, TypeInv, StreamTypes, ChatTypes, streamVars, clientVars
<1>6. QED
  BY <1>3, <1>4, <1>5 DEF TypeInv

LEMMA StartAgentTypes ==
  ASSUME TypeInv, NEW r \in Rounds, NEW s \in Sub, NEW tools \in SUBSET ToolNames,
         MayCall(r), StartAgent(r, s, tools), UNCHANGED <<turn, streams>>
  PROVE  /\ queue' \in Seq(Rounds) /\ request' \in [Rounds -> Prompts \cup {Continue}]
         /\ pc' \in [Rounds -> Labels] /\ calls' \in [Rounds -> CallRecords]
         /\ child' \in [Rounds -> Sub \cup {NoRound}]
         /\ Waiting' /\ Places' /\ Counts' /\ Piped'
<1> USE Bounds
<1> DEFINE asked == [NoPrompt EXCEPT !.tools = tools]
<1>1. asked \in Prompts
  BY DEF NoPrompt, Prompts
<1> HIDE DEF asked
<1>2. /\ pc \in [Rounds -> Labels] /\ request \in [Rounds -> Prompts \cup {Continue}]
      /\ calls \in [Rounds -> CallRecords] /\ child \in [Rounds -> Sub \cup {NoRound}]
      /\ queue \in Seq(Rounds) /\ s \in Rounds
  BY DEF TypeInv, RoundTypes
<1>3. /\ pc[r] = "calling" /\ pc[s] = "new" /\ r # s
      /\ pc' = [pc EXCEPT ![r] = "waiting", ![s] = "queued"]
      /\ request' = [request EXCEPT ![s] = asked]
      /\ queue' = Append(queue, s)
      /\ child' = [child EXCEPT ![r] = s]
      /\ calls' = [calls EXCEPT ![r] = Counted(r)]
  BY DEF MayCall, StartAgent, asked
<1>4. /\ pc'[r] = "waiting" /\ pc'[s] = "queued" /\ pc' \in [Rounds -> Labels]
      /\ \A q \in Rounds : q # r /\ q # s => pc'[q] = pc[q]
  <2>1. "waiting" \in Labels /\ "queued" \in Labels
    BY DEF Labels
  <2>2. QED
    BY <1>2, <1>3, <2>1
<1>5. /\ request' \in [Rounds -> Prompts \cup {Continue}] /\ request'[s] = asked
      /\ \A q \in Rounds : q # s => request'[q] = request[q]
  BY <1>1, <1>2, <1>3
<1>6. /\ child' \in [Rounds -> Sub \cup {NoRound}] /\ child'[r] = s
      /\ \A q \in Rounds : q # r => child'[q] = child[q]
  BY <1>2, <1>3
<1>7. /\ calls' \in [Rounds -> CallRecords] /\ calls'[r] = Counted(r)
      /\ \A q \in Rounds : q # r => calls'[q] = calls[q]
  BY <1>2, <1>3, CountedTyped
<1>8. /\ Append(queue, s) \in Seq(Rounds) /\ Range(Append(queue, s)) = Range(queue) \cup {s}
      /\ s \notin Range(queue) /\ IsInjective(Append(queue, s))
  BY <1>2, <1>3, AppendRange DEF TypeInv, Waiting
<1>9. Waiting'
  <2>1. \A q \in Range(queue) : q \in Rounds /\ q # r /\ q # s /\ pc[q] = "queued"
    BY <1>2, <1>3, <1>8 DEF TypeInv, Waiting, Range
  <2>2. QED
    BY <1>3, <1>4, <1>8, <2>1 DEF Waiting
<1>10. Places'
  <2>1. request[r] # Continue
    BY <1>3 DEF TypeInv, Places, Handled, Labels
  <2>2. \A q \in Sub : request'[q] \in Prompts
    BY <1>1, <1>2, <1>5 DEF TypeInv, Places
  <2>3. "queued" \notin Handled /\ "queued" \notin Updating /\ "waiting" \notin Updating
    BY DEF Handled, Updating
  <2>4. QED
    BY <1>3, <1>4, <1>5, <1>6, <2>1, <2>2, <2>3 DEF TypeInv, Places
<1>11. Counts' /\ Piped'
  <2>1. "waiting" \in InTurn /\ "queued" \notin InTurn /\ "calling" \in InTurn
    BY DEF InTurn
  <2>2. turn[r] < MaxTurns /\ Len(streams[s]) <= turn[s]
    BY <1>2, <1>3, <2>1 DEF TypeInv, Counts
  <2>3. Len(Counted(r).outputs) < Counted(r).made /\ Len(Counted(r).outputs) <= Counted(r).made
    BY CountedTyped DEF CallRecords
  <2>4. Counts'
    BY <1>2, <1>3, <1>4, <1>7, <2>1, <2>2, <2>3 DEF TypeInv, Counts
  <2>5. QED
    BY <2>4 DEF TypeInv, Piped
<1>12. QED
  BY <1>3, <1>4, <1>5, <1>6, <1>7, <1>8, <1>9, <1>10, <1>11

LEMMA RunAgentTypes ==
  ASSUME TypeInv, NEW r \in Rounds, RunAgent(r)
  PROVE  TypeInv'
<1>1. PICK s \in Sub, tools \in SUBSET AllocatableBy(r) : StartAgent(r, s, tools)
  BY DEF RunAgent
<1>2. tools \in SUBSET ToolNames
  BY Bounds DEF AllocatableBy
<1>3. /\ queue' \in Seq(Rounds) /\ request' \in [Rounds -> Prompts \cup {Continue}]
      /\ pc' \in [Rounds -> Labels] /\ calls' \in [Rounds -> CallRecords]
      /\ child' \in [Rounds -> Sub \cup {NoRound}]
      /\ Waiting' /\ Places' /\ Counts' /\ Piped'
  BY <1>1, <1>2, StartAgentTypes DEF RunAgent, streamVars
<1>4. RoundTypes'
  BY <1>3 DEF RunAgent, TypeInv, RoundTypes
<1>5. StreamTypes' /\ ChatTypes'
  BY DEF RunAgent, TypeInv, StreamTypes, ChatTypes, streamVars, clientVars
<1>6. QED
  BY <1>3, <1>4, <1>5 DEF TypeInv

LEMMA RespondToAgentTypes ==
  ASSUME TypeInv, NEW r \in Rounds, RespondToAgent(r)
  PROVE  TypeInv'
<1> USE Bounds
<1>1. PICK a \in agents[r] :
        \/ /\ \E s \in Sub : StartAgent(r, s, Tools(a))
           /\ target' = [target EXCEPT ![r] = [agent |-> a, read |-> chat[a]]]
        \/ /\ Goto(r, "panicked")
           /\ UNCHANGED <<queue, request, calls, child, target>>
  BY DEF RespondToAgent
<1>2. /\ a \in Sub /\ a \in Rounds /\ a \in ChatIds /\ chat[a] \in ChatRecords
      /\ target \in [Rounds -> [agent : Sub, read : ChatRecords] \cup {NoTarget}]
      /\ MayCall(r) /\ UNCHANGED <<turn, streams>>
  BY DEF TypeInv, RoundTypes, ChatTypes, RespondToAgent, streamVars
<1>3. CASE \E s \in Sub : StartAgent(r, s, Tools(a))
                          /\ target' = [target EXCEPT ![r] = [agent |-> a, read |-> chat[a]]]
  <2>1. Tools(a) \in SUBSET ToolNames
    BY <1>2 DEF Tools, TypeInv, Places, Prompts
  <2>2. target' \in [Rounds -> [agent : Sub, read : ChatRecords] \cup {NoTarget}]
    BY <1>2, <1>3
  <2>3. /\ queue' \in Seq(Rounds) /\ request' \in [Rounds -> Prompts \cup {Continue}]
        /\ pc' \in [Rounds -> Labels] /\ calls' \in [Rounds -> CallRecords]
        /\ child' \in [Rounds -> Sub \cup {NoRound}]
        /\ Waiting' /\ Places' /\ Counts' /\ Piped'
    BY <1>2, <1>3, <2>1, StartAgentTypes
  <2>4. RoundTypes'
    BY <2>2, <2>3 DEF RespondToAgent, TypeInv, RoundTypes
  <2>5. StreamTypes' /\ ChatTypes'
    BY DEF RespondToAgent, TypeInv, StreamTypes, ChatTypes, streamVars, clientVars
  <2>6. QED
    BY <2>3, <2>4, <2>5 DEF TypeInv
<1>4. CASE Goto(r, "panicked") /\ UNCHANGED <<queue, request, calls, child, target>>
  <2>1. /\ pc' = [pc EXCEPT ![r] = "panicked"] /\ pc[r] \in Handled /\ "panicked" \in Handled
        /\ "panicked" \notin Updating \cup InTurn \cup {"new", "queued", "prompting"}
    BY <1>2, <1>4 DEF Goto, MayCall, Handled, Labels, Over, Updating, InTurn
  <2>2. pc' \in [Rounds -> Labels] /\ Waiting' /\ Places'
    BY <1>4, <2>1, TaskMoves DEF InTurn
  <2>3. Counts' /\ Piped'
    BY <1>2, <1>4, <2>1, CountsMove DEF InTurn
  <2>4. RoundTypes'
    BY <1>4, <2>2 DEF RespondToAgent, TypeInv, RoundTypes
  <2>5. StreamTypes' /\ ChatTypes'
    BY DEF RespondToAgent, TypeInv, StreamTypes, ChatTypes, streamVars, clientVars
  <2>6. QED
    BY <2>2, <2>3, <2>4, <2>5 DEF TypeInv
<1>5. QED
  BY <1>1, <1>3, <1>4

LEMMA HearAgentTypes ==
  ASSUME TypeInv, NEW r \in Rounds, HearAgent(r)
  PROVE  TypeInv'
<1> USE Bounds
<1>1. /\ pc[r] = "waiting" /\ pc[r] \in Handled /\ pc[r] \in InTurn /\ child[r] \in Sub
      /\ turn[r] < MaxTurns /\ calls[r] \in CallRecords /\ Len(calls[r].outputs) < calls[r].made
      /\ UNCHANGED <<queue, request, turn, child, streams>>
  BY DEF HearAgent, Handled, Labels, InTurn, TypeInv, RoundTypes, Places, Counts, streamVars
<1>2. StreamTypes' /\ ChatTypes'
  BY DEF HearAgent, TypeInv, StreamTypes, ChatTypes, streamVars, clientVars
<1>3. CASE AfterCall(r, calls[r], "error")
  <2>1. /\ pc' \in [Rounds -> Labels] /\ Waiting' /\ Places' /\ Counts' /\ Piped'
        /\ calls' \in [Rounds -> CallRecords]
    BY <1>1, <1>3, AfterCallTypes
  <2>2. RoundTypes'
    BY <2>1 DEF HearAgent, TypeInv, RoundTypes
  <2>3. QED
    BY <1>2, <2>1, <2>2 DEF TypeInv
<1>4. ASSUME NEW l \in {"keeping", "panicked"}, Goto(r, l), UNCHANGED calls
      PROVE  TypeInv'
  <2>1. /\ pc' = [pc EXCEPT ![r] = l] /\ l \in Handled
        /\ l \notin Updating \cup {"new", "queued", "prompting"}
    BY <1>4 DEF Goto, Handled, Labels, Over, Updating
  <2>2. pc' \in [Rounds -> Labels] /\ Waiting' /\ Places'
    BY <1>1, <2>1, TaskMoves
  <2>3. Counts' /\ Piped'
    BY <1>1, <1>4, <2>1, CountsMove
  <2>4. RoundTypes'
    BY <1>4, <2>2 DEF HearAgent, TypeInv, RoundTypes
  <2>5. QED
    BY <1>2, <2>2, <2>3, <2>4 DEF TypeInv
<1>5. QED
  BY <1>3, <1>4 DEF HearAgent

LEMMA AgentChatTyped ==
  ASSUME TypeInv, NEW r \in Rounds, pc[r] = "keeping"
  PROVE  /\ child[r] \in Sub /\ AgentChat(r) \in ChatRecords
         /\ target[r] # NoTarget => target[r].agent \in Sub
         /\ child[r] \in AgentChat(r).rounds
         /\ target[r] # NoTarget => target[r].read.rounds \subseteq AgentChat(r).rounds
<1>1. child[r] \in Sub /\ child[r] \in Rounds
  BY Bounds DEF TypeInv, Places
<1>2. target[r] \in [agent : Sub, read : ChatRecords] \cup {NoTarget}
  BY DEF TypeInv, RoundTypes
<1> DEFINE before == IF target[r] = NoTarget THEN Started ELSE target[r].read
<1>3. Started \in ChatRecords
  BY DEF Started, Gone, ChatRecords
<1>4. before \in ChatRecords /\ (target[r] # NoTarget => before = target[r].read)
  BY <1>2, <1>3
<1>5. AgentChat(r) = [before EXCEPT !.rounds = before.rounds \cup {child[r]}]
  BY DEF AgentChat
<1> HIDE DEF before
<1>6. AgentChat(r) \in ChatRecords /\ AgentChat(r).rounds = before.rounds \cup {child[r]}
  BY <1>1, <1>4, <1>5 DEF ChatRecords
<1>7. QED
  BY <1>1, <1>2, <1>4, <1>6

LEMMA KeepAgentTypes ==
  ASSUME TypeInv, NEW r \in Rounds, KeepAgent(r)
  PROVE  TypeInv'
<1> USE Bounds
<1> DEFINE name == IF target[r] = NoTarget THEN child[r] ELSE target[r].agent
<1>1. /\ pc[r] = "keeping" /\ pc[r] \in Handled /\ pc[r] \in InTurn
      /\ calls[r] \in CallRecords /\ Len(calls[r].outputs) < calls[r].made
      /\ UNCHANGED <<queue, request, turn, child, streams>>
  BY DEF KeepAgent, Handled, Labels, InTurn, TypeInv, RoundTypes, Counts, streamVars
<1>2. name \in Sub /\ AgentChat(r) \in ChatRecords
  BY <1>1, AgentChatTyped
<1>3. chat' = [chat EXCEPT ![name] = AgentChat(r)]
      /\ (UNCHANGED agents \/ agents' = [agents EXCEPT ![r] = @ \cup {name}])
  BY DEF KeepAgent
<1> HIDE DEF name
<1>4. chat' \in [ChatIds -> ChatRecords] /\ agents' \in [Rounds -> SUBSET Sub]
  <2>1. chat \in [ChatIds -> ChatRecords] /\ agents \in [Rounds -> SUBSET Sub]
    BY DEF TypeInv, RoundTypes, ChatTypes
  <2>2. chat' \in [ChatIds -> ChatRecords]
    BY <1>2, <1>3, <2>1
  <2>3. agents[r] \cup {name} \in SUBSET Sub
    BY <1>2, <2>1
  <2>4. agents' \in [Rounds -> SUBSET Sub]
    BY <1>3, <2>1, <2>3
  <2>5. QED
    BY <2>2, <2>4
<1>5. StreamTypes' /\ ChatTypes'
  BY <1>4 DEF KeepAgent, TypeInv, StreamTypes, ChatTypes, streamVars, clientVars
<1>6. CASE \E res \in {"ok", "error"} : AfterCall(r, calls[r], res)
  <2>1. /\ pc' \in [Rounds -> Labels] /\ Waiting' /\ Places' /\ Counts' /\ Piped'
        /\ calls' \in [Rounds -> CallRecords]
    BY <1>1, <1>6, AfterCallTypes
  <2>2. RoundTypes'
    BY <1>4, <2>1 DEF KeepAgent, TypeInv, RoundTypes
  <2>3. QED
    BY <1>5, <2>1, <2>2 DEF TypeInv
<1>7. CASE Goto(r, "panicked") /\ UNCHANGED <<calls, agents>>
  <2>1. /\ pc' = [pc EXCEPT ![r] = "panicked"] /\ "panicked" \in Handled
        /\ "panicked" \notin Updating \cup InTurn \cup {"new", "queued", "prompting"}
    BY <1>7 DEF Goto, Handled, Labels, Over, Updating, InTurn
  <2>2. pc' \in [Rounds -> Labels] /\ Waiting' /\ Places'
    BY <1>1, <2>1, TaskMoves DEF InTurn
  <2>3. Counts' /\ Piped'
    BY <1>1, <1>7, <2>1, CountsMove DEF InTurn
  <2>4. RoundTypes'
    BY <1>4, <1>7, <2>2 DEF KeepAgent, TypeInv, RoundTypes
  <2>5. QED
    BY <1>5, <2>2, <2>3, <2>4 DEF TypeInv
<1>8. QED
  BY <1>6, <1>7 DEF KeepAgent

LEMMA InsertsTyped ==
  ASSUME TypeInv, NEW r \in Rounds, request[r] \in Prompts
  PROVE  /\ Inserts(r) \in Seq(Parts)
         /\ [i \in DOMAIN Inserts(r) |-> Token(Inserts(r)[i], 1)] \in Seq(Messages)
<1> USE Bounds
<1> DEFINE n == Cardinality(Tools(r) \ {"other"})
           part == Part("insert", turn[r], 1)
<1>1. turn[r] \in 0 .. MaxTurns
  BY DEF TypeInv, RoundTypes
<1>2. part \in Parts
  BY <1>1, SmallPartTyped
<1>3. Token(part, 1) \in Messages
  BY <1>1 DEF Token, Part, Messages
<1>4. Tools(r) \ {"other"} \subseteq {"agent", "files"}
  BY DEF Tools, Prompts, ToolNames
<1>5. IsFiniteSet({"agent", "files"})
  <2>1. IsFiniteSet({"agent"}) /\ {"agent", "files"} = {"agent"} \cup {"files"}
    BY FS_Singleton
  <2>2. IsFiniteSet({"agent"} \cup {"files"})
    BY <2>1, FS_AddElement
  <2>3. QED
    BY <2>1, <2>2
<1>6. n \in Nat
  BY <1>4, <1>5, FS_Subset, FS_CardinalityType
<1> HIDE DEF n, part
<1>7. Inserts(r) = [i \in 1 .. n |-> part]
  BY DEF Inserts, n, part
<1>8. Inserts(r) \in Seq(Parts) /\ DOMAIN Inserts(r) = 1 .. n
  BY <1>2, <1>6, <1>7
<1>9. [i \in DOMAIN Inserts(r) |-> Token(Inserts(r)[i], 1)] = [i \in 1 .. n |-> Token(part, 1)]
  BY <1>7, <1>8
<1>10. [i \in 1 .. n |-> Token(part, 1)] \in Seq(Messages)
  BY <1>3, <1>6
<1>11. QED
  BY <1>8, <1>9, <1>10

LEMMA OutputsTyped ==
  ASSUME TypeInv, NEW r \in Rounds
  PROVE  Outputs(r) \in Parts /\ Shown(Outputs(r)) \in Seq(Messages)
<1> USE Bounds
<1> DEFINE n == Len(calls[r].outputs) + 2
<1>1. turn[r] \in 0 .. MaxTurns /\ n \in 0 .. MaxCalls + 2
  <2>1. calls[r] \in CallRecords /\ Len(calls[r].outputs) <= calls[r].made
        /\ turn[r] \in 0 .. MaxTurns
    BY DEF TypeInv, RoundTypes, Counts
  <2>2. Len(calls[r].outputs) \in Nat /\ calls[r].made \in 0 .. MaxCalls
    BY <2>1 DEF CallRecords
  <2>3. QED
    BY <2>1, <2>2
<1> HIDE DEF n
<1>2. n \in 0 .. MaxTokens + MaxCalls + 2
  BY <1>1
<1>3. Outputs(r) = Part("outputs", turn[r], n)
  BY DEF Outputs, n
<1>4. Outputs(r) \in Parts
  BY <1>1, <1>2, <1>3, PartTyped
<1>5. \A i \in 1 .. n : Token(Outputs(r), i) \in Messages
  <2>1. \A i \in 1 .. n : i \in 0 .. MaxTokens + MaxCalls + 2
    BY <1>2
  <2>2. QED
    BY <1>1, <1>3, <2>1 DEF Token, Part, Messages
<1>6. Shown(Outputs(r)) = [i \in 1 .. n |-> Token(Outputs(r), i)]
  BY <1>3 DEF Shown, Part
<1>7. QED
  BY <1>2, <1>4, <1>5, <1>6

LEMMA EndTurnTypes ==
  ASSUME TypeInv, NEW r \in Rounds, EndTurn(r)
  PROVE  TypeInv'
<1> USE Bounds
<1>1. /\ pc[r] \in Handled /\ pc[r] \in InTurn /\ pc' = [pc EXCEPT ![r] = "prompting"]
      /\ "prompting" \in Handled /\ "prompting" \notin Updating \cup InTurn
      /\ turn' = [turn EXCEPT ![r] = turn[r] + 1] /\ turn \in [Rounds -> 0 .. MaxTurns]
      /\ turn[r] < MaxTurns
  BY DEF EndTurn, Goto, Handled, Labels, Updating, InTurn, TypeInv, RoundTypes, Counts
<1>2. request[r] \in Prompts
  BY <1>1 DEF TypeInv, RoundTypes, Places
<1>3. /\ Inserts(r) \in Seq(Parts) /\ Outputs(r) \in Parts /\ Shown(Outputs(r)) \in Seq(Messages)
      /\ [i \in DOMAIN Inserts(r) |-> Token(Inserts(r)[i], 1)] \in Seq(Messages)
  BY <1>2, InsertsTyped, OutputsTyped
<1>4. context' \in [Rounds -> Seq(Parts)]
  <2>1. context \in [Rounds -> Seq(Parts)] /\ response[r] \in Parts
    BY DEF TypeInv, RoundTypes
  <2>2. Append(context[r], response[r]) \o <<Outputs(r)>> \o Inserts(r) \in Seq(Parts)
    BY <1>3, <2>1
  <2>3. QED
    BY <2>1, <2>2 DEF EndTurn
<1>5. sent' \in [Rounds -> Seq(Messages)]
  <2> DEFINE shown == [i \in DOMAIN Inserts(r) |-> Token(Inserts(r)[i], 1)]
             message == IF Streaming(r) THEN Shown(Outputs(r)) \o shown ELSE <<>>
  <2>1. Send(r, message)
    BY DEF EndTurn
  <2> HIDE DEF shown
  <2>2. message \in Seq(Messages)
    BY <1>3 DEF shown
  <2>3. QED
    BY <2>1, <2>2, SendTyped
<1>6. turn' \in [Rounds -> 0 .. MaxTurns]
  <2>1. turn[r] + 1 \in 0 .. MaxTurns
    BY <1>1
  <2>2. QED
    BY <1>1, <2>1
<1>7. pc' \in [Rounds -> Labels] /\ pc'[r] = "prompting" /\ Waiting' /\ Places'
  BY <1>1, TaskMoves DEF EndTurn, InTurn
<1>8. RoundTypes'
  BY <1>4, <1>6, <1>7 DEF EndTurn, TypeInv, RoundTypes
<1>9. StreamTypes' /\ ChatTypes'
  BY <1>5 DEF EndTurn, TypeInv, StreamTypes, ChatTypes, streamVars, clientVars
<1>10. Counts' /\ Piped'
  <2>1. /\ turn'[r] = turn[r] + 1 /\ turn[r] \in Nat
        /\ \A s \in Rounds : s # r => turn'[s] = turn[s] /\ pc'[s] = pc[s]
    BY <1>1 DEF TypeInv, RoundTypes
  <2>2. Len(streams[r]) <= turn'[r] /\ Len(streams[r]) <= turn'[r] + 1
    <3>1. streams[r] \in Seq(Streams) /\ Len(streams[r]) <= turn[r] + 1
      BY DEF TypeInv, StreamTypes, Counts
    <3>2. Len(streams[r]) \in Nat
      BY <3>1
    <3>3. QED
      BY <2>1, <3>1, <3>2
  <2>3. Counts'
    BY <1>1, <1>7, <2>1, <2>2 DEF EndTurn, TypeInv, Counts, streamVars, InTurn
  <2>4. QED
    BY <2>3 DEF EndTurn, TypeInv, Piped, streamVars
<1>11. QED
  BY <1>7, <1>8, <1>9, <1>10 DEF TypeInv

\* The steps of update_chat differ in where they go and in what they change of
\* the chats and jobs.
LEMMA UpdateMoves ==
  ASSUME TypeInv, NEW r \in Rounds, NEW l \in (Updating \cup {"answering"}), pc[r] \in Updating,
         Goto(r, l), UNCHANGED <<queue, request, turn, context, response, form, calls, agents,
                                 child, target, streamVars, sent>>
  PROVE  RoundTypes' /\ StreamTypes' /\ Waiting' /\ Places' /\ Counts' /\ Piped'
<1>1. /\ pc' = [pc EXCEPT ![r] = l] /\ l \in Handled /\ pc[r] \in Handled
      /\ l \notin InTurn \cup {"new", "queued", "prompting"}
  BY DEF Goto, Updating, Handled, Labels, InTurn
<1>2. request[r].chat \in Chats
  BY DEF TypeInv, Places
<1>3. pc' \in [Rounds -> Labels] /\ Waiting' /\ Places'
  BY <1>1, <1>2, TaskMoves DEF InTurn
<1>4. Counts' /\ Piped'
  BY <1>1, CountsMove DEF InTurn, streamVars
<1>5. RoundTypes' /\ StreamTypes'
  BY <1>3 DEF TypeInv, RoundTypes, StreamTypes, streamVars
<1>6. QED
  BY <1>3, <1>4, <1>5

LEMMA ChatWritten ==
  ASSUME TypeInv, NEW c \in ChatIds, NEW new \in ChatRecords, chat' = [chat EXCEPT ![c] = new]
  PROVE  chat' \in [ChatIds -> ChatRecords]
  BY DEF TypeInv, ChatTypes

LEMMA WriteChatTypes ==
  ASSUME TypeInv, NEW r \in Rounds, WriteChat(r)
  PROVE  TypeInv'
<1> USE Bounds
<1> DEFINE c == request[r].chat
           new == [chat[c] EXCEPT !.rounds = request[r].base \cup {r}]
<1>1. pc[r] \in Updating /\ "notifying" \in Updating
  BY DEF WriteChat, Updating
<1>2. RoundTypes' /\ StreamTypes' /\ Waiting' /\ Places' /\ Counts' /\ Piped'
  BY <1>1, UpdateMoves DEF WriteChat
<1>3. c \in Chats /\ request[r] \in Prompts
  BY <1>1 DEF TypeInv, RoundTypes, Places, Updating, Handled, Labels
<1>4. chat[c] \in ChatRecords
  BY <1>3 DEF TypeInv, ChatTypes
<1>5. request[r].base \cup {r} \in SUBSET Rounds
  BY <1>3 DEF Prompts
<1>6. new \in ChatRecords
  BY <1>4, <1>5 DEF ChatRecords
<1>7. chat' = chat \/ chat' = [chat EXCEPT ![c] = new]
  BY DEF WriteChat
<1> HIDE DEF c, new
<1>8. chat' \in [ChatIds -> ChatRecords]
  BY <1>3, <1>6, <1>7, ChatWritten DEF TypeInv, ChatTypes
<1>9. ChatTypes'
  BY <1>8 DEF WriteChat, TypeInv, ChatTypes, clientVars
<1>10. QED
  BY <1>2, <1>9 DEF TypeInv

LEMMA NotifyTypes ==
  ASSUME TypeInv, NEW r \in Rounds, Notify(r)
  PROVE  TypeInv'
<1>1. pc[r] \in Updating /\ "checking" \in Updating
  BY DEF Notify, Updating
<1>2. RoundTypes' /\ StreamTypes' /\ Waiting' /\ Places' /\ Counts' /\ Piped'
  BY <1>1, UpdateMoves DEF Notify
<1>3. ChatTypes'
  BY DEF Notify, TypeInv, ChatTypes, clientVars
<1>4. QED
  BY <1>2, <1>3 DEF TypeInv

LEMMA MissingValues ==
  ASSUME NEW c \in ChatRecords
  PROVE  /\ Missing(c) \in {"titling and tagging", "titling", "tagging", "answering"}
         /\ Missing(c) \in {"tagging", "answering"} => ~c.there \/ c.titled
<1>1. c.there \in BOOLEAN /\ c.titled \in BOOLEAN /\ c.tagged \in BOOLEAN
  BY DEF ChatRecords
<1>2. QED
  BY <1>1 DEF Missing

LEMMA CheckChatTypes ==
  ASSUME TypeInv, NEW r \in Rounds, CheckChat(r)
  PROVE  TypeInv'
<1> DEFINE l == Missing(chat[request[r].chat])
<1>1. pc[r] \in Updating /\ Goto(r, l)
  BY DEF CheckChat, Updating
<1>2. chat[request[r].chat] \in ChatRecords
  BY <1>1, Bounds DEF TypeInv, Places, ChatTypes
<1>3. l \in (Updating \cup {"answering"})
  BY <1>2, MissingValues DEF Updating
<1> HIDE DEF l
<1>4. RoundTypes' /\ StreamTypes' /\ Waiting' /\ Places' /\ Counts' /\ Piped'
  BY <1>1, <1>3, UpdateMoves DEF CheckChat
<1>5. ChatTypes'
  BY DEF CheckChat, TypeInv, ChatTypes, clientVars
<1>6. QED
  BY <1>4, <1>5 DEF TypeInv

LEMMA PlanJobTypes ==
  ASSUME TypeInv, NEW r \in Rounds, PlanJob(r)
  PROVE  TypeInv'
<1>1. PICK l \in {"tagging", "answering"} : Goto(r, l)
  BY DEF PlanJob
<1>2. pc[r] \in Updating /\ l \in (Updating \cup {"answering"})
  BY DEF PlanJob, Updating
<1>3. RoundTypes' /\ StreamTypes' /\ Waiting' /\ Places' /\ Counts' /\ Piped'
  BY <1>1, <1>2, UpdateMoves DEF PlanJob
<1>4. request[r].chat \in Chats
  BY <1>2 DEF TypeInv, Places
<1>5. jobs' \subseteq JobRecords
  <2>1. PICK kind \in {"tag", "title"} :
          jobs' = jobs \cup {[kind |-> kind, chat |-> request[r].chat, round |-> r]}
    BY DEF PlanJob
  <2>2. [kind |-> kind, chat |-> request[r].chat, round |-> r] \in JobRecords
    BY <1>4 DEF JobRecords
  <2>3. QED
    BY <2>1, <2>2 DEF TypeInv, ChatTypes
<1>6. ChatTypes'
  BY <1>5 DEF PlanJob, TypeInv, ChatTypes, clientVars
<1>7. QED
  BY <1>3, <1>6 DEF TypeInv

LEMMA RoundStepTypes ==
  ASSUME TypeInv, NEW r \in Rounds, RoundStep(r)
  PROVE  TypeInv'
  BY PromptTypes, GetResponseTypes, ReadTypes, DecideTypes, CallToolTypes, RunAgentTypes,
     RespondToAgentTypes, HearAgentTypes, KeepAgentTypes, EndTurnTypes, WriteChatTypes,
     NotifyTypes, CheckChatTypes, PlanJobTypes, FinishTypes
     DEF RoundStep

\* Jobs and clients change chats, jobs and copies only.
LEMMA ChatsChange ==
  ASSUME TypeInv, UNCHANGED <<queue, roundVars, streamVars, sent>>, ChatTypes'
  PROVE  TypeInv'
<1>1. UNCHANGED <<result, streams, totals, sent>>
  BY DEF streamVars
<1>2. StreamTypes'
  BY <1>1 DEF TypeInv, StreamTypes
<1>3. QED
  BY <1>1, <1>2, RoundsStay, CountsStay DEF TypeInv

LEMMA ReadForJobTypes ==
  ASSUME TypeInv, NEW j \in jobs, ReadForJob(j)
  PROVE  TypeInv'
<1>1. ChatTypes'
  BY DEF ReadForJob, TypeInv, ChatTypes, clientVars
<1>2. QED
  BY <1>1, ChatsChange DEF ReadForJob

LEMMA WriteForJobTypes ==
  ASSUME TypeInv, WriteForJob
  PROVE  TypeInv'
<1> DEFINE c == job.run.chat
<1>1. job \in [run : JobRecords, state : {"asking", "written"}]
  BY DEF WriteForJob, TypeInv, ChatTypes
<1>2. /\ c \in ChatIds
      /\ [job EXCEPT !.state = "written"] \in [run : JobRecords, state : {"asking", "written"}]
  BY <1>1, Bounds DEF JobRecords
<1>3. chat[c] \in ChatRecords
  BY <1>2 DEF TypeInv, ChatTypes
<1>4. \A b \in BOOLEAN : [chat[c] EXCEPT !.tagged = b] \in ChatRecords
  BY <1>3 DEF ChatRecords
<1>5. [chat[c] EXCEPT !.titled = TRUE] \in ChatRecords
  BY <1>3 DEF ChatRecords
<1>6. PICK new \in ChatRecords : chat' = [chat EXCEPT ![c] = new] \/ UNCHANGED chat
  BY <1>3, <1>4, <1>5 DEF WriteForJob
<1>7. job' \in {[job EXCEPT !.state = "written"], NoJob}
  BY DEF WriteForJob
<1> HIDE DEF c
<1>8. chat' \in [ChatIds -> ChatRecords]
  BY <1>2, <1>6, ChatWritten DEF TypeInv, ChatTypes
<1>9. ChatTypes'
  BY <1>2, <1>7, <1>8 DEF WriteForJob, TypeInv, ChatTypes, clientVars
<1>10. QED
  BY <1>9, ChatsChange DEF WriteForJob

LEMMA RemoveJobTypes ==
  ASSUME TypeInv, RemoveJob
  PROVE  TypeInv'
<1>1. ChatTypes'
  BY DEF RemoveJob, TypeInv, ChatTypes, clientVars
<1>2. QED
  BY <1>1, ChatsChange DEF RemoveJob

LEMMA GetCopyTypes ==
  ASSUME TypeInv, NEW c \in Chats, GetCopy(c)
  PROVE  TypeInv'
<1>1. chat[c] \in ChatRecords
  BY Bounds DEF TypeInv, ChatTypes
<1>2. ChatTypes'
  BY <1>1 DEF GetCopy, TypeInv, ChatTypes
<1>3. QED
  BY <1>2, ChatsChange DEF GetCopy

LEMMA SaveCopyTypes ==
  ASSUME TypeInv, NEW c \in Chats, SaveCopy(c)
  PROVE  TypeInv'
<1>1. copy[c] \in ChatRecords /\ c \in ChatIds
  BY Bounds DEF TypeInv, ChatTypes
<1>2. PICK titled \in {copy[c].titled, TRUE} :
        /\ chat' = [chat EXCEPT ![c] = [copy[c] EXCEPT !.titled = titled]]
        /\ copy' = [copy EXCEPT ![c] = [copy[c] EXCEPT !.titled = titled]]
  BY DEF SaveCopy
<1>3. titled \in BOOLEAN
  BY <1>1 DEF ChatRecords
<1>4. [copy[c] EXCEPT !.titled = titled] \in ChatRecords
  BY <1>1, <1>3 DEF ChatRecords
<1>5. chat' \in [ChatIds -> ChatRecords] /\ copy' \in [Chats -> ChatRecords]
  BY <1>1, <1>2, <1>4, ChatWritten DEF TypeInv, ChatTypes
<1>6. edits' \in 0 .. MaxEdits /\ cleared' \subseteq Chats
  BY Bounds DEF SaveCopy, TypeInv, ChatTypes
<1>7. ChatTypes'
  BY <1>5, <1>6 DEF SaveCopy, TypeInv, ChatTypes
<1>8. QED
  BY <1>7, ChatsChange DEF SaveCopy

LEMMA RemoveChatTypes ==
  ASSUME TypeInv, NEW c \in ChatIds, RemoveChat(c)
  PROVE  TypeInv'
<1>1. Gone \in ChatRecords
  BY DEF Gone, ChatRecords
<1>2. edits' \in 0 .. MaxEdits
  BY Bounds DEF RemoveChat, TypeInv, ChatTypes
<1>3. ChatTypes'
  BY <1>1, <1>2 DEF RemoveChat, TypeInv, ChatTypes
<1>4. QED
  BY <1>3, ChatsChange DEF RemoveChat

LEMMA StutterTypes ==
  ASSUME TypeInv, UNCHANGED vars
  PROVE  TypeInv'
<1>1. UNCHANGED <<chat, jobs, job, notices, copy, cleared, edits>>
  BY DEF vars, clientVars
<1>2. ChatTypes'
  BY <1>1 DEF TypeInv, ChatTypes
<1>3. QED
  BY <1>2, ChatsChange DEF vars

LEMMA TypeInduction == TypeInv /\ [Next]_vars => TypeInv'
  BY SubmitTypes, TakeTypes, RoundStepTypes, ReachTypes, ProduceTypes, RelayTypes,
     ReadForJobTypes, WriteForJobTypes, RemoveJobTypes, GetCopyTypes, SaveCopyTypes,
     RemoveChatTypes, StutterTypes
     DEF Next, EndpointStep, StreamStep

LEMMA AlwaysTyped == Spec => []TypeInv
  BY InitTypes, TypeInduction, PTL DEF Spec

\* The state of the endpoint, of its rounds and of the chats has the type that
\* the code gives it, however many turns, calls and tokens there are: a round
\* never makes more turns or streams than its limit.
THEOREM TypeCorrect == Spec => []TypeOK
<1>1. TypeInv => TypeOK
  BY TypesApart DEF TypeInv
<1>2. QED
  BY <1>1, AlwaysTyped, PTL

-----------------------------------------------------------------------------
(* Answers.  A round that does not stream has no stream, so that only its    *)
(* task sends, and the task sends in its last step.                          *)

Once(r) ==
  request[r] # Continue /\ ~Streaming(r) =>
    /\ streams[r] = <<>>
    /\ Len(sent[r]) = IF pc[r] \in {"done", "failed"} THEN 1 ELSE 0

Fresh(r) == pc[r] \in {"new", "queued"} => sent[r] = <<>> /\ streams[r] = <<>>

AnswerInv == \A r \in Rounds : Once(r) /\ Fresh(r)

LEMMA OthersAnswer ==
  ASSUME AnswerInv, NEW r \in Rounds, Once(r)', Fresh(r)',
         \A s \in Rounds : s # r => UNCHANGED <<request[s], streams[s], sent[s], pc[s]>>
  PROVE  AnswerInv'
  BY DEF AnswerInv, Once, Fresh, Streaming

\* A step of the task itself that does not send.
LEMMA SilentStep ==
  ASSUME TypeInv, AnswerInv, NEW r \in Rounds, NEW l \in Handled \ {"done", "failed"},
         pc[r] \in Handled \ {"done", "failed"}, pc' = [pc EXCEPT ![r] = l],
         UNCHANGED <<request, streams, sent>>
  PROVE  AnswerInv'
<1>1. pc'[r] = l /\ l \notin {"new", "queued"} /\ \A s \in Rounds : s # r => pc'[s] = pc[s]
  BY DEF TypeInv, RoundTypes, Handled
<1>2. Once(r)' /\ Fresh(r)'
  BY <1>1 DEF AnswerInv, Once, Fresh, Streaming
<1>3. QED
  BY <1>1, <1>2, OthersAnswer

LEMMA SentOnce ==
  ASSUME TypeInv, NEW r \in Rounds, NEW m \in Messages, Send(r, <<m>>), sent[r] = <<>>
  PROVE  Len(sent'[r]) = 1 /\ \A s \in Rounds : s # r => sent'[s] = sent[s]
<1>1. sent \in [Rounds -> Seq(Messages)]
  BY DEF TypeInv, StreamTypes
<1>2. sent'[r] = <<>> \o <<m>> /\ \A s \in Rounds : s # r => sent'[s] = sent[s]
  BY <1>1 DEF Send
<1>3. Len(<<>> \o <<m>>) = 1
  OBVIOUS
<1>4. QED
  BY <1>2, <1>3

LEMMA FailAnswers ==
  ASSUME TypeInv, AnswerInv, NEW r \in Rounds, Fail(r), UNCHANGED <<request, streams>>,
         pc[r] \in Handled \ {"done", "failed"}
  PROVE  AnswerInv'
<1>1. pc' = [pc EXCEPT ![r] = "failed"] /\ Send(r, <<Answer("error")>>)
  BY DEF Fail, Goto
<1>2. pc'[r] = "failed" /\ \A s \in Rounds : s # r => pc'[s] = pc[s]
  BY <1>1 DEF TypeInv, RoundTypes
<1>3. Answer("error") \in Messages /\ sent \in [Rounds -> Seq(Messages)]
  BY AnswerTyped DEF TypeInv, StreamTypes
<1>4. \A s \in Rounds : s # r => sent'[s] = sent[s]
  BY <1>1, <1>3 DEF Send
<1>5. Once(r)'
  <2>1. ASSUME request[r] # Continue, ~Streaming(r)
        PROVE  streams[r] = <<>> /\ Len(sent'[r]) = 1
    <3>1. streams[r] = <<>> /\ Len(sent[r]) = 0
      BY <2>1 DEF AnswerInv, Once
    <3>2. sent[r] = <<>>
      BY <1>3, <3>1
    <3>3. QED
      BY <1>1, <1>3, <3>1, <3>2, SentOnce
  <2>2. QED
    BY <1>2, <2>1 DEF Once, Streaming
<1>6. Fresh(r)'
  BY <1>2 DEF Fresh
<1>7. QED
  BY <1>2, <1>4, <1>5, <1>6, OthersAnswer

LEMMA FinishAnswers ==
  ASSUME TypeInv, AnswerInv, NEW r \in Rounds, Finish(r)
  PROVE  AnswerInv'
<1>1. pc[r] = "answering" /\ pc' = [pc EXCEPT ![r] = "done"] /\ UNCHANGED <<request, streams>>
  BY DEF Finish, Goto, streamVars
<1>2. pc'[r] = "done" /\ \A s \in Rounds : s # r => pc'[s] = pc[s]
  BY <1>1 DEF TypeInv, RoundTypes
<1>3. sent \in [Rounds -> Seq(Messages)]
  BY DEF TypeInv, StreamTypes
<1>4. \A s \in Rounds : s # r => sent'[s] = sent[s]
  BY <1>3 DEF Finish, Send
<1>5. Once(r)'
  <2>1. ASSUME request[r] # Continue, ~Streaming(r)
        PROVE  streams[r] = <<>> /\ Len(sent'[r]) = 1
    <3>1. streams[r] = <<>> /\ Len(sent[r]) = 0
      BY <1>1, <2>1 DEF AnswerInv, Once
    <3>2. sent[r] = <<>>
      BY <1>3, <3>1
    <3>3. PICK kind \in {"block", "multiturn"} : Send(r, <<Answer(kind)>>)
      BY <2>1 DEF Finish
    <3>4. QED
      BY <3>1, <3>2, <3>3, AnswerTyped, SentOnce
  <2>2. QED
    BY <1>1, <1>2, <2>1 DEF Once, Streaming
<1>6. Fresh(r)'
  BY <1>2 DEF Fresh
<1>7. QED
  BY <1>1, <1>2, <1>4, <1>5, <1>6, OthersAnswer

\* Steps of a streaming round's streams.
LEMMA StreamStepAnswers ==
  ASSUME TypeInv, AnswerInv, NEW r \in Rounds, UNCHANGED <<request, pc>>,
         Streaming(r) \/ streams[r] # <<>>,
         pc[r] \notin {"new", "queued"},
         \A s \in Rounds : s # r => UNCHANGED <<streams[s], sent[s]>>
  PROVE  AnswerInv'
<1>1. request[r] = Continue \/ Streaming(r)
  BY DEF AnswerInv, Once
<1>2. Once(r)' /\ Fresh(r)'
  BY <1>1 DEF Once, Fresh, Streaming
<1>3. QED
  BY <1>2, OthersAnswer

LEMMA StartAgentAnswers ==
  ASSUME TypeInv, AnswerInv, NEW r \in Rounds, NEW s \in Sub, NEW tools,
         MayCall(r), StartAgent(r, s, tools), UNCHANGED <<streams, sent>>
  PROVE  AnswerInv'
<1>1. /\ pc \in [Rounds -> Labels] /\ s \in Rounds
      /\ request \in [Rounds -> Prompts \cup {Continue}]
  BY Bounds DEF TypeInv, RoundTypes
<1>2. /\ pc[r] = "calling" /\ pc[s] = "new" /\ r # s
      /\ pc' = [pc EXCEPT ![r] = "waiting", ![s] = "queued"]
      /\ request' = [request EXCEPT ![s] = [NoPrompt EXCEPT !.tools = tools]]
  BY DEF MayCall, StartAgent
<1>3. /\ pc'[r] = "waiting" /\ pc'[s] = "queued" /\ request'[r] = request[r]
      /\ \A q \in Rounds : q # r /\ q # s => pc'[q] = pc[q] /\ request'[q] = request[q]
  BY <1>1, <1>2
<1>4. sent[s] = <<>> /\ streams[s] = <<>>
  BY <1>1, <1>2 DEF AnswerInv, Fresh
<1>5. Once(s)' /\ Fresh(s)'
  BY <1>3, <1>4 DEF Once, Fresh
<1>6. Once(r)' /\ Fresh(r)'
  BY <1>2, <1>3 DEF AnswerInv, Once, Fresh, Streaming
<1>7. \A q \in Rounds : q # r /\ q # s => Once(q)' /\ Fresh(q)'
  BY <1>3 DEF AnswerInv, Once, Fresh, Streaming
<1>8. QED
  BY <1>5, <1>6, <1>7 DEF AnswerInv

LEMMA AnswerInduction ==
  ASSUME TypeInv, AnswerInv, [Next]_vars
  PROVE  AnswerInv'
<1> USE Bounds
<1>1. /\ pc \in [Rounds -> Labels] /\ request \in [Rounds -> Prompts \cup {Continue}]
      /\ streams \in [Rounds -> Seq(Streams)] /\ sent \in [Rounds -> Seq(Messages)]
  BY DEF TypeInv, RoundTypes, StreamTypes
<1>2. ASSUME UNCHANGED <<request, pc, streams, sent>> PROVE AnswerInv'
  BY <1>2 DEF AnswerInv, Once, Fresh, Streaming
<1>3. ASSUME NEW r \in Web, Submit(r) PROVE AnswerInv'
  <2>1. /\ pc[r] = "new" /\ pc' = [pc EXCEPT ![r] = "queued"] /\ r \in Rounds
        /\ request' = [request EXCEPT ![r] = Based(request[r])] /\ UNCHANGED <<streams, sent>>
    BY <1>3 DEF Submit, Goto, streamVars
  <2>2. sent[r] = <<>> /\ streams[r] = <<>> /\ pc'[r] = "queued"
        /\ \A s \in Rounds : s # r => pc'[s] = pc[s] /\ request'[s] = request[s]
    BY <1>1, <2>1 DEF AnswerInv, Fresh
  <2>3. Once(r)' /\ Fresh(r)'
    BY <2>1, <2>2 DEF Once, Fresh
  <2>4. QED
    BY <2>1, <2>2, <2>3, OthersAnswer
<1>4. ASSUME Take PROVE AnswerInv'
  <2>1. PICK r \in Rounds : r = Head(queue) /\ pc[r] = "queued"
    BY <1>4, TailRange DEF Take, TypeInv, RoundTypes, Waiting
  <2>2. pc' = [pc EXCEPT ![r] = IF request[r] = Continue THEN "dropped" ELSE "prompting"]
        /\ UNCHANGED <<request, streams, sent>>
    BY <1>4, <2>1 DEF Take, Goto, streamVars
  <2>3. pc'[r] \in {"dropped", "prompting"} /\ \A s \in Rounds : s # r => pc'[s] = pc[s]
    BY <1>1, <2>1, <2>2
  <2>4. sent'[r] = <<>> /\ streams'[r] = <<>>
    BY <2>1, <2>2 DEF AnswerInv, Fresh
  <2>5. Once(r)' /\ Fresh(r)'
    BY <2>3, <2>4 DEF Once, Fresh
  <2>6. \A s \in Rounds : s # r => UNCHANGED <<request[s], streams[s], sent[s], pc[s]>>
    BY <2>2, <2>3
  <2>7. QED
    BY <2>1, <2>5, <2>6, OthersAnswer
<1>5. ASSUME NEW r \in Rounds, Prompt(r) PROVE AnswerInv'
  <2>1. pc[r] = "prompting" /\ pc[r] \in Handled \ {"done", "failed"} /\ UNCHANGED request
    BY <1>5 DEF Prompt, Handled, Labels
  <2>2. CASE Fail(r) /\ UNCHANGED streams
    BY <2>1, <2>2, FailAnswers
  <2>3. CASE Goto(r, "asking") /\ UNCHANGED <<streams, sent>>
    BY <2>1, <2>3, SilentStep DEF Goto, Handled, Labels, Over
  <2>4. CASE /\ Streaming(r) /\ Goto(r, "asking") /\ UNCHANGED sent
             /\ \E stream : streams' = [streams EXCEPT ![r] = Append(@, stream)]
    <3>1. pc'[r] = "asking" /\ \A s \in Rounds : s # r => pc'[s] = pc[s] /\ streams'[s] = streams[s]
      BY <1>1, <2>4 DEF Goto
    <3>2. Once(r)' /\ Fresh(r)'
      BY <2>1, <2>4, <3>1 DEF Once, Fresh, Streaming
    <3>3. QED
      BY <2>1, <2>4, <3>1, <3>2, OthersAnswer
  <2>5. QED
    BY <1>5, <2>2, <2>3, <2>4 DEF Prompt
<1>6. ASSUME NEW r \in Rounds, GetResponse(r) PROVE AnswerInv'
  <2>1. pc[r] \in Handled \ {"done", "failed"} /\ UNCHANGED <<request, streams>>
    BY <1>6 DEF GetResponse, Handled, Labels, Over
  <2>2. CASE Fail(r)
    BY <2>1, <2>2, FailAnswers
  <2>3. CASE (\E l \in {"reading", "deciding"} : Goto(r, l)) /\ UNCHANGED sent
    BY <2>1, <2>3, SilentStep DEF Goto, Handled, Labels, Over
  <2>4. QED
    BY <1>6, <2>2, <2>3 DEF GetResponse
<1>7. ASSUME NEW r \in Rounds, RunAgent(r) PROVE AnswerInv'
  BY <1>7, StartAgentAnswers DEF RunAgent, streamVars
<1>8. ASSUME NEW r \in Rounds, RespondToAgent(r) PROVE AnswerInv'
  <2>1. CASE \E a \in agents[r], s \in Sub : StartAgent(r, s, Tools(a))
    BY <1>8, <2>1, StartAgentAnswers DEF RespondToAgent, streamVars
  <2>2. CASE Goto(r, "panicked") /\ UNCHANGED request
    BY <1>8, <2>2, SilentStep DEF RespondToAgent, MayCall, Goto, Handled, Labels, Over, streamVars
  <2>3. QED
    BY <1>8, <2>1, <2>2 DEF RespondToAgent
<1>9. ASSUME NEW r \in Rounds, EndTurn(r) PROVE AnswerInv'
  <2>1. /\ pc[r] \in Handled \ {"done", "failed"} /\ UNCHANGED <<request, streams>>
        /\ pc' = [pc EXCEPT ![r] = "prompting"]
        /\ "prompting" \in Handled \ {"done", "failed"}
    BY <1>9 DEF EndTurn, Goto, Handled, Labels, Over, streamVars
  <2>2. PICK m : Send(r, m) /\ (~Streaming(r) => m = <<>>)
    BY <1>9 DEF EndTurn
  <2>3. /\ \A s \in Rounds : s # r => sent'[s] = sent[s]
        /\ ~Streaming(r) => sent'[r] = sent[r]
    <3>1. sent' = [sent EXCEPT ![r] = sent[r] \o m] /\ sent[r] \in Seq(Messages)
      BY <1>1, <2>2 DEF Send
    <3>2. sent[r] \o <<>> = sent[r]
      BY <3>1
    <3>3. QED
      BY <1>1, <2>2, <3>1, <3>2
  <2>4. pc'[r] = "prompting" /\ \A s \in Rounds : s # r => pc'[s] = pc[s]
    BY <1>1, <2>1
  <2>5. Once(r)' /\ Fresh(r)'
    BY <2>1, <2>3, <2>4 DEF AnswerInv, Once, Fresh, Streaming
  <2>6. QED
    BY <2>1, <2>3, <2>4, <2>5, OthersAnswer
<1>10. ASSUME NEW r \in Rounds,
              \/ Read(r) \/ Decide(r) \/ CallTool(r) \/ HearAgent(r) \/ KeepAgent(r)
              \/ WriteChat(r) \/ Notify(r) \/ CheckChat(r) \/ PlanJob(r)
       PROVE  AnswerInv'
  <2>1. UNCHANGED <<request, streams, sent>> /\ pc[r] \in Handled \ {"done", "failed"}
    BY <1>10 DEF Read, Decide, CallTool, HearAgent, KeepAgent, WriteChat, Notify, CheckChat,
                 PlanJob, MayCall, streamVars, Handled, Labels, Over
  <2>2. CASE CheckChat(r)
    <3>1. chat[request[r].chat] \in ChatRecords
      BY <2>2 DEF CheckChat, TypeInv, Places, ChatTypes, Updating
    <3>2. Missing(chat[request[r].chat]) \in Handled \ {"done", "failed"}
      BY <3>1, MissingValues DEF Handled, Labels, Over
    <3>3. QED
      BY <2>1, <2>2, <3>2, SilentStep DEF CheckChat, Goto
  <2>3. CASE ~CheckChat(r)
    <3>1. \E l \in Handled \ {"done", "failed"} : pc' = [pc EXCEPT ![r] = l]
      BY <1>10, <2>3 DEF Read, Decide, CallTool, HearAgent, KeepAgent, WriteChat, Notify,
                         PlanJob, AfterCall, Goto, Handled, Labels, Over
    <3>2. QED
      BY <2>1, <3>1, SilentStep
  <2>4. QED
    BY <2>2, <2>3
<1>11. ASSUME NEW r \in Rounds, Reach(r) PROVE AnswerInv'
  <2>1. pc[r] = "asking" /\ UNCHANGED <<request, pc, sent>>
    BY <1>11 DEF Reach, roundVars
  <2>2. CASE Streaming(r)
    <3>1. \A s \in Rounds : s # r => streams'[s] = streams[s]
      BY <1>1, <1>11, <2>2 DEF Reach
    <3>2. QED
      BY <2>1, <2>2, <3>1, StreamStepAnswers
  <2>3. CASE ~Streaming(r)
    BY <1>2, <1>11, <2>1, <2>3 DEF Reach
  <2>4. QED
    BY <2>2, <2>3
<1>12. ASSUME NEW r \in Rounds, NEW i \in DOMAIN streams[r], Produce(r, i) \/ Relay(r, i)
       PROVE  AnswerInv'
  <2>1. streams[r] # <<>> /\ UNCHANGED <<request, pc>>
    BY <1>12 DEF Produce, Relay, roundVars
  <2>2. pc[r] \notin {"new", "queued"}
    BY <2>1 DEF AnswerInv, Fresh
  <2>3. \A s \in Rounds : s # r => streams'[s] = streams[s]
    BY <1>1, <1>12 DEF Produce, Relay
  <2>4. \A s \in Rounds : s # r => sent'[s] = sent[s]
    BY <1>1, <1>12 DEF Produce, Relay, Send
  <2>5. QED
    BY <2>1, <2>2, <2>3, <2>4, StreamStepAnswers
<1>13. ASSUME UNCHANGED <<roundVars, streamVars, sent>> PROVE AnswerInv'
  BY <1>2, <1>13 DEF roundVars, streamVars
<1>14. QED
  BY <1>3, <1>4, <1>5, <1>6, <1>7, <1>8, <1>9, <1>10, <1>11, <1>12, <1>13, FinishAnswers
     DEF Next, EndpointStep, RoundStep, StreamStep, ReadForJob, WriteForJob, RemoveJob,
         GetCopy, SaveCopy, RemoveChat, vars

\* A requester that waits for one message, an agent's caller among them, gets
\* one when the round is over and none before, whatever failed in any turn.
THEOREM RoundsAnswerOnce == Spec => []AnsweredOnce
<1>1. Init => AnswerInv
  BY DEF Init, AnswerInv, Once, Fresh, Streaming
<1>2. TypeInv /\ AnswerInv /\ [Next]_vars => AnswerInv'
  BY AnswerInduction
<1>3. AnswerInv => AnsweredOnce
  BY DEF AnswerInv, Once, AnsweredOnce
<1>4. QED
  BY <1>1, <1>2, <1>3, AlwaysTyped, PTL DEF Spec

-----------------------------------------------------------------------------
(* The chats of agents.  What agent_tool writes back was read before its     *)
(* round, and held the agent's first answer even then.                       *)

AgentInv ==
  /\ \A a \in Sub : chat[a].there => a \in chat[a].rounds
  /\ \A r \in Rounds :
       pc[r] \in {"waiting", "keeping"} /\ target[r] # NoTarget
         => target[r].agent \in target[r].read.rounds

LEMMA AgentsStay ==
  ASSUME AgentInv, UNCHANGED target,
         \A r \in Rounds : pc'[r] \in {"waiting", "keeping"} => pc[r] \in {"waiting", "keeping"},
         \A a \in Sub : chat'[a] \in {chat[a], Gone}
  PROVE  AgentInv'
<1>1. ~Gone.there
  BY DEF Gone
<1>2. QED
  BY <1>1 DEF AgentInv

LEMMA AgentInduction ==
  ASSUME TypeInv, AgentInv, [Next]_vars
  PROVE  AgentInv'
<1> USE Bounds
<1>1. /\ pc \in [Rounds -> Labels] /\ chat \in [ChatIds -> ChatRecords]
      /\ target \in [Rounds -> [agent : Sub, read : ChatRecords] \cup {NoTarget}]
  BY DEF TypeInv, RoundTypes, ChatTypes
<1>2. ASSUME UNCHANGED <<target, chat>>, NEW r \in Rounds, NEW l,
             pc' = [pc EXCEPT ![r] = l], l \notin {"waiting", "keeping"}
      PROVE  AgentInv'
  BY <1>1, <1>2, AgentsStay
<1>3. ASSUME NEW r \in Rounds, RunAgent(r) PROVE AgentInv'
  <2>1. PICK s \in Sub : pc' = [pc EXCEPT ![r] = "waiting", ![s] = "queued"]
    BY <1>3 DEF RunAgent, StartAgent
  <2>2. /\ target'[r] = NoTarget /\ UNCHANGED chat
        /\ \A q \in Rounds : q # r => target'[q] = target[q]
        /\ \A q \in Rounds : q # r => pc'[q] = pc[q] \/ pc'[q] = "queued"
    BY <1>1, <1>3, <2>1 DEF RunAgent
  <2>3. QED
    BY <2>2 DEF AgentInv
<1>4. ASSUME NEW r \in Rounds, RespondToAgent(r) PROVE AgentInv'
  <2>1. PICK a \in agents[r] :
          \/ /\ chat[a].there
             /\ \E s \in Sub : StartAgent(r, s, Tools(a))
             /\ target' = [target EXCEPT ![r] = [agent |-> a, read |-> chat[a]]]
          \/ Goto(r, "panicked") /\ UNCHANGED target
    BY <1>4 DEF RespondToAgent
  <2>2. UNCHANGED chat /\ a \in Sub
    BY <1>4 DEF RespondToAgent, TypeInv, RoundTypes
  <2>3. CASE Goto(r, "panicked") /\ UNCHANGED target
    BY <1>2, <2>2, <2>3 DEF Goto
  <2>4. CASE /\ chat[a].there
             /\ \E s \in Sub : StartAgent(r, s, Tools(a))
             /\ target' = [target EXCEPT ![r] = [agent |-> a, read |-> chat[a]]]
    <3>1. PICK s \in Sub : pc' = [pc EXCEPT ![r] = "waiting", ![s] = "queued"]
      BY <2>4 DEF StartAgent
    <3>2. /\ target'[r] = [agent |-> a, read |-> chat[a]] /\ a \in chat[a].rounds
          /\ \A q \in Rounds : q # r => target'[q] = target[q]
          /\ \A q \in Rounds : q # r => pc'[q] = pc[q] \/ pc'[q] = "queued"
      BY <1>1, <2>2, <2>4, <3>1 DEF AgentInv
    <3>3. QED
      BY <2>2, <3>2 DEF AgentInv
  <2>5. QED
    BY <2>1, <2>3, <2>4
<1>5. ASSUME NEW r \in Rounds, HearAgent(r) PROVE AgentInv'
  <2>1. pc[r] = "waiting" /\ UNCHANGED <<chat, target>>
        /\ \E l : pc' = [pc EXCEPT ![r] = l]
    BY <1>5 DEF HearAgent, AfterCall, Goto
  <2>2. QED
    BY <1>1, <2>1, AgentsStay
<1>6. ASSUME NEW r \in Rounds, KeepAgent(r) PROVE AgentInv'
  <2>1. PICK name : /\ name = IF target[r] = NoTarget THEN child[r] ELSE target[r].agent
                    /\ chat' = [chat EXCEPT ![name] = AgentChat(r)]
    BY <1>6 DEF KeepAgent
  <2>2. pc[r] = "keeping" /\ UNCHANGED target /\ \E l : pc' = [pc EXCEPT ![r] = l]
    BY <1>6 DEF KeepAgent, AfterCall, Goto
  <2>3. PICK l : pc' = [pc EXCEPT ![r] = l]
    BY <2>2
  <2>4. \A q \in Rounds : q # r => pc'[q] = pc[q]
    BY <1>1, <2>3
  <2>5. name \in Sub /\ name \in ChatIds /\ name \in AgentChat(r).rounds
    BY <2>1, <2>2, AgentChatTyped DEF AgentInv
  <2>6. \A a \in Sub : chat'[a] = IF a = name THEN AgentChat(r) ELSE chat[a]
    BY <1>1, <2>1, <2>5
  <2>7. \A a \in Sub : chat'[a].there => a \in chat'[a].rounds
    BY <2>5, <2>6 DEF AgentInv
  <2>8. QED
    BY <2>2, <2>4, <2>7 DEF AgentInv
<1>7. ASSUME NEW r \in Rounds, CheckChat(r) PROVE AgentInv'
  <2>1. chat[request[r].chat] \in ChatRecords
    BY <1>7 DEF CheckChat, TypeInv, Places, ChatTypes, Updating
  <2>2. QED
    BY <1>2, <1>7, <2>1, MissingValues DEF CheckChat, Goto
<1>8. ASSUME NEW r \in Rounds, WriteChat(r) PROVE AgentInv'
  <2>1. request[r].chat \in Chats
    BY <1>8 DEF WriteChat, TypeInv, Places, Updating
  <2>2. \A a \in Sub : chat'[a] = chat[a]
    BY <1>1, <1>8, <2>1 DEF WriteChat
  <2>3. QED
    BY <1>1, <1>8, <2>2, AgentsStay DEF WriteChat, Goto
<1>9. ASSUME NEW r \in Rounds,
             \/ Prompt(r) \/ GetResponse(r) \/ Read(r) \/ Decide(r) \/ CallTool(r)
             \/ EndTurn(r) \/ Notify(r) \/ PlanJob(r) \/ Finish(r)
      PROVE  AgentInv'
  <2>1. UNCHANGED <<target, chat>>
    BY <1>9 DEF Prompt, GetResponse, Read, Decide, CallTool, EndTurn, Notify, PlanJob, Finish
  <2>2. \E l \in Handled \ {"waiting", "keeping"} : pc' = [pc EXCEPT ![r] = l]
    <3>1. CASE Read(r) \/ EndTurn(r) \/ Notify(r) \/ PlanJob(r) \/ Finish(r)
      BY <3>1 DEF Read, EndTurn, Notify, PlanJob, Finish, Goto, Handled, Labels, Over
    <3>2. CASE Prompt(r) \/ GetResponse(r)
      BY <3>2 DEF Prompt, GetResponse, Fail, Goto, Handled, Labels, Over
    <3>3. CASE Decide(r) \/ CallTool(r)
      BY <3>3 DEF Decide, CallTool, AfterCall, Goto, Handled, Labels, Over
    <3>4. QED
      BY <1>9, <3>1, <3>2, <3>3
  <2>3. QED
    BY <1>2, <2>1, <2>2
<1>10. ASSUME NEW r \in Web, Submit(r) PROVE AgentInv'
  BY <1>2, <1>10 DEF Submit, Goto
<1>11. ASSUME Take PROVE AgentInv'
  BY <1>1, <1>11, AgentsStay DEF Take, Goto
<1>12. ASSUME NEW c \in Chats, GetCopy(c) \/ SaveCopy(c) PROVE AgentInv'
  <2>1. \A a \in Sub : chat'[a] = chat[a]
    BY <1>1, <1>12 DEF GetCopy, SaveCopy
  <2>2. UNCHANGED <<pc, target>>
    BY <1>12 DEF GetCopy, SaveCopy, roundVars
  <2>3. QED
    BY <2>1, <2>2, AgentsStay
<1>13. ASSUME NEW c \in ChatIds, RemoveChat(c) PROVE AgentInv'
  <2>1. \A a \in Sub : chat'[a] \in {chat[a], Gone}
    BY <1>1, <1>13 DEF RemoveChat
  <2>2. UNCHANGED <<pc, target>>
    BY <1>13 DEF RemoveChat, roundVars
  <2>3. QED
    BY <2>1, <2>2, AgentsStay
<1>14. ASSUME WriteForJob PROVE AgentInv'
  <2>1. job.run.chat \in Chats
    BY <1>14 DEF WriteForJob, TypeInv, ChatTypes, JobRecords
  <2>2. \A a \in Sub : chat'[a] = chat[a]
    BY <1>1, <1>14, <2>1 DEF WriteForJob
  <2>3. UNCHANGED <<pc, target>>
    BY <1>14 DEF WriteForJob, roundVars
  <2>4. QED
    BY <2>2, <2>3, AgentsStay
<1>15. ASSUME UNCHANGED <<roundVars, chat>> PROVE AgentInv'
  BY <1>15, AgentsStay DEF roundVars
<1>16. QED
  BY <1>3, <1>4, <1>5, <1>6, <1>7, <1>8, <1>9, <1>10, <1>11, <1>12, <1>13, <1>14, <1>15
     DEF Next, EndpointStep, RoundStep, StreamStep, Reach, Produce, Relay, ReadForJob,
         RemoveJob, vars

\* An agent's chat always holds the agent's first answer: writing back what was
\* read before a long round never brings an agent back without its beginning.
THEOREM AgentsAreKept == Spec => []AgentsKept
<1>1. Init => AgentInv
  BY Bounds DEF Init, AgentInv, Gone
<1>2. TypeInv /\ AgentInv /\ [Next]_vars => AgentInv'
  BY AgentInduction
<1>3. TypeInv /\ AgentInv => AgentsKept
  BY DEF TypeInv, RoundTypes, AgentInv, AgentsKept
<1>4. QED
  BY <1>1, <1>2, <1>3, AlwaysTyped, PTL DEF Spec

-----------------------------------------------------------------------------
(* Titles.  Once a round is past its look at the chat, the chat has a title  *)
(* or a job for it, and the job goes only when the title was written.        *)

Titled(c) == ~chat[c].there \/ chat[c].titled \/ c \in cleared
Planned(c) == \E j \in jobs : j.kind = "title" /\ j.chat = c

Checked == {"tagging", "answering", "done"}

JobTitled ==
  job # NoJob /\ job.state = "written" /\ job.run.kind = "title" => Titled(job.run.chat)

TitleInv ==
  /\ \A r \in Rounds :
       pc[r] \in Checked /\ request[r].chat # NoChat
         => Titled(request[r].chat) \/ Planned(request[r].chat)
  /\ JobTitled

\* No round is newly past its look, and what was titled or planned stays so.
LEMMA TitlesStay ==
  ASSUME TypeInv, TitleInv,
         \A r \in Rounds : pc'[r] \in Checked =>
           pc[r] \in Checked /\ request'[r] = request[r],
         \A c \in Chats : Titled(c) => Titled(c)',
         \A c \in Chats : Planned(c) => Planned(c)' \/ Titled(c)',
         JobTitled'
  PROVE  TitleInv'
<1>1. ASSUME NEW r \in Rounds, pc[r] \in Checked, request[r].chat # NoChat
      PROVE  request[r].chat \in Chats
  <2>1. request[r] \in Prompts
    BY <1>1 DEF TypeInv, RoundTypes, Places, Checked, Handled, Labels, Over
  <2>2. QED
    BY <1>1, <2>1 DEF Prompts
<1>2. ASSUME NEW r \in Rounds, pc'[r] \in Checked, request'[r].chat # NoChat
      PROVE  (Titled(request[r].chat) \/ Planned(request[r].chat))'
  <2>1. pc[r] \in Checked /\ request'[r].chat = request[r].chat
    BY <1>2
  <2>2. PICK c \in Chats : c = request[r].chat
    BY <1>1, <1>2, <2>1
  <2>3. Titled(c) \/ Planned(c)
    BY <1>2, <2>1, <2>2 DEF TitleInv
  <2>4. Titled(c)' \/ Planned(c)'
    BY <2>3
  <2>5. QED
    BY <2>1, <2>2, <2>4 DEF Titled, Planned
<1>3. QED
  BY <1>2 DEF TitleInv

LEMMA JobStays ==
  ASSUME TypeInv, TitleInv, UNCHANGED job, \A c \in Chats : Titled(c) => Titled(c)'
  PROVE  JobTitled'
<1>1. job # NoJob => job.run.chat \in Chats
  BY DEF TypeInv, ChatTypes, JobRecords
<1>2. CASE job # NoJob /\ job.state = "written" /\ job.run.kind = "title"
  <2>1. PICK c \in Chats : c = job.run.chat
    BY <1>1, <1>2
  <2>2. Titled(c)'
    BY <1>2, <2>1 DEF TitleInv, JobTitled
  <2>3. QED
    BY <2>1, <2>2 DEF JobTitled, Titled
<1>3. QED
  BY <1>2 DEF JobTitled

\* Steps that change no chat, no job record and nothing cleared.
LEMMA TitlesKept ==
  ASSUME TypeInv, TitleInv, UNCHANGED <<chat, cleared, jobs, job>>,
         \A r \in Rounds : pc'[r] \in Checked =>
           pc[r] \in Checked /\ request'[r] = request[r]
  PROVE  TitleInv'
<1>1. \A c \in Chats : Titled(c) => Titled(c)'
  BY DEF Titled
<1>2. QED
  BY <1>1, JobStays, TitlesStay DEF Planned

\* The chats of clients keep their titles.
LEMMA TitlesOfChats ==
  ASSUME TypeInv, TitleInv, UNCHANGED <<cleared, jobs, job>>,
         \A c \in Chats : chat'[c].there = chat[c].there /\ chat'[c].titled = chat[c].titled,
         \A r \in Rounds : pc'[r] \in Checked =>
           pc[r] \in Checked /\ request'[r] = request[r]
  PROVE  TitleInv'
<1>1. \A c \in Chats : Titled(c) => Titled(c)'
  BY DEF Titled
<1>2. QED
  BY <1>1, JobStays, TitlesStay DEF Planned

LEMMA PastCheck ==
  ASSUME TypeInv, TitleInv, NEW r \in Rounds, NEW l, pc' = [pc EXCEPT ![r] = l],
         UNCHANGED <<chat, cleared, job, request>>, jobs \subseteq jobs',
         l \in Checked /\ request[r].chat # NoChat =>
           Titled(request[r].chat) \/ \E j \in jobs' : j.kind = "title" /\ j.chat = request[r].chat
  PROVE  TitleInv'
<1>1. pc'[r] = l /\ \A s \in Rounds : s # r => pc'[s] = pc[s]
  BY DEF TypeInv, RoundTypes
<1>2. JobTitled'
  BY DEF TitleInv, JobTitled, Titled
<1>3. \A s \in Rounds : pc'[s] \in Checked /\ request[s].chat # NoChat =>
        Titled(request[s].chat) \/ \E j \in jobs' : j.kind = "title" /\ j.chat = request[s].chat
  BY <1>1 DEF TitleInv, Planned
<1>4. QED
  BY <1>2, <1>3 DEF TitleInv, Titled, Planned

LEMMA TitleInduction ==
  ASSUME TypeInv, TitleInv, [Next]_vars
  PROVE  TitleInv'
<1> USE Bounds
<1>1. /\ pc \in [Rounds -> Labels] /\ chat \in [ChatIds -> ChatRecords]
      /\ request \in [Rounds -> Prompts \cup {Continue}]
  BY DEF TypeInv, RoundTypes, ChatTypes
<1>2. ASSUME NEW r \in Rounds, NEW l, l \notin Checked, pc' = [pc EXCEPT ![r] = l],
             UNCHANGED <<chat, cleared, jobs, job, request>>
      PROVE  TitleInv'
  BY <1>1, <1>2, TitlesKept
<1>3. ASSUME NEW r \in Rounds, CheckChat(r) PROVE TitleInv'
  <2> DEFINE c == request[r].chat
  <2>1. chat[c] \in ChatRecords
    BY <1>3 DEF CheckChat, TypeInv, Places, ChatTypes, Updating
  <2>2. pc' = [pc EXCEPT ![r] = Missing(chat[c])]
        /\ UNCHANGED <<chat, cleared, jobs, job, request>>
    BY <1>3 DEF CheckChat, Goto, clientVars
  <2>3. Missing(chat[c]) \in Checked => Titled(c)
    BY <2>1, MissingValues DEF Checked, Titled
  <2> HIDE DEF c
  <2>4. QED
    BY <2>2, <2>3, PastCheck DEF c
<1>4. ASSUME NEW r \in Rounds, PlanJob(r) PROVE TitleInv'
  <2> DEFINE c == request[r].chat
  <2>1. PICK l \in {"tagging", "answering"} : pc' = [pc EXCEPT ![r] = l]
    BY <1>4 DEF PlanJob, Goto
  <2>2. UNCHANGED <<chat, cleared, job, request>> /\ jobs \subseteq jobs'
    BY <1>4 DEF PlanJob, clientVars
  <2>3. c # NoChat => Titled(c) \/ \E j \in jobs' : j.kind = "title" /\ j.chat = c
    <3>1. CASE pc[r] = "tagging"
      <4>1. c # NoChat => Titled(c) \/ Planned(c)
        BY <3>1 DEF TitleInv, Checked
      <4>2. QED
        BY <2>2, <4>1 DEF Planned
    <3>2. CASE pc[r] # "tagging"
      <4>1. [kind |-> "title", chat |-> c, round |-> r] \in jobs'
        BY <1>4, <3>2 DEF PlanJob
      <4>2. QED
        BY <4>1
    <3>3. QED
      BY <3>1, <3>2
  <2>4. QED
    BY <2>1, <2>2, <2>3, PastCheck
<1>5. ASSUME NEW r \in Rounds, Decide(r) PROVE TitleInv'
  <2>1. PICK l \in {"calling", "answering", "writing"} :
          /\ pc' = [pc EXCEPT ![r] = l]
          /\ l = "answering" => request[r].chat = NoChat
    BY <1>5 DEF Decide, Goto
  <2>2. UNCHANGED <<chat, cleared, jobs, job, request>>
    BY <1>5 DEF Decide, clientVars
  <2>3. QED
    BY <2>1, <2>2, PastCheck DEF Checked
<1>6. ASSUME NEW r \in Rounds, Finish(r) PROVE TitleInv'
  <2>1. /\ pc[r] = "answering" /\ pc' = [pc EXCEPT ![r] = "done"]
        /\ UNCHANGED <<chat, cleared, jobs, job, request>>
    BY <1>6 DEF Finish, Goto, clientVars
  <2>2. \A s \in Rounds : s # r => pc'[s] = pc[s]
    BY <1>1, <2>1
  <2>3. QED
    BY <2>1, <2>2, TitlesKept DEF Checked
<1>7. ASSUME NEW r \in Rounds, WriteChat(r) PROVE TitleInv'
  <2>1. \A s \in Rounds : s # r => pc'[s] = pc[s]
    BY <1>1, <1>7 DEF WriteChat, Goto
  <2>2. pc'[r] = "notifying"
    BY <1>1, <1>7 DEF WriteChat, Goto
  <2>3. \A c \in Chats : chat'[c].there = chat[c].there /\ chat'[c].titled = chat[c].titled
    BY <1>1, <1>7 DEF WriteChat, ChatRecords
  <2>4. UNCHANGED <<cleared, jobs, job, request>>
    BY <1>7 DEF WriteChat, clientVars
  <2>5. QED
    BY <2>1, <2>2, <2>3, <2>4, TitlesOfChats DEF Checked
<1>8. ASSUME NEW r \in Rounds, KeepAgent(r) PROVE TitleInv'
  <2>1. PICK name, l : /\ name = IF target[r] = NoTarget THEN child[r] ELSE target[r].agent
                       /\ chat' = [chat EXCEPT ![name] = AgentChat(r)]
                       /\ pc' = [pc EXCEPT ![r] = l]
                       /\ l \in {"calling", "closing", "panicked"}
    BY <1>8 DEF KeepAgent, AfterCall, Goto
  <2>2. name \in Sub
    BY <1>8, <2>1, AgentChatTyped DEF KeepAgent
  <2>3. \A c \in Chats : chat'[c] = chat[c]
    BY <1>1, <2>1, <2>2
  <2>4. UNCHANGED <<cleared, jobs, job, request>>
    BY <1>8 DEF KeepAgent, clientVars
  <2>5. pc'[r] \notin Checked /\ \A s \in Rounds : s # r => pc'[s] = pc[s]
    BY <1>1, <2>1 DEF Checked
  <2>6. QED
    BY <2>3, <2>4, <2>5, TitlesOfChats
<1>9. ASSUME NEW r \in Rounds, RunAgent(r) \/ RespondToAgent(r) PROVE TitleInv'
  <2>1. UNCHANGED <<chat, cleared, jobs, job>>
    BY <1>9 DEF RunAgent, RespondToAgent, clientVars
  <2>2. \A q \in Rounds : pc'[q] \in Checked => pc[q] \in Checked /\ request'[q] = request[q]
    <3>1. CASE \E s \in Sub : \E tools : StartAgent(r, s, tools)
      <4>1. PICK s \in Sub : \E tools : StartAgent(r, s, tools)
        BY <3>1
      <4>2. /\ pc' = [pc EXCEPT ![r] = "waiting", ![s] = "queued"]
            /\ \E tools : request' = [request EXCEPT ![s] = [NoPrompt EXCEPT !.tools = tools]]
        BY <4>1 DEF StartAgent
      <4>3. s \in Rounds /\ pc'[s] = "queued"
        BY <1>1, <4>2
      <4>4. \A q \in Rounds : pc'[q] \in {pc[q], "waiting", "queued"}
        BY <1>1, <4>2
      <4>5. \A q \in Rounds : q # s => request'[q] = request[q]
        BY <1>1, <4>2
      <4>6. QED
        BY <4>3, <4>4, <4>5 DEF Checked
    <3>2. CASE Goto(r, "panicked") /\ UNCHANGED request
      BY <1>1, <3>2 DEF Goto, Checked
    <3>3. QED
      BY <1>9, <3>1, <3>2 DEF RunAgent, RespondToAgent
  <2>3. QED
    BY <2>1, <2>2, TitlesKept
<1>10. ASSUME NEW r \in Rounds,
              \/ Prompt(r) \/ GetResponse(r) \/ Read(r) \/ CallTool(r) \/ HearAgent(r)
              \/ EndTurn(r) \/ Notify(r)
       PROVE  TitleInv'
  <2>1. UNCHANGED <<chat, cleared, jobs, job, request>>
    BY <1>10 DEF Prompt, GetResponse, Read, CallTool, HearAgent, EndTurn, Notify, clientVars
  <2>2. \E l \in Handled \ Checked : pc' = [pc EXCEPT ![r] = l]
    <3>1. CASE Read(r) \/ EndTurn(r) \/ Notify(r)
      BY <3>1 DEF Read, EndTurn, Notify, Goto, Checked, Handled, Labels, Over
    <3>2. CASE Prompt(r) \/ GetResponse(r)
      BY <3>2 DEF Prompt, GetResponse, Fail, Goto, Checked, Handled, Labels, Over
    <3>3. CASE CallTool(r) \/ HearAgent(r)
      BY <3>3 DEF CallTool, HearAgent, AfterCall, Goto, Checked, Handled, Labels, Over
    <3>4. QED
      BY <1>10, <3>1, <3>2, <3>3
  <2>3. QED
    BY <1>2, <2>1, <2>2
<1>11. ASSUME NEW r \in Web, Submit(r) PROVE TitleInv'
  <2>1. \A q \in Rounds : pc'[q] \in Checked => pc[q] \in Checked /\ request'[q] = request[q]
    BY <1>1, <1>11 DEF Submit, Goto, Checked
  <2>2. QED
    BY <1>11, <2>1, TitlesKept DEF Submit, clientVars
<1>12. ASSUME Take PROVE TitleInv'
  <2>1. \A q \in Rounds : pc'[q] \in Checked => pc[q] \in Checked
    BY <1>1, <1>12 DEF Take, Goto, Checked
  <2>2. QED
    BY <1>12, <2>1, TitlesKept DEF Take, clientVars
<1>13. ASSUME NEW j \in jobs, ReadForJob(j) PROVE TitleInv'
  <2>1. /\ job'.state = "asking" /\ UNCHANGED <<chat, cleared, jobs, request, pc>>
    BY <1>13 DEF ReadForJob, roundVars, clientVars
  <2>2. QED
    BY <2>1, TitlesStay DEF Titled, Planned, JobTitled
<1>14. ASSUME WriteForJob PROVE TitleInv'
  <2>1. UNCHANGED <<cleared, jobs, request, pc>>
    BY <1>14 DEF WriteForJob, roundVars, clientVars
  <2> DEFINE c == job.run.chat
  <2>2. job \in [run : JobRecords, state : {"asking", "written"}] /\ c \in Chats
    BY <1>14 DEF WriteForJob, TypeInv, ChatTypes, JobRecords
  <2>3. /\ job' = NoJob \/ job' = [job EXCEPT !.state = "written"]
        /\ job' # NoJob /\ job.run.kind = "title" => chat'[c].titled \/ ~chat'[c].there
        /\ \A d \in Chats : chat'[d].there = chat[d].there
        /\ \A d \in Chats : chat[d].titled => chat'[d].titled
    <3>1. chat[c] \in ChatRecords /\ c \in ChatIds
      BY <1>1, <2>2
    <3>2. CASE /\ job.run.kind = "title"
               /\ chat' = IF chat[c].there THEN [chat EXCEPT ![c].titled = TRUE] ELSE chat
               /\ job' = [job EXCEPT !.state = "written"]
      BY <1>1, <3>1, <3>2 DEF ChatRecords
    <3>3. CASE job' = NoJob /\ UNCHANGED chat
      BY <3>3
    <3>4. CASE /\ job.run.kind = "tag"
               /\ \E found \in BOOLEAN :
                    chat' = IF chat[c].there THEN [chat EXCEPT ![c].tagged = found] ELSE chat
               /\ job' = [job EXCEPT !.state = "written"]
      BY <1>1, <3>1, <3>4 DEF ChatRecords
    <3>5. QED
      BY <1>14, <3>2, <3>3, <3>4 DEF WriteForJob
  <2>4. job' # NoJob => job'.run = job.run
    BY <2>2, <2>3
  <2>5. \A d \in Chats : Titled(d) => Titled(d)'
    BY <2>1, <2>3 DEF Titled
  <2>6. JobTitled'
    BY <2>2, <2>3, <2>4 DEF JobTitled, Titled
  <2>7. QED
    BY <2>1, <2>5, <2>6, TitlesStay DEF Planned
<1>15. ASSUME RemoveJob PROVE TitleInv'
  <2>1. UNCHANGED <<chat, cleared, request, pc>> /\ jobs' = jobs \ {job.run} /\ job' = NoJob
        /\ job # NoJob /\ job.state = "written"
    BY <1>15 DEF RemoveJob, roundVars, clientVars
  <2>2. \A c \in Chats : Titled(c) => Titled(c)'
    BY <2>1 DEF Titled
  <2>3. \A c \in Chats : Planned(c) => Planned(c)' \/ Titled(c)
    BY <2>1 DEF Planned, TitleInv, JobTitled
  <2>4. QED
    BY <2>1, <2>2, <2>3, TitlesStay DEF JobTitled
<1>16. ASSUME NEW c \in Chats, SaveCopy(c) PROVE TitleInv'
  <2>1. UNCHANGED <<request, pc, jobs, job>> /\ copy[c].there
    BY <1>16 DEF SaveCopy, roundVars
  <2>2. copy[c] \in ChatRecords
    BY DEF TypeInv, ChatTypes
  <2>3. PICK titled \in {copy[c].titled, TRUE} :
          /\ chat' = [chat EXCEPT ![c] = [copy[c] EXCEPT !.titled = titled]]
          /\ cleared' = IF titled \/ (chat[c].there /\ ~chat[c].titled) THEN cleared
                        ELSE cleared \cup {c}
    BY <1>16 DEF SaveCopy
  <2>4. chat'[c].titled = titled /\ \A d \in Chats : d # c => chat'[d] = chat[d]
    BY <1>1, <2>2, <2>3 DEF ChatRecords
  <2>5. cleared \subseteq cleared'
    BY <2>3
  <2>6. Titled(c) => Titled(c)'
    BY <2>3, <2>4, <2>5 DEF Titled
  <2>7. \A d \in Chats : Titled(d) => Titled(d)'
    BY <2>4, <2>5, <2>6 DEF Titled
    <2>8. QED
    BY <2>1, <2>7, JobStays, TitlesStay DEF Planned
<1>17. ASSUME NEW c \in ChatIds, RemoveChat(c) PROVE TitleInv'
  <2>1. UNCHANGED <<request, pc, jobs, job, cleared>>
    BY <1>17 DEF RemoveChat, roundVars
  <2>2. \A d \in Chats : chat'[d] = chat[d] \/ ~chat'[d].there
    BY <1>1, <1>17 DEF RemoveChat, Gone
  <2>3. \A d \in Chats : Titled(d) => Titled(d)'
    BY <2>1, <2>2 DEF Titled
    <2>4. QED
    BY <2>1, <2>3, JobStays, TitlesStay DEF Planned
<1>18. ASSUME UNCHANGED <<roundVars, chat, cleared, jobs, job>> PROVE TitleInv'
  BY <1>18, TitlesKept DEF roundVars
<1>19. QED
  BY <1>3, <1>4, <1>5, <1>6, <1>7, <1>8, <1>9, <1>10, <1>11, <1>12, <1>13, <1>14, <1>15,
     <1>16, <1>17, <1>18
     DEF Next, EndpointStep, RoundStep, StreamStep, Reach, Produce, Relay, GetCopy,
         clientVars, vars

\* Whatever rounds, jobs and clients do to a chat at once, a chat that a round
\* was finished on has a title, has a job that will give it one, is gone, or was
\* overwritten by a client that had an older copy.
THEOREM TitlesArePlanned == Spec => []TitlePlanned
<1>1. Init => TitleInv
  BY DEF Init, TitleInv, JobTitled, Checked
<1>2. TypeInv /\ TitleInv /\ [Next]_vars => TitleInv'
  BY TitleInduction
<1>3. TitleInv => TitlePlanned
  BY DEF TitleInv, TitlePlanned, Titled, Planned, Checked
<1>4. QED
  BY <1>1, <1>2, <1>3, AlwaysTyped, PTL DEF Spec

-----------------------------------------------------------------------------
(* FlattenSeq is defined by recursion over a sequence.  What it does of a     *)
(* longer one is proved from a least counterexample.                         *)

\* A set of numbers has a least one: the intervals from 0 are well-founded by
\* inclusion.
LEMMA LeastOf ==
  ASSUME NEW T, T \subseteq Nat, T # {}
  PROVE  \E x \in T : \A y \in T : x <= y
<1> DEFINE upTo == {0 .. n : n \in T}
<1>1. upTo \subseteq FiniteSubsetsOf(Nat) /\ upTo # {}
  <2>1. ASSUME NEW n \in T PROVE 0 .. n \in FiniteSubsetsOf(Nat)
    <3>1. IsFiniteSet(0 .. n) /\ 0 .. n \subseteq Nat
      BY FS_Interval
    <3>2. QED
      BY <3>1 DEF FiniteSubsetsOf
  <2>2. QED
    BY <2>1
<1>2. PICK x \in T : \A y \in T : <<0 .. y, 0 .. x>> \notin StrictSubsetOrdering(Nat)
  <2> HIDE DEF upTo
  <2>1. \E a \in upTo : \A b \in upTo : ~(<<b, a>> \in StrictSubsetOrdering(Nat))
    BY <1>1, FS_StrictSubsetOrderingWellFounded, WFMin
  <2>2. QED
    BY <2>1 DEF upTo
<1>3. ASSUME NEW y \in T, y < x PROVE FALSE
  <2>1. 0 .. y \subseteq 0 .. x /\ x \in 0 .. x /\ x \notin 0 .. y
    BY <1>3
  <2>2. 0 .. y \in SUBSET Nat /\ 0 .. x \in SUBSET Nat
    OBVIOUS
  <2>3. <<0 .. y, 0 .. x>> \in StrictSubsetOrdering(Nat)
    BY <2>1, <2>2 DEF StrictSubsetOrdering
  <2>4. QED
    BY <1>2, <2>3
<1>4. QED
  BY <1>3

\* Induction over a set, which takes no operator as a parameter.
LEMMA SetInduction ==
  ASSUME NEW T, 0 \in T, \A n \in Nat : n \in T => n + 1 \in T
  PROVE  Nat \subseteq T
<1> SUFFICES ASSUME ~(Nat \subseteq T) PROVE FALSE
  OBVIOUS
<1> DEFINE U == Nat \ T
<1>1. PICK x \in U : \A y \in U : x <= y
  BY LeastOf
<1>2. x # 0 /\ x - 1 \in Nat /\ x - 1 \notin U
  BY <1>1
<1>3. QED
  BY <1>1, <1>2

\* A function defined by iteration from a.
Iterated(f, S, a, step) ==
  /\ f \in [Nat -> S]
  /\ f[0] = a
  /\ \A n \in Nat : f[n + 1] = step[<<f[n], n>>]

LEMMA Iterates ==
  ASSUME NEW S, NEW a \in S, NEW step \in [S \X Nat -> S]
  PROVE  \E f : Iterated(f, S, a, step)
<1> DEFINE Good(n, f) == f[0] = a /\ \A k \in 0 .. n - 1 : f[k + 1] = step[<<f[k], k>>]
<1>1. \A n \in Nat : \E f \in [Nat -> S] : Good(n, f)
  <2> DEFINE T == {n \in Nat : \E f \in [Nat -> S] : Good(n, f)}
  <2>1. 0 \in T
    <3>1. [k \in Nat |-> a] \in [Nat -> S] /\ Good(0, [k \in Nat |-> a])
      OBVIOUS
    <3>2. QED
      BY <3>1
  <2>2. ASSUME NEW n \in Nat, n \in T PROVE n + 1 \in T
    <3>1. PICK f \in [Nat -> S] : Good(n, f)
      BY <2>2
    <3> DEFINE g == [f EXCEPT ![n + 1] = step[<<f[n], n>>]]
    <3>2. g \in [Nat -> S]
      OBVIOUS
    <3>3. Good(n + 1, g)
      BY <3>1
    <3>4. QED
      <4> HIDE DEF Good, g
      <4>1. QED
        BY <3>2, <3>3
  <2>3. QED
    <3>1. Nat \subseteq T
      <4> HIDE DEF T
      <4>1. QED
        BY <2>1, <2>2, SetInduction
    <3>2. QED
      BY <3>1
<1>2. ASSUME NEW n \in Nat, NEW f \in [Nat -> S], NEW g \in [Nat -> S], Good(n, f), Good(n, g)
      PROVE  \A k \in 0 .. n : f[k] = g[k]
  <2> DEFINE T == {k \in Nat : k <= n => f[k] = g[k]}
  <2>1. 0 \in T
    BY <1>2
  <2>2. ASSUME NEW k \in Nat, k \in T PROVE k + 1 \in T
    <3>1. ASSUME k + 1 <= n PROVE f[k + 1] = g[k + 1]
      <4>1. k <= n /\ k \in 0 .. n - 1
        BY <3>1
      <4>2. f[k] = g[k]
        BY <2>2, <4>1
      <4>3. f[k + 1] = step[<<f[k], k>>] /\ g[k + 1] = step[<<g[k], k>>]
        BY <1>2, <4>1
      <4>4. QED
        BY <4>2, <4>3
    <3>2. QED
      BY <3>1
  <2>3. Nat \subseteq T
    <3> HIDE DEF T
    <3>1. QED
      BY <2>1, <2>2, SetInduction
  <2>4. QED
    BY <2>3
<1> DEFINE pick(n) == CHOOSE f \in [Nat -> S] : Good(n, f)
           h == [n \in Nat |-> pick(n)[n]]
<1>3. ASSUME NEW n \in Nat PROVE pick(n) \in [Nat -> S] /\ Good(n, pick(n))
  <2> HIDE DEF Good
  <2>1. QED
    BY <1>1
<1> HIDE DEF pick
<1>4. h \in [Nat -> S]
  BY <1>3
<1>5. h[0] = a
  BY <1>3
<1>6. ASSUME NEW n \in Nat PROVE h[n + 1] = step[<<h[n], n>>]
  <2>1. Good(n, pick(n)) /\ Good(n, pick(n + 1)) /\ Good(n + 1, pick(n + 1))
    BY <1>3
  <2>2. pick(n)[n] = pick(n + 1)[n]
    <3> HIDE DEF Good
    <3>1. \A k \in 0 .. n : pick(n)[k] = pick(n + 1)[k]
      BY <1>2, <1>3, <2>1
    <3>2. QED
      BY <3>1
  <2>3. pick(n + 1)[n + 1] = step[<<pick(n + 1)[n], n>>]
    BY <2>1
  <2>4. QED
    BY <2>2, <2>3
<1> HIDE DEF h
<1>7. Iterated(h, S, a, step)
  BY <1>4, <1>5, <1>6 DEF Iterated
<1>8. QED
  BY <1>7

\* The partial concatenations of s, as FlattenSeq defines them.
Unrolls(f, s) == f = [i \in 1 .. Len(s) |-> IF i = 1 THEN s[i] ELSE f[i - 1] \o s[i]]

LEMMA UnrollExists ==
  ASSUME NEW S, NEW s \in Seq(Seq(S)), s # <<>>
  PROVE  \E f \in [1 .. Len(s) -> Seq(S)] : Unrolls(f, s)
<1> DEFINE next(x, n) == IF n + 2 \in 1 .. Len(s) THEN x \o s[n + 2] ELSE x
           step == [p \in Seq(S) \X Nat |-> next(p[1], p[2])]
<1>1. /\ Len(s) \in Nat /\ Len(s) > 0 /\ s[1] \in Seq(S)
      /\ \A i \in 1 .. Len(s) : s[i] \in Seq(S)
  OBVIOUS
<1>2. \A x \in Seq(S), n \in Nat : next(x, n) \in Seq(S)
  BY <1>1
<1>3. step \in [Seq(S) \X Nat -> Seq(S)]
  BY <1>2
<1>4. \A x \in Seq(S), n \in Nat : step[<<x, n>>] = next(x, n)
  OBVIOUS
<1> HIDE DEF step
<1>5. PICK f \in [Nat -> Seq(S)] : f[0] = s[1] /\ \A n \in Nat : f[n + 1] = step[<<f[n], n>>]
  <2> DEFINE R == Seq(S)
  <2>1. s[1] \in R /\ step \in [R \X Nat -> R]
    BY <1>1, <1>3
  <2> HIDE DEF R
  <2>2. \E f : Iterated(f, R, s[1], step)
    BY <2>1, Iterates
  <2>3. QED
    BY <2>2 DEF R, Iterated
<1> DEFINE g == [i \in 1 .. Len(s) |-> f[i - 1]]
<1>6. g \in [1 .. Len(s) -> Seq(S)]
  <2>1. \A i \in 1 .. Len(s) : i - 1 \in Nat
    BY <1>1
  <2>2. \A i \in 1 .. Len(s) : f[i - 1] \in Seq(S)
    BY <1>5, <2>1
  <2>3. QED
    BY <2>2
<1>7. ASSUME NEW i \in 1 .. Len(s)
      PROVE  g[i] = IF i = 1 THEN s[i] ELSE g[i - 1] \o s[i]
  <2>1. CASE i = 1
    BY <1>5, <2>1
  <2>2. CASE i # 1
    <3>1. i - 2 \in Nat /\ (i - 2) + 1 = i - 1 /\ (i - 2) + 2 = i /\ i - 1 \in 1 .. Len(s)
      BY <1>1, <2>2
    <3>2. f[i - 1] = next(f[i - 2], i - 2)
      <4>1. f[i - 2] \in Seq(S) /\ f[(i - 2) + 1] = step[<<f[i - 2], i - 2>>]
        BY <1>5, <3>1
      <4>2. step[<<f[i - 2], i - 2>>] = next(f[i - 2], i - 2)
        BY <1>4, <3>1, <4>1
      <4>3. QED
        BY <3>1, <4>1, <4>2
    <3>3. g[i] = f[i - 1] /\ g[i - 1] = f[i - 2]
      BY <3>1
    <3>4. QED
      BY <2>2, <3>1, <3>2, <3>3
  <2>3. QED
    BY <2>1, <2>2
<1> HIDE DEF g
<1>8. Unrolls(g, s)
  BY <1>6, <1>7 DEF Unrolls
<1>9. QED
  BY <1>6, <1>8

LEMMA UnrollUnique ==
  ASSUME NEW S, NEW s \in Seq(Seq(S)), NEW t \in Seq(Seq(S)), Len(s) <= Len(t),
         \A i \in 1 .. Len(s) : s[i] = t[i],
         NEW f, Unrolls(f, s), NEW g, Unrolls(g, t)
  PROVE  \A i \in 1 .. Len(s) : f[i] = g[i]
<1> DEFINE T == {n \in Nat : n + 1 \in 1 .. Len(s) => f[n + 1] = g[n + 1]}
<1>1. Len(s) \in Nat /\ Len(t) \in Nat
  OBVIOUS
<1>2. /\ \A i \in 1 .. Len(s) : f[i] = IF i = 1 THEN s[i] ELSE f[i - 1] \o s[i]
      /\ \A i \in 1 .. Len(t) : g[i] = IF i = 1 THEN t[i] ELSE g[i - 1] \o t[i]
  BY DEF Unrolls
<1>3. 0 \in T
  <2>1. ASSUME 1 \in 1 .. Len(s) PROVE f[1] = g[1]
    <3>1. 1 \in 1 .. Len(t) /\ s[1] = t[1]
      BY <1>1, <2>1
    <3>2. f[1] = s[1] /\ g[1] = t[1]
      BY <1>2, <2>1, <3>1
    <3>3. QED
      BY <3>1, <3>2
  <2>2. QED
    BY <2>1
<1>4. ASSUME NEW n \in Nat, n \in T PROVE n + 1 \in T
  <2> SUFFICES ASSUME n + 2 \in 1 .. Len(s) PROVE f[n + 2] = g[n + 2]
    OBVIOUS
  <2>1. /\ n + 1 \in 1 .. Len(s) /\ n + 2 \in 1 .. Len(t) /\ n + 2 # 1 /\ (n + 2) - 1 = n + 1
        /\ s[n + 2] = t[n + 2]
    BY <1>1
  <2>2. f[n + 1] = g[n + 1]
    BY <1>4, <2>1
  <2>3. f[n + 2] = f[n + 1] \o s[n + 2] /\ g[n + 2] = g[n + 1] \o t[n + 2]
    BY <1>2, <2>1
  <2>4. QED
    BY <2>1, <2>2, <2>3
<1> HIDE DEF T
<1>5. Nat \subseteq T
  BY <1>3, <1>4, SetInduction
<1>6. ASSUME NEW i \in 1 .. Len(s) PROVE f[i] = g[i]
  <2>1. i - 1 \in Nat /\ (i - 1) + 1 = i
    BY <1>1
  <2>2. QED
    BY <1>5, <2>1 DEF T
<1>7. QED
  BY <1>6

\* FlattenSeq, one sequence more at a time.
LEMMA FlattenAppend ==
  ASSUME NEW S, NEW s \in Seq(Seq(S)), NEW x \in Seq(S)
  PROVE  FlattenSeq(Append(s, x)) = FlattenSeq(s) \o x
<1> DEFINE t == Append(s, x)
           f(u) == CHOOSE h : Unrolls(h, u)
<1>1. /\ t \in Seq(Seq(S)) /\ Len(t) = Len(s) + 1 /\ Len(s) \in Nat /\ t # <<>>
      /\ t[Len(s) + 1] = x /\ \A i \in 1 .. Len(s) : s[i] = t[i]
  <2> DEFINE R == Seq(S)
  <2>1. s \in Seq(R) /\ x \in R
    OBVIOUS
  <2> HIDE DEF R
  <2>2. /\ t \in Seq(R) /\ Len(t) = Len(s) + 1 /\ Len(s) \in Nat
        /\ t[Len(s) + 1] = x /\ \A i \in 1 .. Len(s) : s[i] = t[i]
    BY <2>1
  <2>3. t # <<>>
    BY <2>2
  <2>4. QED
    BY <2>2, <2>3 DEF R
<1>2. ASSUME NEW u \in Seq(Seq(S)), u # <<>>
      PROVE  /\ Unrolls(f(u), u)
             /\ FlattenSeq(u) = f(u)[Len(u)]
  <2>1. \E h : Unrolls(h, u)
    BY <1>2, UnrollExists
  <2>2. Unrolls(f(u), u)
    BY <2>1
  <2>3. Len(u) # 0
    BY <1>2
  <2>4. FlattenSeq(u) = f(u)[Len(u)]
    BY <2>3 DEF FlattenSeq, Unrolls
  <2>5. QED
    BY <2>2, <2>4
<1>3. /\ Unrolls(f(t), t) /\ FlattenSeq(t) = f(t)[Len(t)]
  BY <1>1, <1>2
<1> HIDE DEF t
<1>4. CASE s = <<>>
  <2>1. FlattenSeq(s) = <<>>
    BY <1>4 DEF FlattenSeq
  <2>2. Len(t) = 1 /\ t[1] = x
    BY <1>1, <1>4
  <2>3. f(t)[1] = t[1]
    BY <1>3, <2>2 DEF Unrolls
  <2>4. QED
    BY <1>3, <2>1, <2>2, <2>3 DEF t
<1>5. CASE s # <<>>
  <2>1. Unrolls(f(s), s) /\ FlattenSeq(s) = f(s)[Len(s)]
    BY <1>2, <1>5
  <2>2. Len(s) > 0
    BY <1>1, <1>5
  <2> HIDE DEF f
  <2>3. Len(s) <= Len(t)
    BY <1>1
  <2>4. \A i \in 1 .. Len(s) : f(s)[i] = f(t)[i]
    <3> DEFINE fs == f(s)
               ft == f(t)
    <3>1. Unrolls(fs, s) /\ Unrolls(ft, t)
      BY <1>3, <2>1
    <3> HIDE DEF fs, ft
    <3>2. \A i \in 1 .. Len(s) : fs[i] = ft[i]
      <4>1. t \in Seq(Seq(S)) /\ \A i \in 1 .. Len(s) : s[i] = t[i]
        BY <1>1
      <4>2. \A h, k : Unrolls(h, s) /\ Unrolls(k, t) => \A i \in 1 .. Len(s) : h[i] = k[i]
        <5> SUFFICES ASSUME NEW h, NEW k, Unrolls(h, s), Unrolls(k, t)
                     PROVE  \A i \in 1 .. Len(s) : h[i] = k[i]
          OBVIOUS
        <5>1. QED
          BY <2>3, <4>1, UnrollUnique
      <4>3. QED
        BY <3>1, <4>2
    <3>3. QED
      BY <3>2 DEF fs, ft
  <2>5. f(s)[Len(s)] = f(t)[Len(s)]
    BY <1>1, <2>2, <2>4
  <2>6. f(t)[Len(s) + 1] = f(t)[Len(s)] \o t[Len(s) + 1]
    <3> DEFINE ft == f(t)
    <3>1. ft = [i \in 1 .. Len(t) |-> IF i = 1 THEN t[i] ELSE ft[i - 1] \o t[i]]
      BY <1>3 DEF Unrolls
    <3> HIDE DEF ft
    <3>2. Len(s) + 1 \in 1 .. Len(t) /\ Len(s) + 1 # 1 /\ (Len(s) + 1) - 1 = Len(s)
      BY <1>1, <2>2
    <3>3. ft[Len(s) + 1] = ft[(Len(s) + 1) - 1] \o t[Len(s) + 1]
      BY <3>1, <3>2
    <3>4. QED
      BY <3>2, <3>3 DEF ft
  <2>7. QED
    BY <1>1, <1>3, <2>1, <2>5, <2>6 DEF t
<1>6. QED
  BY <1>4, <1>5

LEMMA FlattenEmpty == FlattenSeq(<<>>) = <<>>
BY DEF FlattenSeq

\* A sequence that is not empty has a last element.
LEMMA SeqSplits ==
  ASSUME NEW S, NEW t \in Seq(S), NEW n \in Nat, Len(t) = n + 1
  PROVE  \E u \in Seq(S), x \in S : t = Append(u, x) /\ Len(u) = n
<1> DEFINE u == [i \in 1 .. n |-> t[i]]
<1>1. u \in Seq(S) /\ Len(u) = n /\ t[n + 1] \in S
  OBVIOUS
<1>2. Append(u, t[n + 1]) = t
  <2>1. Append(u, t[n + 1]) \in Seq(S) /\ Len(Append(u, t[n + 1])) = n + 1
    BY <1>1
  <2>2. \A i \in 1 .. n + 1 : Append(u, t[n + 1])[i] = t[i]
    BY <1>1
  <2>3. QED
    BY <2>1, <2>2, SeqEqual
<1>3. QED
  BY <1>1, <1>2

LEMMA FlattenTyped ==
  ASSUME NEW S, NEW s \in Seq(Seq(S))
  PROVE  FlattenSeq(s) \in Seq(S)
<1> DEFINE T == {n \in Nat : \A t \in Seq(Seq(S)) : Len(t) = n => FlattenSeq(t) \in Seq(S)}
<1>1. 0 \in T
  <2>1. ASSUME NEW t \in Seq(Seq(S)), Len(t) = 0 PROVE FlattenSeq(t) \in Seq(S)
    <3>1. t = <<>>
      BY <2>1
    <3>2. FlattenSeq(t) = <<>>
      BY <3>1, FlattenEmpty, Zenon
    <3>3. QED
      BY <3>2
  <2>2. QED
    BY <2>1
<1>2. ASSUME NEW n \in Nat, n \in T PROVE n + 1 \in T
  <2>1. ASSUME NEW t \in Seq(Seq(S)), Len(t) = n + 1 PROVE FlattenSeq(t) \in Seq(S)
    <3>1. PICK u \in Seq(Seq(S)), x \in Seq(S) : t = Append(u, x) /\ Len(u) = n
      <4> DEFINE R == Seq(S)
      <4>1. t \in Seq(R)
        OBVIOUS
      <4> HIDE DEF R
      <4>2. \E u \in Seq(R), x \in R : t = Append(u, x) /\ Len(u) = n
        BY <2>1, <4>1, SeqSplits
      <4>3. QED
        BY <4>2 DEF R
    <3>2. FlattenSeq(u) \in Seq(S)
      BY <1>2, <3>1
    <3>3. FlattenSeq(t) = FlattenSeq(u) \o x
      BY <3>1, FlattenAppend
    <3>4. QED
      BY <3>2, <3>3
  <2>2. QED
    BY <2>1
<1> HIDE DEF T
<1>3. Nat \subseteq T
  BY <1>1, <1>2, SetInduction
<1>4. Len(s) \in T
  BY <1>3
<1>5. QED
  BY <1>4 DEF T

-----------------------------------------------------------------------------
(* What a streaming client is shown.                                         *)

\* Kept of any context.
KeptOf(c) == FlattenSeq([i \in DOMAIN c |-> Visible(c[i])])

LEMMA ShownTyped ==
  ASSUME NEW part \in Parts, part.kind # "listing"
  PROVE  Shown(part) \in Seq(Messages)
<1>1. part.size \in Nat
  BY Bounds DEF Parts
<1>2. \A i \in 1 .. part.size : Token(part, i) \in Messages
  BY Bounds DEF Parts, Token, Messages
<1>3. QED
  BY <1>1, <1>2 DEF Shown

LEMMA VisibleTyped ==
  ASSUME NEW part \in Parts
  PROVE  Visible(part) \in Seq(Messages)
  BY ShownTyped DEF Visible

LEMMA VisiblesTyped ==
  ASSUME NEW c \in Seq(Parts)
  PROVE  [i \in DOMAIN c |-> Visible(c[i])] \in Seq(Seq(Messages))
<1>1. Len(c) \in Nat /\ DOMAIN c = 1 .. Len(c) /\ \A i \in 1 .. Len(c) : c[i] \in Parts
  OBVIOUS
<1>2. \A i \in 1 .. Len(c) : Visible(c[i]) \in Seq(Messages)
  BY <1>1, VisibleTyped
<1>3. QED
  BY <1>1, <1>2

LEMMA KeptTyped ==
  ASSUME NEW c \in Seq(Parts)
  PROVE  KeptOf(c) \in Seq(Messages)
  BY VisiblesTyped, FlattenTyped DEF KeptOf

LEMMA KeptAppend ==
  ASSUME NEW c \in Seq(Parts), NEW part \in Parts
  PROVE  KeptOf(Append(c, part)) = KeptOf(c) \o Visible(part)
<1> DEFINE d == Append(c, part)
           v == [i \in DOMAIN c |-> Visible(c[i])]
           w == [i \in DOMAIN d |-> Visible(d[i])]
<1>1. /\ Len(c) \in Nat /\ DOMAIN c = 1 .. Len(c) /\ DOMAIN d = 1 .. Len(c) + 1
      /\ d \in Seq(Parts)
      /\ \A i \in 1 .. Len(c) : d[i] = c[i]
      /\ d[Len(c) + 1] = part
  OBVIOUS
<1>2. v \in Seq(Seq(Messages)) /\ w \in Seq(Seq(Messages)) /\ Visible(part) \in Seq(Messages)
  BY <1>1, VisiblesTyped, VisibleTyped
<1> DEFINE R == Seq(Messages)
<1>3. /\ Len(v) = Len(c) /\ Len(w) = Len(c) + 1
      /\ \A i \in 1 .. Len(c) : v[i] = Visible(c[i])
      /\ \A i \in 1 .. Len(c) + 1 : w[i] = Visible(d[i])
  BY <1>1
<1>4. v \in Seq(R) /\ w \in Seq(R) /\ Visible(part) \in R
  BY <1>2
<1> HIDE DEF v, w, d, R
<1>5. w = Append(v, Visible(part))
  <2>1. Append(v, Visible(part)) \in Seq(R) /\ Len(Append(v, Visible(part))) = Len(c) + 1
    BY <1>3, <1>4
  <2>2. ASSUME NEW i \in 1 .. Len(c) + 1 PROVE w[i] = Append(v, Visible(part))[i]
    <3>1. CASE i \in 1 .. Len(c)
      BY <1>1, <1>3, <1>4, <3>1
    <3>2. CASE i = Len(c) + 1
      BY <1>1, <1>3, <1>4, <3>2
    <3>3. i \in 1 .. Len(c) \/ i = Len(c) + 1
      BY <1>1
    <3>4. QED
      BY <3>1, <3>2, <3>3
  <2>3. QED
    BY <1>3, <1>4, <2>1, <2>2, SeqEqual
<1>6. FlattenSeq(w) = FlattenSeq(v) \o Visible(part)
  BY <1>2, <1>5, FlattenAppend
<1>7. QED
  BY <1>6 DEF KeptOf, v, w, d

\* The inserts of a turn, one after the other.
LEMMA KeptInserts ==
  ASSUME NEW c \in Seq(Parts), NEW part \in Parts, part.size = 1, part.kind # "listing",
         NEW n \in Nat
  PROVE  KeptOf(c \o [i \in 1 .. n |-> part]) = KeptOf(c) \o [i \in 1 .. n |-> Token(part, 1)]
<1> DEFINE ins(k) == [i \in 1 .. k |-> part]
           tok(k) == [i \in 1 .. k |-> Token(part, 1)]
           T == {k \in Nat : KeptOf(c \o ins(k)) = KeptOf(c) \o tok(k)}
<1>1. KeptOf(c) \in Seq(Messages)
  BY KeptTyped
<1>2. Visible(part) = <<Token(part, 1)>>
  <2>1. Visible(part) = [i \in 1 .. 1 |-> Token(part, i)]
    BY DEF Visible, Shown
  <2>2. [i \in 1 .. 1 |-> Token(part, i)] = [i \in 1 .. 1 |-> Token(part, 1)]
    OBVIOUS
  <2>3. [i \in 1 .. 1 |-> Token(part, 1)] = <<Token(part, 1)>>
    OBVIOUS
  <2>4. QED
    BY <2>1, <2>2, <2>3
<1>3. Token(part, 1) \in Messages
  BY Bounds DEF Token, Parts, Messages
<1>4. ASSUME NEW k \in Nat
      PROVE  /\ ins(k) \in Seq(Parts) /\ tok(k) \in Seq(Messages)
             /\ ins(k + 1) = Append(ins(k), part)
             /\ tok(k + 1) = Append(tok(k), Token(part, 1))
  <2>1. /\ ins(k) \in Seq(Parts) /\ ins(k + 1) \in Seq(Parts)
        /\ Len(ins(k)) = k /\ Len(ins(k + 1)) = k + 1
    OBVIOUS
  <2>2. /\ tok(k) \in Seq(Messages) /\ tok(k + 1) \in Seq(Messages)
        /\ Len(tok(k)) = k /\ Len(tok(k + 1)) = k + 1
    BY <1>3
  <2>3. \A i \in 1 .. k + 1 : ins(k + 1)[i] = Append(ins(k), part)[i]
    OBVIOUS
  <2>4. \A i \in 1 .. k + 1 : tok(k + 1)[i] = Append(tok(k), Token(part, 1))[i]
    OBVIOUS
  <2>5. ins(k + 1) = Append(ins(k), part)
    <3>1. Append(ins(k), part) \in Seq(Parts) /\ Len(Append(ins(k), part)) = k + 1
      BY <2>1
    <3>2. QED
      BY <2>1, <2>3, <3>1, SeqEqual
  <2>6. tok(k + 1) = Append(tok(k), Token(part, 1))
    <3>1. /\ Append(tok(k), Token(part, 1)) \in Seq(Messages)
          /\ Len(Append(tok(k), Token(part, 1))) = k + 1
      BY <1>3, <2>2
    <3>2. QED
      BY <2>2, <2>4, <3>1, SeqEqual
  <2>7. QED
    BY <2>1, <2>2, <2>5, <2>6
<1>5. 0 \in T
  <2>1. ins(0) = <<>> /\ tok(0) = <<>>
    OBVIOUS
  <2>2. c \o <<>> = c /\ KeptOf(c) \o <<>> = KeptOf(c)
    BY <1>1
  <2> HIDE DEF ins, tok
  <2>3. QED
    BY <2>1, <2>2
<1>6. ASSUME NEW k \in Nat, k \in T PROVE k + 1 \in T
  <2> DEFINE a == ins(k)
             b == tok(k)
  <2>1. a \in Seq(Parts) /\ b \in Seq(Messages) /\ ins(k + 1) = Append(a, part)
        /\ tok(k + 1) = Append(b, Token(part, 1))
    BY <1>4
  <2>2. KeptOf(c \o a) = KeptOf(c) \o b
    BY <1>6
  <2> HIDE DEF a, b, ins, tok
  <2>3. c \o Append(a, part) = Append(c \o a, part) /\ c \o a \in Seq(Parts)
    BY <2>1
  <2>4. KeptOf(Append(c \o a, part)) = KeptOf(c \o a) \o <<Token(part, 1)>>
    BY <1>2, <2>3, KeptAppend
  <2>5. (KeptOf(c) \o b) \o <<Token(part, 1)>> = KeptOf(c) \o Append(b, Token(part, 1))
    BY <1>1, <1>3, <2>1
  <2>6. KeptOf(c \o ins(k + 1)) = KeptOf(c) \o tok(k + 1)
    BY <2>1, <2>2, <2>3, <2>4, <2>5
  <2>7. QED
    BY <2>6
<1> HIDE DEF T
<1>7. Nat \subseteq T
  BY <1>5, <1>6, SetInduction
<1>8. n \in T
  BY <1>7
<1>9. QED
  BY <1>8 DEF T

-----------------------------------------------------------------------------
(* What a streaming client sees: the messages that were sent are those of the *)
(* context, then those of the response that the task has not kept yet.        *)

Before == {"new", "queued", "dropped", "prompting"}
Listening == {"asking", "reading"}
Holding == InTurn \cup {"deciding"}
Ended == {"failed", "panicked"}

Latest(r) == streams[r][turn[r] + 1]
Relayed(r) == Part("response", turn[r], Latest(r).relayed)

\* What was sent and is not in the context yet: what the latest stream relayed,
\* its error if it had no token, or the response of the turn.
Unkept(r) ==
  IF pc[r] \in Listening
  THEN Shown(Relayed(r))
         \o (IF Latest(r).over /\ Latest(r).relayed = 0 THEN <<Answer("error")>> ELSE <<>>)
  ELSE IF pc[r] \in Holding THEN Shown(response[r]) ELSE <<>>

\* Only the latest stream may still be relayed, and only while the task listens;
\* when it was relayed whole, the task has yet to read it.
Streamed(r) ==
  /\ Len(streams[r]) = IF pc[r] \in Before THEN turn[r] ELSE turn[r] + 1
  /\ \A i \in DOMAIN streams[r] :
       streams[r][i].over \/ (pc[r] \in Listening /\ i = turn[r] + 1)
  /\ totals[r] = IF pc[r] \in Listening /\ Latest(r).over /\ Latest(r).relayed > 0
                 THEN <<Relayed(r)>> ELSE <<>>

Told(r) ==
  /\ pc[r] \in Ended => \E rest \in Seq(Messages) : sent[r] = Kept(r) \o rest
  /\ pc[r] \notin Ended => Streamed(r) /\ sent[r] = Kept(r) \o Unkept(r)
  /\ pc[r] \in Holding => response[r].kind = "response"

Asks(r) == request[r] # Continue /\ Streaming(r)

StreamInv == \A r \in Rounds : Asks(r) => Told(r)

ViewOf(r) == <<turn[r], context[r], streams[r], totals[r], sent[r]>>

LEMMA StreamTyped ==
  ASSUME TypeInv, NEW r \in Rounds
  PROVE  /\ turn[r] \in 0 .. MaxTurns /\ turn[r] \in Nat
         /\ context[r] \in Seq(Parts) /\ response[r] \in Parts
         /\ streams[r] \in Seq(Streams) /\ totals[r] \in Seq(Parts) /\ sent[r] \in Seq(Messages)
         /\ Kept(r) = KeptOf(context[r]) /\ Kept(r) \in Seq(Messages)
<1>1. /\ turn[r] \in 0 .. MaxTurns
      /\ context[r] \in Seq(Parts) /\ response[r] \in Parts
      /\ streams[r] \in Seq(Streams) /\ totals[r] \in Seq(Parts) /\ sent[r] \in Seq(Messages)
  BY DEF TypeInv, RoundTypes, StreamTypes
<1>2. Kept(r) = KeptOf(context[r])
  BY DEF Kept, KeptOf
<1>3. QED
  BY <1>1, <1>2, KeptTyped, Bounds

\* In a task that listens, the latest stream is there.
LEMMA LatestTyped ==
  ASSUME TypeInv, NEW r \in Rounds, Streamed(r), pc[r] \in Listening
  PROVE  /\ turn[r] + 1 \in DOMAIN streams[r] /\ Latest(r) \in Streams
         /\ Relayed(r) \in Parts /\ Relayed(r).kind = "response"
         /\ Relayed(r).size = Latest(r).relayed /\ Latest(r).relayed \in Nat
         /\ Shown(Relayed(r)) \in Seq(Messages)
<1>1. /\ turn[r] \in 0 .. MaxTurns /\ turn[r] \in Nat /\ streams[r] \in Seq(Streams)
      /\ pc[r] \notin Before
  BY StreamTyped DEF Listening, Before
<1>2. Len(streams[r]) = turn[r] + 1 /\ DOMAIN streams[r] = 1 .. turn[r] + 1
  BY <1>1 DEF Streamed
<1>3. turn[r] + 1 \in DOMAIN streams[r] /\ Latest(r) \in Streams
  BY <1>1, <1>2 DEF Latest
<1>4. Latest(r).relayed \in 0 .. MaxTokens /\ MaxTokens \in Nat /\ MaxCalls \in Nat
  BY <1>3, Bounds DEF Streams
<1>5. Latest(r).relayed \in 0 .. MaxTokens + MaxCalls + 2
  BY <1>4
<1>6. Relayed(r) \in Parts
  BY <1>1, <1>5, PartTyped DEF Relayed
<1>7. Relayed(r).kind = "response" /\ Relayed(r).size = Latest(r).relayed
  BY DEF Relayed, Part
<1>8. QED
  BY <1>3, <1>4, <1>6, <1>7, ShownTyped

LEMMA UnkeptTyped ==
  ASSUME TypeInv, NEW r \in Rounds, pc[r] \notin Ended, Told(r)
  PROVE  Unkept(r) \in Seq(Messages)
<1>1. CASE pc[r] \in Listening
  <2>1. Shown(Relayed(r)) \in Seq(Messages)
    BY <1>1, LatestTyped DEF Told
  <2>2. <<Answer("error")>> \in Seq(Messages) /\ <<>> \in Seq(Messages)
    BY AnswerTyped
  <2>3. QED
    BY <1>1, <2>1, <2>2 DEF Unkept
<1>2. CASE pc[r] \in Holding
  <2>1. response[r] \in Parts /\ response[r].kind # "listing" /\ pc[r] \notin Listening
    BY <1>2, StreamTyped DEF Told, Holding, InTurn, Listening
  <2>2. QED
    BY <1>2, <2>1, ShownTyped DEF Unkept
<1>3. CASE pc[r] \notin Listening \cup Holding
  BY <1>3 DEF Unkept
<1>4. QED
  BY <1>1, <1>2, <1>3

LEMMA OthersTold ==
  ASSUME StreamInv, NEW r \in Rounds, Asks(r)' => Told(r)',
         \A s \in Rounds : s # r =>
           UNCHANGED <<request[s], pc[s], response[s], turn[s], context[s], streams[s],
                       totals[s], sent[s]>>
  PROVE  StreamInv'
<1> SUFFICES ASSUME NEW s \in Rounds, s # r, Asks(s)' PROVE Told(s)'
  BY DEF StreamInv
<1>1. UNCHANGED <<request[s], pc[s], response[s], turn[s], context[s], streams[s],
                  totals[s], sent[s]>>
  OBVIOUS
<1>2. Told(s)
  BY <1>1 DEF StreamInv, Asks, Streaming
<1>3. Kept(s)' = Kept(s)
  BY <1>1 DEF Kept
<1>4. UNCHANGED <<Latest(s), Relayed(s), Unkept(s)>>
  BY <1>1 DEF Latest, Relayed, Unkept
<1>5. Streamed(s)' <=> Streamed(s)
  BY <1>1, <1>4 DEF Streamed
<1>6. QED
  BY <1>1, <1>2, <1>3, <1>4, <1>5 DEF Told

\* What a task that failed or panicked leaves is a beginning.
LEMMA EndedTold ==
  ASSUME TypeInv, NEW r \in Rounds, Told(r), NEW more \in Seq(Messages),
         sent'[r] = sent[r] \o more, context'[r] = context[r], pc'[r] \in Ended
  PROVE  Told(r)'
<1>1. PICK rest \in Seq(Messages) : sent[r] = Kept(r) \o rest
  <2>1. CASE pc[r] \in Ended
    BY <2>1 DEF Told
  <2>2. CASE pc[r] \notin Ended
    BY <2>2, UnkeptTyped DEF Told
  <2>3. QED
    BY <2>1, <2>2
<1>2. Kept(r) \in Seq(Messages) /\ Kept(r)' = Kept(r)
  BY StreamTyped DEF Kept
<1>3. sent'[r] = Kept(r)' \o (rest \o more) /\ rest \o more \in Seq(Messages)
  BY <1>1, <1>2
<1>4. pc'[r] \notin Holding
  BY DEF Ended, Holding, InTurn
<1>5. QED
  BY <1>3, <1>4 DEF Told

Settled == Updating \cup {"answering", "done"}

\* A step of the task that sends nothing and stays in the same phase.
LEMMA SamePhase ==
  ASSUME TypeInv, NEW r \in Rounds, Told(r), UNCHANGED <<ViewOf(r), response[r]>>,
         \/ pc[r] \in Before /\ pc'[r] \in Before
         \/ pc[r] \in Holding /\ pc'[r] \in Holding
         \/ pc[r] \in Settled /\ pc'[r] \in Settled
  PROVE  Told(r)'
<1>1. UNCHANGED <<turn[r], context[r], streams[r], totals[r], sent[r], response[r]>>
  BY DEF ViewOf
<1>2. /\ pc[r] \notin Listening \cup Ended /\ pc'[r] \notin Listening \cup Ended
      /\ pc[r] \in Before <=> pc'[r] \in Before
      /\ pc[r] \in Holding <=> pc'[r] \in Holding
  BY DEF Before, Holding, Settled, Updating, InTurn, Listening, Ended
<1>3. Kept(r)' = Kept(r) /\ Unkept(r)' = Unkept(r)
  BY <1>1, <1>2 DEF Kept, Unkept
<1>4. Streamed(r) => Streamed(r)'
  <2>1. Streamed(r) =>
          /\ Len(streams[r]) = IF pc[r] \in Before THEN turn[r] ELSE turn[r] + 1
          /\ \A i \in DOMAIN streams[r] : streams[r][i].over
          /\ totals[r] = <<>>
    BY <1>2 DEF Streamed
  <2>2. QED
    BY <1>1, <1>2, <2>1 DEF Streamed
<1>5. QED
  BY <1>1, <1>2, <1>3, <1>4 DEF Told

LEMMA Panics ==
  ASSUME TypeInv, NEW r \in Rounds, Told(r), UNCHANGED ViewOf(r), pc'[r] = "panicked"
  PROVE  Told(r)'
<1>1. sent'[r] = sent[r] \o <<>> /\ context'[r] = context[r]
  BY StreamTyped DEF ViewOf
<1>2. <<>> \in Seq(Messages) /\ pc'[r] \in Ended
  BY DEF Ended
<1>3. QED
  BY <1>1, <1>2, EndedTold

LEMMA FailTold ==
  ASSUME TypeInv, NEW r \in Rounds, Asks(r) => Told(r), Fail(r), UNCHANGED <<request, context>>
  PROVE  /\ Asks(r)' => Told(r)'
         /\ \A s \in Rounds : s # r => pc'[s] = pc[s] /\ sent'[s] = sent[s]
<1>1. /\ pc \in [Rounds -> Labels] /\ sent \in [Rounds -> Seq(Messages)]
      /\ <<Answer("error")>> \in Seq(Messages)
  BY AnswerTyped DEF TypeInv, RoundTypes, StreamTypes
<1>2. /\ pc'[r] = "failed" /\ sent'[r] = sent[r] \o <<Answer("error")>>
      /\ \A s \in Rounds : s # r => pc'[s] = pc[s] /\ sent'[s] = sent[s]
  BY <1>1 DEF Fail, Goto, Send
<1>3. ASSUME Asks(r) PROVE Told(r)'
  BY <1>1, <1>2, <1>3, EndedTold DEF Ended
<1>4. QED
  BY <1>2, <1>3 DEF Asks, Streaming

\* The listing of the working directory is not shown.
LEMMA KeptListing ==
  ASSUME NEW c \in Seq(Parts), NEW r \in Rounds, turn[r] \in 0 .. MaxTurns
  PROVE  KeptOf(c \o Listing(r)) = KeptOf(c)
<1> DEFINE part == Part("listing", turn[r], 1)
<1>1. part \in Parts
  BY SmallPartTyped
<1>2. Visible(part) = <<>>
  BY DEF Visible, Part
<1> HIDE DEF part
<1>3. Listing(r) = <<part>> \/ Listing(r) = <<>>
  BY DEF Listing, part
<1>4. c \o <<part>> = Append(c, part) /\ c \o <<>> = c
  BY <1>1
<1>5. KeptOf(Append(c, part)) = KeptOf(c) \o <<>> /\ KeptOf(c) \in Seq(Messages)
  BY <1>1, <1>2, KeptAppend, KeptTyped
<1>6. KeptOf(Append(c, part)) = KeptOf(c)
  BY <1>5
<1>7. QED
  BY <1>3, <1>4, <1>6

LEMMA PromptTold ==
  ASSUME TypeInv, NEW r \in Rounds, Asks(r), Told(r), pc[r] = "prompting",
         context'[r] = context[r] \o Listing(r), UNCHANGED <<turn[r], totals[r], sent[r]>>,
         pc'[r] = "asking",
         streams'[r] = Append(streams[r], [state |-> "connecting", piped |-> 0, relayed |-> 0,
                                           over |-> FALSE])
  PROVE  Told(r)'
<1> DEFINE stream == [state |-> "connecting", piped |-> 0, relayed |-> 0, over |-> FALSE]
<1>1. stream \in Streams /\ stream.relayed = 0 /\ stream.over = FALSE
  BY Bounds DEF Streams
<1> HIDE DEF stream
<1>2. /\ turn[r] \in Nat /\ turn[r] \in 0 .. MaxTurns /\ streams[r] \in Seq(Streams)
      /\ sent[r] \in Seq(Messages) /\ context[r] \in Seq(Parts) /\ Kept(r) = KeptOf(context[r])
      /\ Kept(r) \in Seq(Messages)
  BY StreamTyped
<1>3. /\ Len(streams[r]) = turn[r] /\ totals[r] = <<>>
      /\ \A i \in DOMAIN streams[r] : streams[r][i].over
      /\ sent[r] = Kept(r) \o <<>>
  BY DEF Told, Streamed, Unkept, Before, Ended, Listening, Holding, InTurn
<1>4. /\ Len(streams'[r]) = turn[r] + 1 /\ streams'[r][turn[r] + 1] = stream
      /\ \A i \in DOMAIN streams'[r] : i = turn[r] + 1 \/ streams'[r][i].over
  BY <1>1, <1>2, <1>3 DEF stream
<1>5. Latest(r)' = stream
  BY <1>4 DEF Latest
<1>6. Shown(Relayed(r))' = <<>>
  <2>1. Relayed(r)' = Part("response", turn[r], 0)
    BY <1>1, <1>5 DEF Relayed
  <2>2. Shown(Part("response", turn[r], 0)) = <<>>
    BY DEF Shown, Part
  <2>3. QED
    BY <2>1, <2>2
<1>7. Kept(r)' = Kept(r)
  <2>1. KeptOf(context[r] \o Listing(r)) = KeptOf(context[r])
    BY <1>2, KeptListing
  <2>2. Kept(r)' = KeptOf(context'[r])
    BY DEF Kept, KeptOf
  <2>3. QED
    BY <1>2, <2>1, <2>2
<1>8. Unkept(r)' = <<>>
  <2>1. Unkept(r)' = Shown(Relayed(r))' \o <<>>
    BY <1>1, <1>5 DEF Unkept, Listening
  <2>2. QED
    BY <1>6, <2>1
<1>9. Streamed(r)'
  BY <1>1, <1>3, <1>4, <1>5 DEF Streamed, Before, Listening
<1>10. QED
  BY <1>3, <1>7, <1>8, <1>9 DEF Told, Ended, Holding, InTurn

LEMMA ReadTold ==
  ASSUME TypeInv, NEW r \in Rounds, Asks(r), Told(r), Read(r)
  PROVE  Told(r)'
<1>1. /\ pc[r] = "reading" /\ totals[r] # <<>> /\ UNCHANGED <<turn, context, streams, sent>>
      /\ pc'[r] = "deciding" /\ response'[r] = Head(totals[r]) /\ totals'[r] = Tail(totals[r])
  BY DEF Read, Goto, TypeInv, RoundTypes, StreamTypes
<1>2. Streamed(r) /\ sent[r] = Kept(r) \o Unkept(r)
  BY <1>1 DEF Told, Ended
<1>3. /\ Latest(r).over /\ Latest(r).relayed > 0 /\ totals[r] = <<Relayed(r)>>
  BY <1>1, <1>2 DEF Streamed
<1>4. /\ Relayed(r).kind = "response" /\ Shown(Relayed(r)) \in Seq(Messages)
      /\ Latest(r).relayed \in Nat
  BY <1>1, <1>2, LatestTyped DEF Listening
<1>5. Unkept(r) = Shown(Relayed(r))
  <2>1. Unkept(r) = Shown(Relayed(r)) \o <<>>
    BY <1>1, <1>3, <1>4 DEF Unkept, Listening
  <2>2. QED
    BY <1>4, <2>1
<1>6. response'[r] = Relayed(r) /\ totals'[r] = <<>>
  BY <1>1, <1>3
<1>7. Unkept(r)' = Shown(Relayed(r)) /\ Kept(r)' = Kept(r)
  BY <1>1, <1>6 DEF Unkept, Kept, Listening, Holding
<1>8. \A i \in DOMAIN streams[r] : streams[r][i].over
  BY <1>2, <1>3 DEF Streamed, Latest
<1>9. Streamed(r)'
  <2>1. Len(streams[r]) = turn[r] + 1
    BY <1>1, <1>2 DEF Streamed, Before
  <2>2. QED
    BY <1>1, <1>6, <1>8, <2>1 DEF Streamed, Before, Listening
<1>10. QED
  BY <1>1, <1>2, <1>4, <1>5, <1>6, <1>7, <1>9 DEF Told, Ended

LEMMA DecideTold ==
  ASSUME TypeInv, NEW r \in Rounds, Asks(r), Told(r), Decide(r)
  PROVE  Told(r)'
<1>1. /\ pc[r] = "deciding" /\ UNCHANGED <<turn, streams, totals, sent, response>>
      /\ pc \in [Rounds -> Labels]
      /\ context \in [Rounds -> Seq(Parts)]
  BY DEF Decide, streamVars, TypeInv, RoundTypes
<1>2. CASE Goto(r, "calling") /\ UNCHANGED context
  <2>1. pc'[r] = "calling"
    BY <1>1, <1>2 DEF Goto
  <2>2. QED
    BY <1>1, <1>2, <2>1, SamePhase DEF ViewOf, Holding, InTurn
<1>3. CASE /\ context' = [context EXCEPT ![r] = Append(@, response[r])]
           /\ \E l \in {"answering", "writing"} : Goto(r, l)
  <2>1. context'[r] = Append(context[r], response[r]) /\ pc'[r] \in {"answering", "writing"}
    BY <1>1, <1>3 DEF Goto
  <2>2. /\ context[r] \in Seq(Parts) /\ response[r] \in Parts /\ response[r].kind = "response"
        /\ Kept(r) = KeptOf(context[r]) /\ Kept(r)' = KeptOf(context'[r])
        /\ Kept(r) \in Seq(Messages) /\ Shown(response[r]) \in Seq(Messages)
    <3>1. /\ context[r] \in Seq(Parts) /\ response[r] \in Parts /\ response[r].kind = "response"
          /\ Kept(r) = KeptOf(context[r]) /\ Kept(r) \in Seq(Messages)
      BY <1>1, StreamTyped DEF Told, Holding
    <3>2. QED
      BY <3>1, ShownTyped DEF Kept, KeptOf
  <2>3. Kept(r)' = Kept(r) \o Shown(response[r])
    BY <2>1, <2>2, KeptAppend DEF Visible
  <2>4. sent[r] = Kept(r) \o Shown(response[r]) /\ Streamed(r)
    BY <1>1 DEF Told, Unkept, Ended, Listening, Holding
  <2>5. Unkept(r)' = <<>>
    BY <2>1 DEF Unkept, Listening, Holding, InTurn
  <2>6. sent'[r] = Kept(r)' \o <<>>
    BY <1>1, <2>2, <2>3, <2>4
  <2>7. Streamed(r)'
    BY <1>1, <2>1, <2>4 DEF Streamed, Before, Listening
  <2>8. QED
    BY <2>1, <2>5, <2>6, <2>7 DEF Told, Ended, Holding, InTurn
<1>4. QED
  BY <1>2, <1>3 DEF Decide

LEMMA GetResponseTold ==
  ASSUME TypeInv, NEW r \in Rounds, Asks(r), Told(r), pc[r] = "asking", pc'[r] = "reading",
         UNCHANGED ViewOf(r)
  PROVE  Told(r)'
<1>1. UNCHANGED <<turn[r], context[r], streams[r], totals[r], sent[r]>>
  BY DEF ViewOf
<1>2. Streamed(r) /\ sent[r] = Kept(r) \o Unkept(r)
  BY DEF Told, Ended
<1>3. UNCHANGED <<Latest(r), Relayed(r), Kept(r)>>
  BY <1>1 DEF Latest, Relayed, Kept
<1>4. Unkept(r)' = Unkept(r)
  BY <1>1, <1>3 DEF Unkept, Listening
<1>5. Streamed(r)'
  BY <1>1, <1>2, <1>3 DEF Streamed, Listening, Before
<1>6. QED
  BY <1>1, <1>2, <1>3, <1>4, <1>5 DEF Told, Ended, Holding, InTurn

\* What a turn adds to the context was sent, the response first.
LEMMA EndTurnTold ==
  ASSUME TypeInv, NEW r \in Rounds, Asks(r), Told(r), EndTurn(r)
  PROVE  Told(r)'
<1> DEFINE n == Cardinality(Tools(r) \ {"other"})
           part == Part("insert", turn[r], 1)
           c1 == Append(context[r], response[r])
           c2 == Append(c1, Outputs(r))
           tokens == [i \in DOMAIN Inserts(r) |-> Token(Inserts(r)[i], 1)]
<1>1. /\ pc[r] \in Holding /\ pc[r] \notin Before \cup Listening \cup Ended
      /\ pc[r] \in Handled
  BY DEF EndTurn, Holding, InTurn, Before, Listening, Ended, Handled, Labels
<1>2. /\ context[r] \in Seq(Parts) /\ response[r] \in Parts /\ sent[r] \in Seq(Messages)
      /\ turn[r] \in Nat /\ turn[r] \in 0 .. MaxTurns /\ Kept(r) \in Seq(Messages)
      /\ Kept(r) = KeptOf(context[r])
  BY StreamTyped
<1>3. /\ turn'[r] = turn[r] + 1 /\ pc'[r] = "prompting"
      /\ context'[r] = c1 \o <<Outputs(r)>> \o Inserts(r)
      /\ sent'[r] = sent[r] \o (Shown(Outputs(r)) \o tokens)
      /\ UNCHANGED <<streams, totals>>
  BY DEF EndTurn, Goto, Send, Asks, streamVars, TypeInv, RoundTypes, StreamTypes
<1>4. request[r] \in Prompts
  BY <1>1 DEF TypeInv, RoundTypes, Places
<1>5. /\ Outputs(r) \in Parts /\ Shown(Outputs(r)) \in Seq(Messages)
      /\ Inserts(r) \in Seq(Parts) /\ tokens \in Seq(Messages)
  BY <1>4, InsertsTyped, OutputsTyped
<1>6. n \in Nat
  <2>1. Tools(r) \ {"other"} \subseteq {"agent", "files"}
    BY <1>4 DEF Tools, Prompts, ToolNames
  <2>2. IsFiniteSet({"agent"}) /\ {"agent", "files"} = {"agent"} \cup {"files"}
    BY FS_Singleton
  <2>3. IsFiniteSet({"agent"} \cup {"files"})
    BY <2>2, FS_AddElement
  <2>4. QED
    BY <2>1, <2>2, <2>3, FS_Subset, FS_CardinalityType
<1>7. part \in Parts /\ part.kind # "listing" /\ part.size = 1
  BY <1>2, SmallPartTyped DEF Part
<1> HIDE DEF n, part
<1>8. Inserts(r) = [i \in 1 .. n |-> part] /\ tokens = [i \in 1 .. n |-> Token(part, 1)]
  <2>1. Inserts(r) = [i \in 1 .. n |-> part]
    BY DEF Inserts, n, part
  <2>2. DOMAIN Inserts(r) = 1 .. n /\ \A i \in 1 .. n : Inserts(r)[i] = part
    BY <2>1
  <2>3. QED
    BY <2>1, <2>2
<1> HIDE DEF tokens
<1>9. c1 \in Seq(Parts) /\ c2 \in Seq(Parts) /\ c1 \o <<Outputs(r)>> = c2
  BY <1>2, <1>5
<1>10. response[r].kind = "response" /\ Shown(response[r]) \in Seq(Messages)
  <2>1. response[r].kind = "response"
    BY <1>1 DEF Told
  <2>2. QED
    BY <1>2, <2>1, ShownTyped
<1>11. KeptOf(c1) = Kept(r) \o Shown(response[r])
  BY <1>2, <1>10, KeptAppend DEF Visible
<1>12. Outputs(r).kind = "outputs"
  BY DEF Outputs, Part
<1>13. KeptOf(c2) = KeptOf(c1) \o Shown(Outputs(r))
  BY <1>5, <1>9, <1>12, KeptAppend DEF Visible
<1> HIDE DEF c2
<1>14. KeptOf(c2 \o Inserts(r)) = KeptOf(c2) \o tokens
  BY <1>6, <1>7, <1>8, <1>9, KeptInserts
<1>15. sent[r] = Kept(r) \o Shown(response[r]) /\ Streamed(r)
  BY <1>1 DEF Told, Unkept
<1>16. sent'[r] = Kept(r)'
  <2>1. Kept(r)' = KeptOf(c2) \o tokens
    BY <1>3, <1>9, <1>14 DEF Kept, KeptOf
  <2>2. sent'[r] = (Kept(r) \o Shown(response[r])) \o (Shown(Outputs(r)) \o tokens)
    BY <1>3, <1>15
  <2>3. KeptOf(c2) = (Kept(r) \o Shown(response[r])) \o Shown(Outputs(r))
    BY <1>11, <1>13
  <2> HIDE DEF c1
  <2>4. QED
    BY <1>2, <1>5, <1>10, <2>1, <2>2, <2>3
<1>17. sent'[r] = Kept(r)' \o Unkept(r)'
  <2>1. Unkept(r)' = <<>>
    BY <1>3 DEF Unkept, Listening, Holding, InTurn
  <2>2. sent'[r] \in Seq(Messages)
    BY <1>2, <1>3, <1>5
  <2>3. QED
    BY <1>16, <2>1, <2>2
<1>18. Streamed(r)'
  <2>1. /\ Len(streams[r]) = turn[r] + 1
        /\ \A i \in DOMAIN streams[r] : streams[r][i].over
        /\ totals[r] = <<>>
    BY <1>1, <1>15 DEF Streamed
  <2>2. QED
    BY <1>3, <2>1 DEF Streamed, Before, Listening
<1>19. QED
  BY <1>3, <1>17, <1>18 DEF Told, Ended, Holding, InTurn

\* The backend's task changes nothing of what the client sees.
LEMMA StreamTold ==
  ASSUME TypeInv, StreamInv, NEW r \in Rounds, NEW i, NEW new,
         streams' = [streams EXCEPT ![r][i] = new],
         i \in DOMAIN streams[r] => /\ new.relayed = streams[r][i].relayed
                                    /\ new.over = streams[r][i].over,
         UNCHANGED <<request, pc, response, turn, context, totals, sent>>
  PROVE  StreamInv'
<1>1. streams \in [Rounds -> Seq(Streams)]
  BY DEF TypeInv, StreamTypes
<1>2. /\ streams'[r] = [streams[r] EXCEPT ![i] = new]
      /\ \A s \in Rounds : s # r => streams'[s] = streams[s]
  BY <1>1
<1>3. /\ Len(streams'[r]) = Len(streams[r]) /\ DOMAIN streams'[r] = DOMAIN streams[r]
      /\ \A k \in DOMAIN streams[r] : /\ streams'[r][k].relayed = streams[r][k].relayed
                                      /\ streams'[r][k].over = streams[r][k].over
  <2> DEFINE s == streams[r]
             t == [s EXCEPT ![i] = new]
  <2>1. s \in Seq(Streams) /\ t = streams'[r]
    BY <1>1, <1>2
  <2> HIDE DEF s
  <2>2. Len(t) = Len(s) /\ DOMAIN t = DOMAIN s
    BY <2>1
  <2>3. \A k \in DOMAIN s : t[k] = IF k = i THEN new ELSE s[k]
    BY <2>1
  <2>4. QED
    BY <2>1, <2>2, <2>3 DEF s
<1>4. ASSUME Asks(r), Told(r) PROVE Told(r)'
  <2>1. Kept(r)' = Kept(r)
    BY DEF Kept
  <2>2. CASE pc[r] \in Ended
    BY <1>4, <2>1, <2>2 DEF Told, Ended, Holding, InTurn
  <2>3. CASE pc[r] \notin Ended
    <3>1. Streamed(r) /\ sent[r] = Kept(r) \o Unkept(r)
      BY <1>4, <2>3 DEF Told
    <3>2. pc[r] \in Listening => /\ Latest(r)'.relayed = Latest(r).relayed
                                 /\ Latest(r)'.over = Latest(r).over
      BY <1>3, <3>1, LatestTyped DEF Latest
    <3>3. pc[r] \in Listening => Relayed(r)' = Relayed(r)
      BY <3>2 DEF Relayed
    <3>4. Unkept(r)' = Unkept(r)
      BY <3>2, <3>3 DEF Unkept
    <3>5. Streamed(r)'
      BY <1>3, <3>1, <3>2, <3>3 DEF Streamed
    <3>6. QED
      BY <1>4, <2>1, <2>3, <3>1, <3>4, <3>5 DEF Told
  <2>4. QED
    BY <2>2, <2>3
<1>5. QED
  BY <1>2, <1>4, OthersTold DEF Asks, Streaming, StreamInv

LEMMA SentGrows ==
  ASSUME TypeInv, NEW r \in Rounds, NEW m, Send(r, m)
  PROVE  sent'[r] = sent[r] \o m /\ \A s \in Rounds : s # r => sent'[s] = sent[s]
  BY DEF TypeInv, StreamTypes, Send

\* A token extends what is shown of its response.
LEMMA ShownGrows ==
  ASSUME NEW t, NEW n \in Nat
  PROVE  LET part == Part("response", t, n)
         IN  Shown(Part("response", t, n + 1)) = Shown(part) \o <<Token(part, n + 1)>>
<1> DEFINE part == Part("response", t, n)
           next == Part("response", t, n + 1)
           token(i) == [kind |-> "response", turn |-> t, at |-> i]
<1>1. /\ Shown(part) = [i \in 1 .. n |-> token(i)]
      /\ Shown(next) = [i \in 1 .. n + 1 |-> token(i)]
      /\ Token(part, n + 1) = token(n + 1)
  BY DEF Shown, Part, Token
<1> HIDE DEF part, next, token
<1>2. [i \in 1 .. n + 1 |-> token(i)] = [i \in 1 .. n |-> token(i)] \o <<token(n + 1)>>
  <2> DEFINE all == [i \in 1 .. n + 1 |-> token(i)]
             first == [i \in 1 .. n |-> token(i)]
             S == {token(i) : i \in 1 .. n + 1}
  <2>1. all \in Seq(S) /\ first \in Seq(S) /\ <<token(n + 1)>> \in Seq(S)
        /\ Len(all) = n + 1 /\ Len(first) = n
    <3>1. \A i \in 1 .. n + 1 : token(i) \in S
      OBVIOUS
    <3> HIDE DEF S
    <3>2. n + 1 \in 1 .. n + 1 /\ \A i \in 1 .. n : i \in 1 .. n + 1
      OBVIOUS
    <3>3. QED
      BY <3>1, <3>2
  <2> HIDE DEF S
  <2>2. first \o <<token(n + 1)>> \in Seq(S) /\ Len(first \o <<token(n + 1)>>) = n + 1
    BY <2>1
  <2>3. \A i \in 1 .. n + 1 : (first \o <<token(n + 1)>>)[i] = all[i]
    <3>1. ASSUME NEW i \in 1 .. n PROVE (first \o <<token(n + 1)>>)[i] = all[i]
      BY <2>1
    <3>2. (first \o <<token(n + 1)>>)[n + 1] = all[n + 1]
      BY <2>1
    <3>3. QED
      BY <3>1, <3>2
  <2>4. QED
    BY <2>1, <2>2, <2>3, SeqEqual
<1>3. QED
  BY <1>1, <1>2 DEF part, next

\* The messages of a relay.
LEMMA RelayTyped ==
  ASSUME TypeInv, NEW r \in Rounds, NEW i \in DOMAIN streams[r], Relay(r, i)
  PROVE  LET stream == streams[r][i]
             part == Part("response", i - 1, stream.relayed)
         IN  /\ stream \in Streams /\ i \in Nat /\ i - 1 \in 0 .. MaxTurns
             /\ stream.piped > 0 => <<Token(part, stream.relayed + 1)>> \in Seq(Messages)
<1> USE Bounds
<1> DEFINE stream == streams[r][i]
           part == Part("response", i - 1, stream.relayed)
<1>1. /\ stream \in Streams /\ stream.piped + stream.relayed <= MaxTokens
      /\ i - 1 \in 0 .. MaxTurns /\ i \in Nat
  <2>1. streams[r] \in Seq(Streams) /\ turn[r] \in 0 .. MaxTurns
    BY DEF TypeInv, RoundTypes, StreamTypes
  <2>2. i \in 1 .. Len(streams[r]) /\ Len(streams[r]) \in Nat /\ Len(streams[r]) <= turn[r] + 1
    BY <2>1 DEF TypeInv, Counts
  <2>3. QED
    BY <2>1, <2>2 DEF TypeInv, Piped
<1>2. ASSUME stream.piped > 0 PROVE Token(part, stream.relayed + 1) \in Messages
  BY <1>1, <1>2 DEF Token, Part, Messages, Streams
<1>3. QED
  BY <1>1, <1>2

LEMMA RelayTold ==
  ASSUME TypeInv, NEW r \in Rounds, NEW i \in DOMAIN streams[r], Asks(r), Told(r), Relay(r, i)
  PROVE  Told(r)'
<1> DEFINE stream == streams[r][i]
           part == Part("response", i - 1, stream.relayed)
<1>1. /\ stream \in Streams /\ i \in Nat /\ i - 1 \in 0 .. MaxTurns
      /\ stream.piped > 0 => <<Token(part, stream.relayed + 1)>> \in Seq(Messages)
  BY RelayTyped
<1>2. /\ streams[r] \in Seq(Streams) /\ totals[r] \in Seq(Parts) /\ sent[r] \in Seq(Messages)
      /\ turn[r] \in Nat /\ Kept(r) \in Seq(Messages)
      /\ streams \in [Rounds -> Seq(Streams)] /\ totals \in [Rounds -> Seq(Parts)]
      /\ sent \in [Rounds -> Seq(Messages)]
  BY StreamTyped DEF TypeInv, StreamTypes
<1>3. /\ UNCHANGED <<request, pc, turn, context, response>> /\ ~stream.over
      /\ Kept(r)' = Kept(r)
  BY DEF Relay, roundVars, Kept
<1>4. /\ stream.piped \in Nat /\ stream.relayed \in Nat /\ stream.over \in BOOLEAN
      /\ <<Answer("error")>> \in Seq(Messages) /\ <<>> \in Seq(Messages)
  BY <1>1, AnswerTyped, Bounds DEF Streams
<1>5. CASE /\ stream.piped > 0
           /\ streams' = [streams EXCEPT ![r][i].piped = @ - 1, ![r][i].relayed = @ + 1]
           /\ Send(r, <<Token(part, stream.relayed + 1)>>)
           /\ UNCHANGED totals
  <2> DEFINE m == <<Token(part, stream.relayed + 1)>>
  <2>1. sent'[r] = sent[r] \o m /\ m \in Seq(Messages)
    BY <1>1, <1>5, SentGrows
  <2>2. CASE pc[r] \in Ended
    BY <1>3, <2>1, <2>2, EndedTold
  <2>3. CASE pc[r] \notin Ended
    <3>1. Streamed(r) /\ sent[r] = Kept(r) \o Unkept(r)
      BY <2>3 DEF Told
    <3>2. pc[r] \in Listening /\ i = turn[r] + 1 /\ stream = Latest(r)
      BY <1>3, <3>1 DEF Streamed, Latest
    <3>3. part = Relayed(r)
      BY <1>2, <3>2 DEF Relayed
    <3>4. /\ Len(streams'[r]) = Len(streams[r]) /\ DOMAIN streams'[r] = DOMAIN streams[r]
          /\ \A k \in DOMAIN streams[r] : k # i => streams'[r][k] = streams[r][k]
          /\ streams'[r][i] = [stream EXCEPT !.piped = stream.piped - 1,
                                             !.relayed = stream.relayed + 1]
      BY <1>2, <1>5
    <3>5. Latest(r)'.relayed = stream.relayed + 1 /\ Latest(r)'.over = FALSE
      <4>1. Latest(r)' = [stream EXCEPT !.piped = stream.piped - 1,
                                        !.relayed = stream.relayed + 1]
        BY <1>3, <3>2, <3>4 DEF Latest
      <4>2. QED
        BY <1>1, <1>3, <1>4, <4>1 DEF Streams
    <3>6. Relayed(r)' = Part("response", turn[r], stream.relayed + 1)
      BY <1>3, <3>5 DEF Relayed
    <3>7. Relayed(r) = Part("response", turn[r], stream.relayed)
      BY <3>2 DEF Relayed
    <3>8. Shown(Relayed(r))' = Shown(Relayed(r)) \o m
      <4>1. Shown(Part("response", turn[r], stream.relayed + 1))
              = Shown(Part("response", turn[r], stream.relayed))
                  \o <<Token(Part("response", turn[r], stream.relayed), stream.relayed + 1)>>
        BY <1>4, ShownGrows
      <4>2. Shown(Relayed(r))' = Shown(Part("response", turn[r], stream.relayed + 1))
        BY <3>6
      <4>3. QED
        BY <3>3, <3>7, <4>1, <4>2
    <3>9. Shown(Relayed(r)) \in Seq(Messages)
      BY <3>1, <3>2, LatestTyped
    <3>10. Unkept(r) = Shown(Relayed(r))
      <4>1. Unkept(r) = Shown(Relayed(r)) \o <<>>
        BY <1>3, <3>2 DEF Unkept
      <4>2. QED
        BY <3>9, <4>1
    <3>11. Unkept(r)' = Shown(Relayed(r)) \o m
      <4>1. Unkept(r)' = Shown(Relayed(r))' \o <<>>
        BY <1>3, <3>2, <3>5 DEF Unkept
      <4>2. Unkept(r)' = (Shown(Relayed(r)) \o m) \o <<>>
        BY <3>8, <4>1
      <4>3. Shown(Relayed(r)) \o m \in Seq(Messages)
        BY <2>1, <3>9
      <4>4. QED
        BY <4>2, <4>3
    <3>12. sent'[r] = Kept(r)' \o Unkept(r)'
      <4> HIDE DEF m
      <4>1. sent'[r] = (Kept(r) \o Shown(Relayed(r))) \o m
        BY <2>1, <3>1, <3>10
      <4>2. QED
        BY <1>2, <1>3, <2>1, <3>9, <3>11, <4>1
    <3>13. Streamed(r)'
      <4>1. totals[r] = <<>> /\ totals'[r] = <<>>
        BY <1>3, <1>5, <3>1, <3>2 DEF Streamed
      <4>2. QED
        BY <1>3, <3>1, <3>2, <3>4, <3>5, <4>1 DEF Streamed
    <3>14. QED
      BY <1>3, <2>3, <3>2, <3>12, <3>13 DEF Told, Listening, Holding, InTurn
  <2>4. QED
    BY <2>2, <2>3
<1>6. CASE /\ stream.piped = 0 /\ stream.state = "closed"
           /\ streams' = [streams EXCEPT ![r][i].over = TRUE]
           /\ IF stream.relayed = 0
              THEN Send(r, <<Answer("error")>>) /\ UNCHANGED totals
              ELSE totals' = [totals EXCEPT ![r] = Append(@, part)] /\ UNCHANGED sent
  <2> DEFINE m == IF stream.relayed = 0 THEN <<Answer("error")>> ELSE <<>>
  <2>1. sent'[r] = sent[r] \o m /\ m \in Seq(Messages)
    <3>1. CASE stream.relayed = 0
      BY <1>4, <1>6, <3>1, SentGrows
    <3>2. CASE stream.relayed # 0
      <4>1. sent'[r] = sent[r] /\ sent[r] \o <<>> = sent[r]
        BY <1>2, <1>6, <3>2
      <4>2. QED
        BY <1>4, <3>2, <4>1
    <3>3. QED
      BY <3>1, <3>2
  <2>2. CASE pc[r] \in Ended
    BY <1>3, <2>1, <2>2, EndedTold
  <2>3. CASE pc[r] \notin Ended
    <3>1. Streamed(r) /\ sent[r] = Kept(r) \o Unkept(r)
      BY <2>3 DEF Told
    <3>2. pc[r] \in Listening /\ i = turn[r] + 1 /\ stream = Latest(r)
      BY <1>3, <3>1 DEF Streamed, Latest
    <3>3. part = Relayed(r)
      BY <1>2, <3>2 DEF Relayed
    <3>4. /\ Len(streams'[r]) = Len(streams[r]) /\ DOMAIN streams'[r] = DOMAIN streams[r]
          /\ \A k \in DOMAIN streams[r] : k # i => streams'[r][k] = streams[r][k]
          /\ streams'[r][i] = [stream EXCEPT !.over = TRUE]
      BY <1>2, <1>6
    <3>5. Latest(r)'.relayed = stream.relayed /\ Latest(r)'.over = TRUE
      <4>1. Latest(r)' = [stream EXCEPT !.over = TRUE]
        BY <1>3, <3>2, <3>4 DEF Latest
      <4>2. QED
        BY <1>1, <1>3, <1>4, <4>1 DEF Streams
    <3>6. Relayed(r)' = Relayed(r)
      BY <1>3, <3>2, <3>5 DEF Relayed
    <3>7. Shown(Relayed(r)) \in Seq(Messages)
      BY <3>1, <3>2, LatestTyped
    <3>8. Unkept(r) = Shown(Relayed(r))
      <4>1. Unkept(r) = Shown(Relayed(r)) \o <<>>
        BY <1>3, <3>2 DEF Unkept
      <4>2. QED
        BY <3>7, <4>1
    <3>9. Unkept(r)' = Shown(Relayed(r)) \o m
      BY <1>3, <3>2, <3>5, <3>6 DEF Unkept
    <3>10. sent'[r] = Kept(r)' \o Unkept(r)'
      <4> HIDE DEF m
      <4>1. sent'[r] = (Kept(r) \o Shown(Relayed(r))) \o m
        BY <2>1, <3>1, <3>8
      <4>2. QED
        BY <1>2, <1>3, <2>1, <3>7, <3>9, <4>1
    <3>11. totals'[r] = IF stream.relayed > 0 THEN <<Relayed(r)>> ELSE <<>>
      <4>1. totals[r] = <<>>
        BY <1>3, <3>1, <3>2 DEF Streamed
      <4>2. CASE stream.relayed = 0
        BY <1>6, <4>1, <4>2
      <4>3. CASE stream.relayed # 0
        <5>1. totals' = [totals EXCEPT ![r] = Append(totals[r], part)]
          BY <1>6, <4>3
        <5> HIDE DEF part
        <5>2. totals'[r] = Append(<<>>, part)
          BY <1>2, <4>1, <5>1
        <5>3. totals'[r] = <<Relayed(r)>>
          BY <3>3, <5>2
        <5>4. QED
          BY <1>4, <4>3, <5>3
      <4>4. QED
        BY <4>2, <4>3
    <3>12. Streamed(r)'
      <4>1. Len(streams'[r]) = IF pc'[r] \in Before THEN turn'[r] ELSE turn'[r] + 1
        BY <1>3, <3>1, <3>4 DEF Streamed
      <4>2. \A k \in DOMAIN streams'[r] :
              streams'[r][k].over \/ (pc'[r] \in Listening /\ k = turn'[r] + 1)
        BY <1>3, <3>1, <3>2, <3>4 DEF Streamed
      <4>3. totals'[r] = IF pc'[r] \in Listening /\ Latest(r)'.over /\ Latest(r)'.relayed > 0
                         THEN <<Relayed(r)>>' ELSE <<>>
        BY <1>3, <3>2, <3>5, <3>6, <3>11
      <4>4. QED
        BY <4>1, <4>2, <4>3 DEF Streamed
    <3>13. QED
      BY <1>3, <2>3, <3>2, <3>10, <3>12 DEF Told, Listening, Holding, InTurn
  <2>4. QED
    BY <2>2, <2>3
<1>7. QED
  BY <1>5, <1>6 DEF Relay

LEMMA StartAgentTold ==
  ASSUME TypeInv, StreamInv, NEW r \in Rounds, NEW s \in Sub, NEW tools,
         MayCall(r), StartAgent(r, s, tools),
         UNCHANGED <<response, turn, context, streams, totals, sent>>
  PROVE  StreamInv'
<1>1. /\ pc \in [Rounds -> Labels] /\ s \in Rounds
      /\ request \in [Rounds -> Prompts \cup {Continue}]
  BY Bounds DEF TypeInv, RoundTypes
<1>2. /\ pc[r] = "calling" /\ pc[s] = "new" /\ r # s
      /\ pc' = [pc EXCEPT ![r] = "waiting", ![s] = "queued"]
      /\ request' = [request EXCEPT ![s] = [NoPrompt EXCEPT !.tools = tools]]
  BY DEF MayCall, StartAgent
<1>3. /\ pc'[r] = "waiting" /\ request'[r] = request[r]
      /\ \A q \in Rounds : q # r /\ q # s => pc'[q] = pc[q] /\ request'[q] = request[q]
  BY <1>1, <1>2
<1>4. ASSUME Asks(r)' PROVE Told(r)'
  <2>1. Told(r)
    BY <1>3, <1>4 DEF StreamInv, Asks, Streaming
  <2>2. QED
    BY <1>2, <1>3, <2>1, SamePhase DEF ViewOf, Holding, InTurn
<1>5. ~Asks(s)'
  <2>1. request'[s] = [NoPrompt EXCEPT !.tools = tools]
    BY <1>1, <1>2
  <2>2. QED
    BY <2>1 DEF Asks, Streaming, NoPrompt
<1>6. ASSUME NEW q \in Rounds, q # r, q # s, Asks(q)' PROVE Told(q)'
  <2>1. pc'[q] = pc[q] /\ request'[q] = request[q]
    BY <1>3, <1>6
  <2>2. Told(q)
    BY <1>6, <2>1 DEF StreamInv, Asks, Streaming
  <2>3. Kept(q)' = Kept(q) /\ UNCHANGED <<Latest(q), Relayed(q)>>
    BY DEF Kept, Latest, Relayed
  <2>4. Unkept(q)' = Unkept(q)
    BY <2>1, <2>3 DEF Unkept
  <2>5. Streamed(q)' <=> Streamed(q)
    BY <2>1, <2>3 DEF Streamed
  <2>6. QED
    BY <2>1, <2>2, <2>3, <2>4, <2>5 DEF Told
<1>7. QED
  BY <1>4, <1>5, <1>6 DEF StreamInv

\* A step of one task that sends nothing.
LEMMA SilentTold ==
  ASSUME TypeInv, StreamInv, NEW r \in Rounds, NEW l, pc' = [pc EXCEPT ![r] = l],
         UNCHANGED <<request, response, turn, context, streams, totals, sent>>,
         \/ pc[r] \in Before /\ l \in Before
         \/ pc[r] \in Holding /\ l \in Holding
         \/ pc[r] \in Settled /\ l \in Settled
         \/ l = "panicked"
  PROVE  StreamInv'
<1>1. pc'[r] = l /\ \A s \in Rounds : s # r => pc'[s] = pc[s]
  BY DEF TypeInv, RoundTypes
<1>2. UNCHANGED <<ViewOf(r), response[r]>>
  BY DEF ViewOf
<1>3. ASSUME Asks(r)' PROVE Told(r)'
  <2>1. Told(r)
    BY <1>3 DEF StreamInv, Asks, Streaming
  <2>2. CASE l = "panicked"
    BY <1>1, <1>2, <2>1, <2>2, Panics
  <2>3. CASE l # "panicked"
    BY <1>1, <1>2, <2>1, <2>3, SamePhase
  <2>4. QED
    BY <2>2, <2>3
<1>4. QED
  BY <1>1, <1>3, OthersTold

LEMMA StreamInit == Init => StreamInv
<1> SUFFICES ASSUME Init, NEW r \in Rounds PROVE Told(r)
  BY DEF StreamInv
<1>1. /\ pc[r] = "new" /\ turn[r] = 0 /\ context[r] = <<>> /\ streams[r] = <<>>
      /\ totals[r] = <<>> /\ sent[r] = <<>>
  BY DEF Init
<1>2. Kept(r) = <<>>
  <2>1. [i \in DOMAIN context[r] |-> Visible(context[r][i])] = <<>>
    BY <1>1
  <2>2. QED
    BY <2>1, FlattenEmpty DEF Kept
<1>3. Unkept(r) = <<>>
  BY <1>1 DEF Unkept, Listening, Holding, InTurn
<1>4. Streamed(r)
  BY <1>1 DEF Streamed, Before, Listening
<1>5. QED
  BY <1>1, <1>2, <1>3, <1>4 DEF Told, Ended, Holding, InTurn

LEMMA StreamInduction ==
  ASSUME TypeInv, StreamInv, [Next]_vars
  PROVE  StreamInv'
<1> USE Bounds
<1>1. /\ pc \in [Rounds -> Labels] /\ request \in [Rounds -> Prompts \cup {Continue}]
      /\ streams \in [Rounds -> Seq(Streams)] /\ sent \in [Rounds -> Seq(Messages)]
      /\ context \in [Rounds -> Seq(Parts)] /\ turn \in [Rounds -> 0 .. MaxTurns]
      /\ response \in [Rounds -> Parts] /\ totals \in [Rounds -> Seq(Parts)]
  BY DEF TypeInv, RoundTypes, StreamTypes
<1>2. ASSUME UNCHANGED <<request, response, pc, turn, context, streams, totals, sent>>
      PROVE  StreamInv'
  <2>1. ASSUME NEW r \in Rounds, Asks(r)' PROVE Told(r)'
    <3>1. Told(r)
      BY <1>2, <2>1 DEF StreamInv, Asks, Streaming
    <3>2. Kept(r)' = Kept(r) /\ UNCHANGED <<Latest(r), Relayed(r)>>
      BY <1>2 DEF Kept, Latest, Relayed
    <3>3. Unkept(r)' = Unkept(r)
      BY <1>2, <3>2 DEF Unkept
    <3>4. Streamed(r)' <=> Streamed(r)
      BY <1>2, <3>2 DEF Streamed
    <3>5. QED
      BY <1>2, <3>1, <3>2, <3>3, <3>4 DEF Told
  <2>2. QED
    BY <2>1 DEF StreamInv
<1>3. ASSUME NEW r \in Web, Submit(r) PROVE StreamInv'
  <2>1. /\ pc[r] = "new" /\ pc' = [pc EXCEPT ![r] = "queued"] /\ r \in Rounds
        /\ request' = [request EXCEPT ![r] = Based(request[r])]
        /\ UNCHANGED <<response, turn, context, streams, totals, sent>>
    BY <1>3 DEF Submit, Goto, streamVars
  <2>2. pc'[r] = "queued" /\ \A s \in Rounds : s # r => pc'[s] = pc[s] /\ request'[s] = request[s]
    BY <1>1, <2>1
  <2>3. ASSUME Asks(r)' PROVE Told(r)'
    <3>1. request'[r] = Based(request[r])
      BY <1>1, <2>1
    <3>2. request[r] # Continue
      BY <2>3, <3>1 DEF Asks, Based
    <3>3. request'[r].streaming = request[r].streaming
      BY <1>1, <3>1, <3>2 DEF Based, Prompts
    <3>4. Told(r)
      BY <2>1, <2>3, <3>2, <3>3 DEF StreamInv, Asks, Streaming
    <3>5. QED
      BY <2>1, <2>2, <3>4, SamePhase DEF ViewOf, Before
  <2>4. QED
    BY <2>1, <2>2, <2>3, OthersTold
<1>4. ASSUME Take PROVE StreamInv'
  <2>1. PICK r \in Rounds : r = Head(queue) /\ pc[r] = "queued"
    BY <1>4, TailRange DEF Take, TypeInv, RoundTypes, Waiting
  <2>2. PICK l \in Before : pc' = [pc EXCEPT ![r] = l]
    BY <1>4, <2>1 DEF Take, Goto, Before
  <2>3. QED
    BY <1>4, <2>1, <2>2, SilentTold DEF Take, Before, streamVars
<1>5. ASSUME NEW r \in Rounds, Prompt(r) PROVE StreamInv'
  <2>1. /\ pc[r] = "prompting" /\ context' = [context EXCEPT ![r] = context[r] \o Listing(r)]
        /\ UNCHANGED <<request, response, turn, totals>>
    BY <1>5 DEF Prompt
  <2>2. \A s \in Rounds : s # r => context'[s] = context[s]
    BY <1>1, <2>1
  <2>3. CASE Fail(r) /\ UNCHANGED streams
    <3>1. Asks(r) => Told(r)
      BY DEF StreamInv
    <3>2. /\ pc'[r] = "failed" /\ sent'[r] = sent[r] \o <<Answer("error")>>
          /\ \A s \in Rounds : s # r => pc'[s] = pc[s] /\ sent'[s] = sent[s]
      BY <1>1, <2>3 DEF Fail, Goto, Send
    <3>3. ASSUME Asks(r) PROVE Told(r)'
      <4>1. context[r] \in Seq(Parts) /\ context'[r] = context[r] \o Listing(r)
            /\ turn[r] \in 0 .. MaxTurns
        BY <1>1, <2>1
      <4>2. Kept(r)' = Kept(r)
        <5>1. KeptOf(context[r] \o Listing(r)) = KeptOf(context[r])
          BY <4>1, KeptListing
        <5>2. QED
          BY <4>1, <5>1 DEF Kept, KeptOf
      <4>3. sent[r] = Kept(r) \o <<>>
        BY <2>1, <3>1, <3>3 DEF Told, Unkept, Ended, Listening, Holding, InTurn
      <4>4. Kept(r) \in Seq(Messages) /\ <<Answer("error")>> \in Seq(Messages)
        BY StreamTyped, AnswerTyped
      <4>5. sent'[r] = Kept(r)' \o <<Answer("error")>>
        BY <3>2, <4>2, <4>3, <4>4
      <4>6. QED
        BY <3>2, <4>4, <4>5 DEF Told, Ended, Holding, InTurn
    <3>4. QED
      BY <2>1, <2>2, <2>3, <3>2, <3>3, OthersTold DEF Asks, Streaming
  <2>4. CASE Goto(r, "asking") /\ UNCHANGED sent /\ Streaming(r)
    <3> DEFINE stream == [state |-> "connecting", piped |-> 0, relayed |-> 0, over |-> FALSE]
    <3>1. streams' = [streams EXCEPT ![r] = Append(streams[r], stream)]
      <4>1. ~Fail(r)
        <5>1. pc'[r] = "asking"
          BY <1>1, <2>4 DEF Goto
        <5>2. QED
          BY <1>1, <5>1 DEF Fail, Goto
      <4>2. QED
        BY <1>5, <2>4, <4>1 DEF Prompt
    <3>2. pc'[r] = "asking" /\ \A s \in Rounds : s # r => pc'[s] = pc[s] /\ streams'[s] = streams[s]
      BY <1>1, <2>4, <3>1 DEF Goto
    <3>3. streams'[r] = Append(streams[r], stream) /\ context'[r] = context[r] \o Listing(r)
      BY <1>1, <2>1, <3>1
    <3>4. Asks(r)' => Told(r)'
      <4>1. Asks(r)' => Asks(r) /\ Told(r)
        BY <2>1 DEF StreamInv, Asks, Streaming
      <4>2. QED
        BY <2>1, <2>4, <3>2, <3>3, <4>1, PromptTold
    <3>5. QED
      BY <2>1, <2>2, <2>4, <3>2, <3>4, OthersTold
  <2>5. CASE Goto(r, "asking") /\ UNCHANGED <<sent, streams>> /\ ~Streaming(r)
    <3>1. \A s \in Rounds : s # r => pc'[s] = pc[s]
      BY <1>1, <2>5 DEF Goto
    <3>2. ~Asks(r)'
      BY <2>1, <2>5 DEF Asks, Streaming
    <3>3. QED
      BY <2>1, <2>2, <2>5, <3>1, <3>2, OthersTold
  <2>6. QED
    BY <1>5, <2>3, <2>4, <2>5 DEF Prompt
<1>6. ASSUME NEW r \in Rounds, GetResponse(r) PROVE StreamInv'
  <2>1. /\ pc[r] = "asking" /\ UNCHANGED <<request, turn, context, streams, totals>>
        /\ Asks(r) => Told(r)
    BY <1>6 DEF GetResponse, StreamInv
  <2>2. CASE Fail(r) /\ UNCHANGED response
    <3>1. /\ Asks(r)' => Told(r)'
          /\ \A s \in Rounds : s # r => pc'[s] = pc[s] /\ sent'[s] = sent[s]
      BY <2>1, <2>2, FailTold
    <3>2. QED
      BY <2>1, <2>2, <3>1, OthersTold
  <2>3. CASE /\ Goto(r, IF Streaming(r) THEN "reading" ELSE "deciding") /\ UNCHANGED sent
             /\ \E part : response' = [response EXCEPT ![r] = part]
    <3>1. /\ pc'[r] = IF Streaming(r) THEN "reading" ELSE "deciding"
          /\ \A s \in Rounds : s # r => pc'[s] = pc[s] /\ response'[s] = response[s]
      BY <1>1, <2>3 DEF Goto
    <3>2. ASSUME Asks(r)' PROVE Told(r)'
      <4>1. Asks(r) /\ Told(r) /\ pc'[r] = "reading"
        BY <2>1, <3>1, <3>2 DEF Asks, Streaming
      <4>2. QED
        BY <2>1, <2>3, <4>1, GetResponseTold DEF ViewOf
    <3>3. QED
      BY <2>1, <2>3, <3>1, <3>2, OthersTold
  <2>4. QED
    BY <1>6, <2>2, <2>3 DEF GetResponse
<1>7. ASSUME NEW r \in Rounds, Read(r) PROVE StreamInv'
  <2>1. Asks(r)' => Told(r)'
    BY <1>7, ReadTold DEF Read, StreamInv, Asks, Streaming
  <2>2. \A s \in Rounds : s # r => /\ pc'[s] = pc[s] /\ response'[s] = response[s]
                                   /\ totals'[s] = totals[s]
    BY <1>1, <1>7 DEF Read, Goto
  <2>3. QED
    BY <1>7, <2>1, <2>2, OthersTold DEF Read
<1>8. ASSUME NEW r \in Rounds, Decide(r) PROVE StreamInv'
  <2>1. Asks(r)' => Told(r)'
    BY <1>8, DecideTold DEF Decide, StreamInv, Asks, Streaming
  <2>2. \A s \in Rounds : s # r => pc'[s] = pc[s] /\ context'[s] = context[s]
    BY <1>1, <1>8 DEF Decide, Goto
  <2>3. QED
    BY <1>8, <2>1, <2>2, OthersTold DEF Decide, streamVars
<1>9. ASSUME NEW r \in Rounds, EndTurn(r) PROVE StreamInv'
  <2>1. Asks(r)' => Told(r)'
    BY <1>9, EndTurnTold DEF EndTurn, StreamInv, Asks, Streaming
  <2>2. \A s \in Rounds : s # r => pc'[s] = pc[s] /\ context'[s] = context[s] /\ turn'[s] = turn[s]
                                 /\ sent'[s] = sent[s]
    BY <1>1, <1>9 DEF EndTurn, Goto, Send
  <2>3. QED
    BY <1>9, <2>1, <2>2, OthersTold DEF EndTurn, streamVars
<1>10. ASSUME NEW r \in Rounds, RunAgent(r) PROVE StreamInv'
  BY <1>10, StartAgentTold DEF RunAgent, streamVars
<1>11. ASSUME NEW r \in Rounds, RespondToAgent(r) PROVE StreamInv'
  <2>1. CASE \E a \in agents[r], s \in Sub : StartAgent(r, s, Tools(a))
    BY <1>11, <2>1, StartAgentTold DEF RespondToAgent, streamVars
  <2>2. CASE Goto(r, "panicked") /\ UNCHANGED request
    BY <1>11, <2>2, SilentTold DEF RespondToAgent, Goto, streamVars
  <2>3. QED
    BY <1>11, <2>1, <2>2 DEF RespondToAgent
<1>12. ASSUME NEW r \in Rounds, CallTool(r) \/ HearAgent(r) \/ KeepAgent(r) PROVE StreamInv'
  <2>1. /\ UNCHANGED <<request, response, turn, context, streams, totals, sent>>
        /\ pc[r] \in Holding
    BY <1>12 DEF CallTool, HearAgent, KeepAgent, MayCall, streamVars, Holding, InTurn
  <2>2. \E l \in Holding \cup {"panicked"} : pc' = [pc EXCEPT ![r] = l]
    BY <1>12 DEF CallTool, HearAgent, KeepAgent, AfterCall, Goto, Holding, InTurn
  <2>3. QED
    BY <2>1, <2>2, SilentTold
<1>13. ASSUME NEW r \in Rounds, WriteChat(r) \/ Notify(r) \/ CheckChat(r) \/ PlanJob(r)
       PROVE  StreamInv'
  <2>1. /\ UNCHANGED <<request, response, turn, context, streams, totals, sent>>
        /\ pc[r] \in Settled
    BY <1>13 DEF WriteChat, Notify, CheckChat, PlanJob, streamVars, Settled, Updating
  <2>2. CASE CheckChat(r)
    <3>1. chat[request[r].chat] \in ChatRecords
      BY <2>2 DEF CheckChat, TypeInv, Places, ChatTypes, Updating
    <3>2. Missing(chat[request[r].chat]) \in Settled
      BY <3>1, MissingValues DEF Settled, Updating
    <3>3. QED
      BY <2>1, <2>2, <3>2, SilentTold DEF CheckChat, Goto
  <2>3. CASE ~CheckChat(r)
    <3>1. \E l \in Settled : pc' = [pc EXCEPT ![r] = l]
      BY <1>13, <2>3 DEF WriteChat, Notify, PlanJob, Goto, Settled, Updating
    <3>2. QED
      BY <2>1, <3>1, SilentTold
  <2>4. QED
    BY <2>2, <2>3
<1>14. ASSUME NEW r \in Rounds, Finish(r) PROVE StreamInv'
  <2>1. /\ pc[r] = "answering" /\ UNCHANGED <<request, response, turn, context, streams, totals>>
        /\ Goto(r, "done")
    BY <1>14 DEF Finish, streamVars
  <2>2. PICK m : Send(r, m) /\ (Streaming(r) => m = <<>>)
    BY <1>14 DEF Finish
  <2>3. sent'[r] = sent[r] \o m /\ \A s \in Rounds : s # r => sent'[s] = sent[s]
    BY <2>2, SentGrows
  <2>4. pc'[r] = "done" /\ \A s \in Rounds : s # r => pc'[s] = pc[s]
    BY <1>1, <2>1 DEF Goto
  <2>5. ASSUME Asks(r)' PROVE Told(r)'
    <3>1. Told(r) /\ Streaming(r)
      BY <2>1, <2>5 DEF StreamInv, Asks, Streaming
    <3>2. sent'[r] = sent[r]
      BY <1>1, <2>2, <2>3, <3>1
    <3>3. QED
      BY <2>1, <2>4, <3>1, <3>2, SamePhase DEF ViewOf, Settled
  <2>6. QED
    BY <2>1, <2>3, <2>4, <2>5, OthersTold
<1>15. ASSUME NEW r \in Rounds, Reach(r) PROVE StreamInv'
  <2>1. UNCHANGED <<request, response, pc, turn, context, totals, sent>>
    BY <1>15 DEF Reach, roundVars
  <2>2. CASE Streaming(r)
    <3>1. PICK state \in {"open", "closed"} :
            streams' = [streams EXCEPT ![r][turn[r] + 1].state = state]
      BY <1>15, <2>2 DEF Reach
    <3> DEFINE i == turn[r] + 1
               new == [streams[r][i] EXCEPT !.state = state]
    <3>2. streams' = [streams EXCEPT ![r][i] = new]
      BY <3>1
    <3>3. i \in DOMAIN streams[r] => /\ new.relayed = streams[r][i].relayed
                                     /\ new.over = streams[r][i].over
      <4>1. i \in DOMAIN streams[r] => streams[r][i] \in Streams
        BY <1>1
      <4>2. QED
        BY <4>1 DEF Streams
    <3> HIDE DEF i, new
    <3>4. QED
      BY <2>1, <3>2, <3>3, StreamTold
  <2>3. CASE ~Streaming(r)
    BY <1>2, <1>15, <2>1, <2>3 DEF Reach
  <2>4. QED
    BY <2>2, <2>3
<1>16. ASSUME NEW r \in Rounds, NEW i \in DOMAIN streams[r], Produce(r, i) PROVE StreamInv'
  <2>1. UNCHANGED <<request, response, pc, turn, context, totals, sent>>
    BY <1>16 DEF Produce, roundVars
  <2>2. streams[r][i] \in Streams
    BY <1>1
  <2>3. PICK new : /\ streams' = [streams EXCEPT ![r][i] = new]
                   /\ new.relayed = streams[r][i].relayed /\ new.over = streams[r][i].over
    <3>1. CASE streams' = [streams EXCEPT ![r][i].piped = @ + 1]
      <4> DEFINE new == [streams[r][i] EXCEPT !.piped = streams[r][i].piped + 1]
      <4>1. new.relayed = streams[r][i].relayed /\ new.over = streams[r][i].over
        BY <2>2 DEF Streams
      <4>2. streams' = [streams EXCEPT ![r][i] = new]
        BY <3>1
      <4>3. QED
        BY <4>1, <4>2
    <3>2. CASE streams' = [streams EXCEPT ![r][i].state = "closed"]
      <4> DEFINE new == [streams[r][i] EXCEPT !.state = "closed"]
      <4>1. new.relayed = streams[r][i].relayed /\ new.over = streams[r][i].over
        BY <2>2 DEF Streams
      <4>2. streams' = [streams EXCEPT ![r][i] = new]
        BY <3>2
      <4>3. QED
        BY <4>1, <4>2
    <3>3. QED
      BY <1>16, <3>1, <3>2 DEF Produce
  <2>4. QED
    BY <2>1, <2>3, StreamTold
<1>17. ASSUME NEW r \in Rounds, NEW i \in DOMAIN streams[r], Relay(r, i) PROVE StreamInv'
  <2>1. UNCHANGED <<request, response, pc, turn, context>>
    BY <1>17 DEF Relay, roundVars
  <2>2. \A s \in Rounds : s # r => /\ streams'[s] = streams[s] /\ sent'[s] = sent[s]
                                   /\ totals'[s] = totals[s]
    BY <1>1, <1>17 DEF Relay, Send
  <2>3. Asks(r)' => Told(r)'
    BY <1>17, <2>1, RelayTold DEF StreamInv, Asks, Streaming
  <2>4. QED
    BY <2>1, <2>2, <2>3, OthersTold
<1>18. ASSUME UNCHANGED <<roundVars, streamVars, sent>> PROVE StreamInv'
  BY <1>2, <1>18 DEF roundVars, streamVars
<1>19. QED
  BY <1>3, <1>4, <1>5, <1>6, <1>7, <1>8, <1>9, <1>10, <1>11, <1>12, <1>13, <1>14, <1>15, <1>16,
     <1>17, <1>18
     DEF Next, EndpointStep, RoundStep, StreamStep, ReadForJob, WriteForJob, RemoveJob,
         GetCopy, SaveCopy, RemoveChat, vars

\* What a streaming client saw begins with what the chat will hold, and is that
\* when the round is done.
LEMMA AgreesNow ==
  ASSUME TypeInv, StreamInv
  PROVE  StreamAgrees
<1> SUFFICES ASSUME NEW r \in Rounds, Asks(r)
             PROVE  IsPrefix(Kept(r), sent[r]) /\ (pc[r] = "done" => Kept(r) = sent[r])
  BY DEF StreamAgrees, Asks
<1>1. Told(r) /\ Kept(r) \in Seq(Messages) /\ sent[r] \in Seq(Messages)
  BY StreamTyped DEF StreamInv
<1>2. PICK rest \in Seq(Messages) : sent[r] = Kept(r) \o rest
  BY <1>1, UnkeptTyped DEF Told
<1>3. IsPrefix(Kept(r), sent[r])
  <2> DEFINE k == Kept(r)
  <2>1. k \in Seq(Messages) /\ sent[r] = k \o rest
    BY <1>1, <1>2
  <2> HIDE DEF k
  <2>2. Len(k) <= Len(sent[r]) /\ SubSeq(sent[r], 1, Len(k)) = k
    BY <2>1, SubSeqOfConcat1
  <2>3. IsPrefix(k, sent[r])
    BY <2>2 DEF IsPrefix
  <2>4. QED
    BY <2>3 DEF k
<1>4. ASSUME pc[r] = "done" PROVE Kept(r) = sent[r]
  <2>1. sent[r] = Kept(r) \o Unkept(r) /\ Unkept(r) = <<>>
    BY <1>1, <1>4 DEF Told, Unkept, Ended, Listening, Holding, InTurn
  <2>2. QED
    BY <1>1, <2>1
<1>5. QED
  BY <1>3, <1>4

\* What a streaming client was shown, by the relays of the turns and by the task
\* itself, is the beginning of what it will find in the chat, whatever failed and
\* in whatever order the tasks ran; a round that ends well keeps all of it.
THEOREM StreamsAgree == Spec => []StreamAgrees
<1>1. TypeInv /\ StreamInv /\ [Next]_vars => StreamInv'
  BY StreamInduction
<1>2. TypeInv /\ StreamInv => StreamAgrees
  BY AgreesNow
<1>3. QED
  BY <1>1, <1>2, StreamInit, AlwaysTyped, PTL DEF Spec
=============================================================================
