----------------------------- MODULE ChatRound -----------------------------
(***************************************************************************)
(* A round of the AI endpoint (src/src/ai_interaction/mod.rs): a request   *)
(* is taken from the endpoint's channel and handled by a task of its own,  *)
(* which prompts the backend, runs the tool calls of the response, prompts *)
(* again, and in the end writes the chat and answers.  A streaming round   *)
(* shows its client every part as it comes: one more task per prompt       *)
(* relays the tokens of the backend.  The Agent tool (tools.rs) sends the  *)
(* endpoint a request of its own and waits for that round.                 *)
(*                                                                         *)
(* A context is the sequence of the parts that rounds add, and a part its  *)
(* kind, the turn it comes from and its number of tokens.  The tags that   *)
(* are put around a nonstandard answer, the texts of automatic memories,   *)
(* and media are left out.  The database and the filesystem thread are     *)
(* alive: each request to them is one step.  The backend behind            *)
(* openai_full_impl may fail, be slow, and end a stream at any token.      *)
(***************************************************************************)
EXTENDS Integers, Sequences, SequencesExt, FiniteSets, FiniteSetsExt

CONSTANTS
  Web,          \* requests of clients
  Sub,          \* requests of the Agent tool
  Requests,     \* what the clients may ask for together
  Chats,        \* chats of the clients; an agent's chat is named by its round
  Allocatable,  \* the tools that a client's settings let agents use
  MaxTurns,     \* tool calling responses that a round answers, 12 in the code
  MaxCalls,     \* bound: calls in one response
  MaxTokens,    \* bound: tokens in one stream
  MaxEdits,     \* bound: writes and removals by the client
  Continue,     \* the request variant that no one handles
  NoChat, NoRound, NoJob

Rounds == Web \cup Sub
ChatIds == Chats \cup Sub
ToolNames == {"agent", "files", "other"}
Prompts == [streaming : BOOLEAN, tools : SUBSET ToolNames, chat : Chats \cup {NoChat},
            base : SUBSET Rounds]
NoPrompt == [streaming |-> FALSE, tools |-> {}, chat |-> NoChat, base |-> {}]

ASSUME ChatRoundAssumption ==
  /\ IsFiniteSet(Rounds) /\ Web \cap Sub = {} /\ Chats \cap Sub = {}
  /\ Continue \notin Prompts /\ Requests \subseteq [Web -> Prompts \cup {Continue}]
  /\ NoChat \notin ChatIds /\ NoRound \notin Rounds
  /\ Allocatable \subseteq ToolNames
  /\ {MaxTurns, MaxCalls, MaxTokens, MaxEdits} \subseteq Nat

VARIABLES
  queue,      \* the endpoint's priority channel
  request,    \* what a round was asked
  pc,         \* where its task is
  turn,       \* the tool calling responses it has answered
  context,    \* the parts it added to whole_context
  response,   \* its response variable: a part
  form,       \* whether that part calls tools, answers, or does neither
  calls,      \* the calls of the turn: how many were made, their outputs
  agents,     \* new_tools: the chats of the agents it knows
  child,      \* the round it waits for
  target,     \* the agent it responds to, and the chat as it read it
  result,     \* the channel on which the backend tells that it was reached
  streams,    \* one for each prompt of a streaming round: its relay and its tokens
  totals,     \* rep_sender and rep_recv: the streams that were relayed whole
  sent,       \* everything sent on the response tunnel
  chat,       \* the chats in the database
  jobs,       \* its Title and Tag jobs
  job,        \* the one that the job thread runs, and how far it is
  notices,    \* the rounds whose end was notified
  copy,       \* a chat as a client last got it
  cleared,    \* history: chats that a client's write left without a title
  edits

roundVars == <<request, pc, turn, context, response, form, calls, agents, child, target>>
streamVars == <<result, streams, totals>>
clientVars == <<copy, cleared, edits>>
vars == <<queue, roundVars, streamVars, sent, chat, jobs, job, notices, clientVars>>

Part(kind, t, size) == [kind |-> kind, turn |-> t, size |-> size]
NoPart == Part("response", 0, 0)
NoCalls == [made |-> 0, outputs |-> <<>>]
NoTarget == [agent |-> NoChat, read |-> NoChat]
Gone == [there |-> FALSE, rounds |-> {}, titled |-> FALSE, tagged |-> FALSE]
Started == [Gone EXCEPT !.there = TRUE]

\* The StartStream and ContinueStream messages that show a part.
Token(part, i) == [kind |-> part.kind, turn |-> part.turn, at |-> i]
Shown(part) == [i \in 1 .. part.size |-> Token(part, i)]
Answer(kind) == [kind |-> kind, turn |-> 0, at |-> 0]

Streaming(r) == request[r].streaming
Tools(r) == request[r].tools
Over == {"done", "failed", "panicked", "dropped"}

Init ==
  /\ queue = <<>>
  /\ \E asked \in Requests :
       request = [r \in Rounds |-> IF r \in Web THEN asked[r] ELSE NoPrompt]
  /\ pc = [r \in Rounds |-> "new"]
  /\ turn = [r \in Rounds |-> 0]
  /\ context = [r \in Rounds |-> <<>>]
  /\ response = [r \in Rounds |-> NoPart]
  /\ form = [r \in Rounds |-> "final"]
  /\ calls = [r \in Rounds |-> NoCalls]
  /\ agents = [r \in Rounds |-> {}]
  /\ child = [r \in Rounds |-> NoRound]
  /\ target = [r \in Rounds |-> NoTarget]
  /\ result = [r \in Rounds |-> "none"]
  /\ streams = [r \in Rounds |-> <<>>]
  /\ totals = [r \in Rounds |-> <<>>]
  /\ sent = [r \in Rounds |-> <<>>]
  /\ chat = [c \in ChatIds |-> IF c \in Chats THEN Started ELSE Gone]
  /\ jobs = {} /\ job = NoJob /\ notices = {}
  /\ copy = [c \in Chats |-> chat[c]] /\ cleared = {} /\ edits = 0

-----------------------------------------------------------------------------
(* The endpoint *)

Goto(r, label) == pc' = [pc EXCEPT ![r] = label]
Send(r, messages) == sent' = [sent EXCEPT ![r] = @ \o messages]

\* A client adds its prompt to the context of its copy of the chat.
Based(q) ==
  IF q = Continue \/ q.chat = NoChat THEN q ELSE [q EXCEPT !.base = copy[q.chat].rounds]

Submit(r) ==
  /\ pc[r] = "new"
  /\ request' = [request EXCEPT ![r] = Based(@)]
  /\ Goto(r, "queued")
  /\ queue' = Append(queue, r)
  /\ UNCHANGED <<turn, context, response, form, calls, agents, child, target,
                 streamVars, sent, chat, jobs, job, notices, clientVars>>

\* handling_loop and handle_request: one task for each request; that of a
\* Continue ends at once and drops the tunnel.
Take ==
  /\ queue # <<>>
  /\ queue' = Tail(queue)
  /\ Goto(Head(queue), IF request[Head(queue)] = Continue THEN "dropped" ELSE "prompting")
  /\ UNCHANGED <<request, turn, context, response, form, calls, agents, child, target,
                 streamVars, sent, chat, jobs, job, notices, clientVars>>

FailQuietly(r) == Goto(r, "failed") /\ UNCHANGED sent   \* mutant

\* A BackendError ends the round; handle_request sends it.
Fail(r) == Goto(r, "failed") /\ Send(r, <<Answer("error")>>)

\* The listing of the working directory that add_filesystem_insert adds; it is
\* not shown.
Listing(r) == IF "files" \in Tools(r) THEN <<Part("listing", turn[r], 1)>> ELSE <<>>

\* send_new_prompt and send_new_prompt_streaming, with the inserts before them.
Prompt(r) ==
  /\ pc[r] = "prompting"
  /\ context' = [context EXCEPT ![r] = @ \o Listing(r)]
  /\ \/ /\ Goto(r, "asking")
        /\ streams' = IF Streaming(r)
                      THEN [streams EXCEPT ![r] =
                              Append(@, [state |-> "connecting", piped |-> 0, relayed |-> 0, over |-> FALSE])]
                      ELSE streams
        /\ UNCHANGED sent
     \/ Fail(r) /\ UNCHANGED streams
  /\ UNCHANGED <<queue, request, turn, response, form, calls, agents, child, target,
                 result, totals, chat, jobs, job, notices, clientVars>>

\* get_response_to_latest_prompt_for: the whole response, or when it is
\* streamed a placeholder, once the backend was reached.
GetResponse(r) ==
  /\ pc[r] = "asking" /\ result[r] # "none"
  /\ result' = [result EXCEPT ![r] = "none"]
  /\ \/ result[r] = "error" /\ Fail(r) /\ UNCHANGED response
     \/ /\ result[r] = "ok"
        /\ Goto(r, IF Streaming(r) THEN "reading" ELSE "deciding")
        /\ response' = [response EXCEPT ![r] =
                          Part("response", turn[r], IF Streaming(r) THEN 0 ELSE 1)]
        /\ UNCHANGED sent
  /\ UNCHANGED <<queue, request, turn, context, form, calls, agents, child, target,
                 streams, totals, chat, jobs, job, notices, clientVars>>

ReadNoWait(r) ==   \* mutant
  /\ pc[r] = "reading"
  /\ Goto(r, "deciding")
  /\ response' = [response EXCEPT ![r] = IF totals[r] = <<>> THEN @ ELSE Head(totals[r])]
  /\ totals' = [totals EXCEPT ![r] = IF @ = <<>> THEN @ ELSE Tail(@)]
  /\ UNCHANGED <<queue, request, turn, context, form, calls, agents, child, target,
                 result, streams, sent, chat, jobs, job, notices, clientVars>>

\* The loop on rep_recv, which the round keeps a sender of.
Read(r) ==
  /\ pc[r] = "reading" /\ totals[r] # <<>>
  /\ Goto(r, "deciding")
  /\ response' = [response EXCEPT ![r] = Head(totals[r])]
  /\ totals' = [totals EXCEPT ![r] = Tail(@)]
  /\ UNCHANGED <<queue, request, turn, context, form, calls, agents, child, target,
                 result, streams, sent, chat, jobs, job, notices, clientVars>>

LoopsOn(r, f) == f = "call" /\ Tools(r) # {} /\ turn[r] < MaxTurns

\* is_valid_tool_calling_response, looks_like_nonstandard_final_response and
\* the limit on turns: call tools, or keep the response as the last.
Decide(r) ==
  /\ pc[r] = "deciding"
  /\ \E f \in {"call", "final", "raw"} :
       /\ form' = [form EXCEPT ![r] = f]
       /\ \/ /\ LoopsOn(r, f)
             /\ Goto(r, "calling")
             /\ calls' = [calls EXCEPT ![r] = NoCalls]
             /\ UNCHANGED context
          \/ /\ ~LoopsOn(r, f)
             /\ context' = [context EXCEPT ![r] = Append(@, response[r])]
             /\ Goto(r, IF request[r].chat = NoChat THEN "answering" ELSE "writing")
             /\ UNCHANGED calls
  /\ UNCHANGED <<queue, request, turn, response, agents, child, target,
                 streamVars, sent, chat, jobs, job, notices, clientVars>>

\* What follows update_chat: the answer of a round that does not stream.
Finish(r) ==
  /\ pc[r] = "answering"
  /\ Goto(r, "done")
  /\ Send(r, IF Streaming(r) THEN <<>>
             ELSE <<Answer(IF Tools(r) = {} THEN "block" ELSE "multiturn")>>)
  /\ UNCHANGED <<queue, request, turn, context, response, form, calls, agents, child, target,
                 streamVars, chat, jobs, job, notices, clientVars>>

-----------------------------------------------------------------------------
(* Streams: the backend's task, and the relay of send_streaming_response *)

Reach(r) ==
  /\ pc[r] = "asking" /\ result[r] = "none"
  /\ \E res \in {"ok", "error"} :
       /\ result' = [result EXCEPT ![r] = res]
       /\ streams' = IF Streaming(r)
                     THEN [streams EXCEPT ![r][turn[r] + 1].state =
                             IF res = "ok" THEN "open" ELSE "closed"]
                     ELSE streams
  /\ UNCHANGED <<queue, roundVars, totals, sent, chat, jobs, job, notices, clientVars>>

Produce(r, i) ==
  /\ streams[r][i].state = "open"
  /\ \/ /\ streams[r][i].piped + streams[r][i].relayed < MaxTokens
        /\ streams' = [streams EXCEPT ![r][i].piped = @ + 1]
     \/ streams' = [streams EXCEPT ![r][i].state = "closed"]
  /\ UNCHANGED <<queue, roundVars, result, totals, sent, chat, jobs, job, notices, clientVars>>

Relay(r, i) ==
  LET stream == streams[r][i]
      part == Part("response", i - 1, stream.relayed)
  IN  /\ ~stream.over
      /\ \/ /\ stream.piped > 0
            /\ streams' = [streams EXCEPT ![r][i].piped = @ - 1, ![r][i].relayed = @ + 1]
            /\ Send(r, <<Token(part, stream.relayed + 1)>>)
            /\ UNCHANGED totals
         \/ /\ stream.piped = 0 /\ stream.state = "closed"
            /\ streams' = [streams EXCEPT ![r][i].over = TRUE]
            /\ IF stream.relayed = 0
               THEN Send(r, <<Answer("error")>>) /\ UNCHANGED totals
               ELSE totals' = [totals EXCEPT ![r] = Append(@, part)] /\ UNCHANGED sent
      /\ UNCHANGED <<queue, roundVars, result, chat, jobs, job, notices, clientVars>>

-----------------------------------------------------------------------------
(* Tool calls: handle_tool_calling_response and agent_tool *)

\* handle_tool_calling_context_data: an error takes the place of the outputs of
\* the calls before it, whose effects remain, and ends the turn.
WithOutput(c, res) ==
  [c EXCEPT !.outputs = IF res = "ok" THEN Append(@, res) ELSE <<res>>]

AfterCall(r, c, res) ==
  /\ calls' = [calls EXCEPT ![r] = WithOutput(c, res)]
  /\ Goto(r, IF res = "ok" THEN "calling" ELSE "closing")

MayCall(r) == pc[r] = "calling" /\ calls[r].made < MaxCalls
Counted(r) == [calls[r] EXCEPT !.made = @ + 1]

\* Tools::call, for a tool that answers without another round.
CallTool(r) ==
  /\ MayCall(r)
  /\ \E res \in {"ok", "error"} : AfterCall(r, Counted(r), res)
  /\ UNCHANGED <<queue, request, turn, context, response, form, agents, child, target,
                 streamVars, sent, chat, jobs, job, notices, clientVars>>

\* The tools that the settings of a round let its agents use: those of an
\* agent allow none.
AllocatableBy(r) == IF r \in Web THEN Allocatable ELSE {}

\* Sends a request for round s with these tools, and waits.
StartAgent(r, s, tools) ==
  /\ pc[s] = "new"
  /\ pc' = [pc EXCEPT ![r] = "waiting", ![s] = "queued"]
  /\ request' = [request EXCEPT ![s] = [NoPrompt EXCEPT !.tools = tools]]
  /\ queue' = Append(queue, s)
  /\ child' = [child EXCEPT ![r] = s]
  /\ calls' = [calls EXCEPT ![r] = Counted(r)]

\* agent_tool, mode run
RunAgent(r) ==
  /\ MayCall(r) /\ "agent" \in Tools(r)
  /\ \E s \in Sub, tools \in SUBSET AllocatableBy(r) : StartAgent(r, s, tools)
  /\ target' = [target EXCEPT ![r] = NoTarget]
  /\ UNCHANGED <<turn, context, response, form, agents,
                 streamVars, sent, chat, jobs, job, notices, clientVars>>

\* agent_tool, mode respond: a chat that was removed is a panic.
RespondToAgent(r) ==
  /\ MayCall(r) /\ "agent" \in Tools(r)
  /\ \E a \in agents[r] :
       \/ /\ chat[a].there
          /\ \E s \in Sub : StartAgent(r, s, Tools(a))
          /\ target' = [target EXCEPT ![r] = [agent |-> a, read |-> chat[a]]]
       \/ /\ ~chat[a].there
          /\ Goto(r, "panicked")
          /\ UNCHANGED <<queue, request, calls, child, target>>
  /\ UNCHANGED <<turn, context, response, form, agents,
                 streamVars, sent, chat, jobs, job, notices, clientVars>>

Heard(r, kind) == sent[child[r]] # <<>> /\ Head(sent[child[r]]) = Answer(kind)

DroppedOnly(r) == pc[child[r]] = "panicked"   \* mutant
AgentFailed(r) == Heard(r, "error")

\* The answer of the agent's round, or its tunnel dropped.  An agent without
\* tools answers with a Block, which agent_tool panics on.
HearAgent(r) ==
  /\ pc[r] = "waiting"
  /\ \/ /\ Heard(r, "multiturn")
        /\ Goto(r, "keeping") /\ UNCHANGED calls
     \/ /\ AgentFailed(r)
        /\ AfterCall(r, calls[r], "error")
     \/ /\ \/ Heard(r, "block")
           \/ pc[child[r]] = "panicked"
        /\ Goto(r, "panicked") /\ UNCHANGED calls
  /\ UNCHANGED <<queue, request, turn, context, response, form, agents, child, target,
                 streamVars, sent, chat, jobs, job, notices, clientVars>>

StartingChat(r) ==   \* mutant
  IF target[r] = NoTarget THEN Started ELSE target[r].read

\* The chat of an agent after its round: a new one, or the one that was read.
AgentChat(r) ==
  LET before == IF target[r] = NoTarget THEN Started ELSE target[r].read
  IN  [before EXCEPT !.rounds = @ \cup {child[r]}]

\* Stores that chat, then parses the agent's answer: a response that calls
\* tools once more has no answer in it, and one that cannot be parsed panics.
KeepAgent(r) ==
  LET name == IF target[r] = NoTarget THEN child[r] ELSE target[r].agent
  IN  /\ pc[r] = "keeping"
      /\ chat' = [chat EXCEPT ![name] = AgentChat(r)]
      /\ \/ /\ form[child[r]] # "call"
            /\ AfterCall(r, calls[r], "ok")
            /\ agents' = [agents EXCEPT ![r] = @ \cup {name}]
         \/ /\ form[child[r]] = "call"
            /\ AfterCall(r, calls[r], "error")
            /\ UNCHANGED agents
         \/ Goto(r, "panicked") /\ UNCHANGED <<calls, agents>>
      /\ UNCHANGED <<queue, request, turn, context, response, form, child, target,
                     streamVars, sent, jobs, job, notices, clientVars>>

\* The outputs with their tags, and get_tool_data_insert: one insert for each
\* tool that has data.
Outputs(r) == Part("outputs", turn[r], Len(calls[r].outputs) + 2)
Inserts(r) == [i \in 1 .. Cardinality(Tools(r) \ {"other"}) |-> Part("insert", turn[r], 1)]

\* The end of a turn: what is added to the context is shown, except for the
\* response, which was.
EndTurn(r) ==
  /\ pc[r] \in {"calling", "closing"}
  /\ context' = [context EXCEPT ![r] = Append(@, response[r]) \o <<Outputs(r)>> \o Inserts(r)]
  /\ Send(r, IF Streaming(r)
             THEN Shown(Outputs(r)) \o [i \in DOMAIN Inserts(r) |-> Token(Inserts(r)[i], 1)]
             ELSE <<>>)
  /\ turn' = [turn EXCEPT ![r] = @ + 1]
  /\ Goto(r, "prompting")
  /\ UNCHANGED <<queue, request, response, form, calls, agents, child, target,
                 streamVars, chat, jobs, job, notices, clientVars>>

-----------------------------------------------------------------------------
(* update_chat: each request to the database is a step *)

\* UpdateExistingChatContext is answered RequestExecuted even when the chat is
\* gone.
WriteChat(r) ==
  LET c == request[r].chat
  IN  /\ pc[r] = "writing"
      /\ chat' = IF chat[c].there THEN [chat EXCEPT ![c].rounds = request[r].base \cup {r}]
                 ELSE chat
      /\ Goto(r, "notifying")
      /\ UNCHANGED <<queue, request, turn, context, response, form, calls, agents, child, target,
                     streamVars, sent, jobs, job, notices, clientVars>>

Notify(r) ==
  /\ pc[r] = "notifying"
  /\ notices' = notices \cup {r}
  /\ Goto(r, "checking")
  /\ UNCHANGED <<queue, request, turn, context, response, form, calls, agents, child, target,
                 streamVars, sent, chat, jobs, job, clientVars>>

TagsElseTitle(c) ==   \* mutant
  IF ~c.tagged THEN "tagging" ELSE IF ~c.titled THEN "titling" ELSE "answering"

\* The jobs to add for a chat as it was read once; one that is gone needs none.
Missing(c) ==
  CASE c.there /\ ~c.titled /\ ~c.tagged -> "titling and tagging"
    [] c.there /\ ~c.titled /\ c.tagged -> "titling"
    [] c.there /\ c.titled /\ ~c.tagged -> "tagging"
    [] OTHER -> "answering"

CheckChat(r) ==
  /\ pc[r] = "checking"
  /\ Goto(r, Missing(chat[request[r].chat]))
  /\ UNCHANGED <<queue, request, turn, context, response, form, calls, agents, child, target,
                 streamVars, sent, chat, jobs, job, notices, clientVars>>

PlanJob(r) ==
  LET kind == IF pc[r] = "tagging" THEN "tag" ELSE "title"
  IN  /\ pc[r] \in {"titling and tagging", "titling", "tagging"}
      /\ jobs' = jobs \cup {[kind |-> kind, chat |-> request[r].chat, round |-> r]}
      /\ Goto(r, IF pc[r] = "titling and tagging" THEN "tagging" ELSE "answering")
      /\ UNCHANGED <<queue, request, turn, context, response, form, calls, agents, child, target,
                     streamVars, sent, chat, job, notices, clientVars>>

-----------------------------------------------------------------------------
(* The Title and Tag jobs, run one at a time by the job thread, and clients *)

\* The job reads the chat and asks the AI, which may fail every time: then the
\* job is scheduled again.
ReadForJob(j) ==
  /\ job = NoJob /\ chat[j.chat].there
  /\ job' = [run |-> j, state |-> "asking"]
  /\ UNCHANGED <<queue, roundVars, streamVars, sent, chat, jobs, notices, clientVars>>

\* UpdateChatTitle or UpdateChatTags; a Tag job that found no tag succeeds, and
\* a Title job without a title fails.
WriteForJob ==
  /\ job # NoJob /\ job.state = "asking"
  /\ LET c == job.run.chat
     IN  \/ /\ job.run.kind = "title"
            /\ chat' = IF chat[c].there THEN [chat EXCEPT ![c].titled = TRUE] ELSE chat
            /\ job' = [job EXCEPT !.state = "written"]
         \/ /\ job.run.kind = "title"
            /\ job' = NoJob /\ UNCHANGED chat
         \/ /\ job.run.kind = "tag"
            /\ \E found \in BOOLEAN :
                 chat' = IF chat[c].there THEN [chat EXCEPT ![c].tagged = found] ELSE chat
            /\ job' = [job EXCEPT !.state = "written"]
  /\ UNCHANGED <<queue, roundVars, streamVars, sent, jobs, notices, clientVars>>

RemoveJob ==
  /\ job # NoJob /\ job.state = "written"
  /\ jobs' = jobs \ {job.run}
  /\ job' = NoJob
  /\ UNCHANGED <<queue, roundVars, streamVars, sent, chat, notices, clientVars>>

\* A client gets a chat, writes its copy back as a whole, with a title perhaps,
\* or removes the chat.  Clients do not write the chats of agents.
GetCopy(c) ==
  /\ copy[c] # chat[c]
  /\ copy' = [copy EXCEPT ![c] = chat[c]]
  /\ UNCHANGED <<queue, roundVars, streamVars, sent, chat, jobs, job, notices, cleared, edits>>

SaveCopy(c) ==
  /\ edits < MaxEdits /\ edits' = edits + 1
  /\ copy[c].there
  /\ \E titled \in {copy[c].titled, TRUE} :
       /\ chat' = [chat EXCEPT ![c] = [copy[c] EXCEPT !.titled = titled]]
       /\ copy' = [copy EXCEPT ![c].titled = titled]
       /\ cleared' = IF titled \/ (chat[c].there /\ ~chat[c].titled) THEN cleared
                     ELSE cleared \cup {c}
  /\ UNCHANGED <<queue, roundVars, streamVars, sent, jobs, job, notices>>

RemoveChat(c) ==
  /\ edits < MaxEdits /\ edits' = edits + 1
  /\ chat[c].there
  /\ chat' = [chat EXCEPT ![c] = Gone]
  /\ UNCHANGED <<queue, roundVars, streamVars, sent, jobs, job, notices, copy, cleared>>

-----------------------------------------------------------------------------

RoundStep(r) ==
  \/ Prompt(r) \/ GetResponse(r) \/ Read(r) \/ Decide(r)
  \/ CallTool(r) \/ RunAgent(r) \/ RespondToAgent(r) \/ HearAgent(r) \/ KeepAgent(r)
  \/ EndTurn(r)
  \/ WriteChat(r) \/ Notify(r) \/ CheckChat(r) \/ PlanJob(r) \/ Finish(r)

StreamStep(r) ==
  \/ Reach(r)
  \/ \E i \in DOMAIN streams[r] : Produce(r, i) \/ Relay(r, i)

EndpointStep == Take \/ \E r \in Rounds : RoundStep(r) \/ StreamStep(r)

Next ==
  \/ EndpointStep
  \/ \E r \in Web : Submit(r)
  \/ \E j \in jobs : ReadForJob(j)
  \/ WriteForJob \/ RemoveJob
  \/ \E c \in Chats : GetCopy(c) \/ SaveCopy(c)
  \/ \E c \in ChatIds : RemoveChat(c)

\* The endpoint's thread and the tasks run on, in any order: fairness between
\* tasks is not needed, as each does a bounded number of steps.  The backend is
\* reached or not, and ends each stream.
Fairness == WF_vars(EndpointStep)

Spec == Init /\ [][Next]_vars /\ Fairness

-----------------------------------------------------------------------------
(* Properties *)

Parts == [kind : {"response", "outputs", "insert", "listing"},
          turn : 0 .. MaxTurns, size : 0 .. MaxTokens + MaxCalls + 2]
Messages == [kind : {"response", "outputs", "insert", "error", "block", "multiturn"},
             turn : 0 .. MaxTurns, at : 0 .. MaxTokens + MaxCalls + 2]
JobRecords == [kind : {"title", "tag"}, chat : Chats, round : Rounds]
ChatRecords == [there : BOOLEAN, rounds : SUBSET Rounds, titled : BOOLEAN, tagged : BOOLEAN]
Labels == Over \cup
  {"new", "queued", "prompting", "asking", "reading", "deciding", "calling", "waiting",
   "keeping", "closing", "writing", "notifying", "checking", "titling and tagging",
   "titling", "tagging", "answering"}

TypeOK ==
  /\ queue \in Seq(Rounds)
  /\ request \in [Rounds -> Prompts \cup {Continue}]
  /\ pc \in [Rounds -> Labels]
  /\ turn \in [Rounds -> 0 .. MaxTurns]
  /\ context \in [Rounds -> Seq(Parts)]
  /\ response \in [Rounds -> Parts]
  /\ form \in [Rounds -> {"call", "final", "raw"}]
  /\ calls \in [Rounds -> [made : 0 .. MaxCalls, outputs : Seq({"ok", "error"})]]
  /\ agents \in [Rounds -> SUBSET Sub]
  /\ child \in [Rounds -> Sub \cup {NoRound}]
  /\ target \in [Rounds -> [agent : Sub, read : ChatRecords] \cup {NoTarget}]
  /\ result \in [Rounds -> {"none", "ok", "error"}]
  /\ streams \in [Rounds -> Seq([state : {"connecting", "open", "closed"},
                                 piped : 0 .. MaxTokens, relayed : 0 .. MaxTokens,
                                 over : BOOLEAN])]
  /\ totals \in [Rounds -> Seq(Parts)]
  /\ sent \in [Rounds -> Seq(Messages)]
  /\ chat \in [ChatIds -> ChatRecords]
  /\ jobs \subseteq JobRecords
  /\ job \in [run : JobRecords, state : {"asking", "written"}] \cup {NoJob}
  /\ notices \subseteq Rounds
  /\ copy \in [Chats -> ChatRecords]
  /\ cleared \subseteq Chats
  /\ edits \in 0 .. MaxEdits

\* What of a round's context its client has to have seen, in messages.
Visible(part) == IF part.kind = "listing" THEN <<>> ELSE Shown(part)
Kept(r) == FlattenSeq([i \in DOMAIN context[r] |-> Visible(context[r][i])])

\* What a streaming client sees, from tokens relayed by one task and outputs
\* sent by another, is what the chat will hold, in the same order: the context
\* never holds what was not shown before, errors come last, and a round that
\* ends well keeps all that it showed.
StreamAgrees ==
  \A r \in Rounds :
    request[r] # Continue /\ Streaming(r) =>
      /\ IsPrefix(Kept(r), sent[r])
      /\ pc[r] = "done" => Kept(r) = sent[r]

\* A round that does not stream is answered once, and only when it is over: its
\* requester takes the first message and drops the channel.
AnsweredOnce ==
  \A r \in Rounds :
    request[r] # Continue /\ ~Streaming(r) =>
      Len(sent[r]) = IF pc[r] \in {"done", "failed"} THEN 1 ELSE 0

\* An agent that a round may respond to has a chat that holds its first answer,
\* unless a client removed it.
AgentsKept ==
  \A r \in Rounds : \A a \in agents[r] : chat[a].there => a \in chat[a].rounds

\* The chat of a finished round has a title, or a job that will give it one;
\* only a client that writes back an older copy undoes that.
TitlePlanned ==
  \A r \in Rounds :
    LET c == request[r].chat
    IN  pc[r] = "done" /\ c # NoChat =>
          \/ ~chat[c].there \/ chat[c].titled \/ c \in cleared
          \/ \E j \in jobs : j.kind = "title" /\ j.chat = c

\* A stream that ended without a token leaves its round waiting for ever: the
\* relay tells the client of an error and nothing to the round.
Starved(r) ==
  pc[r] = "reading" /\ Last(streams[r]).over /\ Last(streams[r]).relayed = 0

\* Every other round that was asked for ends, those of agents included.
RoundsEnd == <>[](\A r \in Rounds : pc[r] \in {"new"} \cup Over \/ Starved(r))
=============================================================================
