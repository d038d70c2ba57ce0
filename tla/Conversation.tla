---------------------------- MODULE Conversation ----------------------------
(***************************************************************************)
(* The conversation of a sample under evaluation (eval/session/workflow,   *)
(* eval/convert, eval/client): what the environment says is kept in        *)
(* slices, each in the format it came in; before each query the slices are *)
(* converted to the format of the model's API, and what the model answers  *)
(* is converted to chat messages for the environment.                      *)
(*                                                                         *)
(* Content is abstract.  A part is a text or an image; an image is a URL,  *)
(* or data of a type the anthropic API takes ("png") or not ("svg").  A    *)
(* chat message has parts, the tool calls it makes, and the call it is the *)
(* result of (role "tool").                                                *)
(***************************************************************************)
EXTENDS Naturals, SequencesExt

CONSTANTS
    Responses,      \* message sequences the environment may send
    Outputs,        \* per API, what a model may answer
    ClientSets,     \* sets of APIs: the clients of a run (several: cross sampling)
    CallIds,        \* tool calls, by their names
    MaxImages,      \* images a request may hold
    MaxTurns,       \* bound on queries of a sample
    MaxSamples      \* bound on samples

Apis == {"chat", "responses", "anthropic"}
Images == {"url", "png", "svg"}
Parts == {"text"} \cup Images

\* Chat messages as the types of the API have them: only the model makes calls,
\* only the environment shows images, and a system message is text.
Messages == {m \in [role : {"system", "user", "assistant", "tool"}, parts : Seq(Parts),
                    calls : Seq(CallIds), call : CallIds \cup {"none"}] :
               /\ m.role \in {"system", "assistant"} => m.parts \in Seq({"text"})
               /\ m.role # "assistant" => m.calls = <<>>
               /\ m.role = "tool" => m.call # "none"}

\* What the Responses API and the anthropic API answer.
AnswerItems == {i \in [type : {"reasoning", "message", "function_call"}, role : {"assistant"},
                       parts : Seq({"text"}), call : CallIds \cup {"none"}] :
                  i.type = "function_call" => i.call # "none"}
AnswerBlocks == {b \in [type : {"thinking", "part", "tool_use"}, parts : Seq({"text"}),
                        call : CallIds \cup {"none"}] :
                   /\ b.type = "tool_use" <=> b.call # "none"
                   /\ b.type # "part" => b.parts = <<>>}

ASSUME ConversationAssumption ==
    /\ ClientSets \subseteq SUBSET Apis
    /\ CallIds \cap (Parts \cup {"none"}) = {}
    /\ MaxImages \in Nat
    /\ Responses \subseteq Seq(Messages)
    /\ Outputs["chat"] \subseteq Seq({m \in Messages : m.role = "assistant"})
    /\ Outputs["responses"] \subseteq Seq(AnswerItems)
    /\ Outputs["anthropic"] \subseteq [role : {"assistant"}, blocks : Seq(AnswerBlocks)]

VARIABLES
    clients,    \* APIs of the run's clients, fixed
    fellBack,   \* the client of the Responses API has switched to chat completions
    pc,         \* "env", "model", "send", "done", "error"
    history,    \* self.messages: slices [format, body]
    request,    \* last request: [api, atoms], and the log it is about (ghost)
    answer,     \* what the model answered last: [format, body]
    sent,       \* chat messages last sent to the environment
    log,        \* ghost: atoms of all that was said since the last system message
    turn, sample

vars == <<clients, fellBack, pc, history, request, answer, sent, log, turn, sample>>

-----------------------------------------------------------------------------
(* Records and conversions (convert/messages.py).                          *)

Concat(f(_), s) == FlattenSeq([i \in DOMAIN s |-> f(s[i])])

\* The elements of s that are in S.
Only(S, s) == LET Keep(x) == IF x \in S THEN <<x>> ELSE <<>> IN Concat(Keep, s)

Converted(out) == [error |-> "none", out |-> out]
ConversionError == [error |-> "conversion", out |-> <<>>]
NotImplemented == [error |-> "unimplemented", out |-> <<>>]

\* Items of the Responses API.
MessageItem(role, parts) == [type |-> "message", role |-> role, parts |-> parts, call |-> "none"]
CallItem(c) == [type |-> "function_call", role |-> "assistant", parts |-> <<>>, call |-> c]
OutputItem(c, parts) == [type |-> "function_call_output", role |-> "tool", parts |-> parts, call |-> c]

ChatToResponses(messages) ==
    LET Items(m) == IF m.role = "tool" THEN <<OutputItem(m.call, m.parts)>>
                    ELSE <<MessageItem(m.role, m.parts)>>
                         \o [i \in DOMAIN m.calls |-> CallItem(m.calls[i])]
    IN Concat(Items, messages)

\* Blocks of the anthropic API; parts are blocks of their own, except in the
\* result of a tool.
Block(type, parts, c) == [type |-> type, parts |-> parts, call |-> c]

ChatToAnthropic(messages) ==
    LET AnthropicRole(m) == IF m.role = "assistant" THEN "assistant" ELSE "user"
        Blocks(m) == IF m.role = "tool" THEN <<Block("tool_result", m.parts, m.call)>>
                     ELSE [i \in DOMAIN m.parts |-> Block("part", <<m.parts[i]>>, "none")]
                          \o [i \in DOMAIN m.calls |-> Block("tool_use", <<>>, m.calls[i])]
        role == AnthropicRole(Head(messages))
        blocks == Concat(Blocks, messages)
    IN IF \/ \E m \in ToSet(messages) :
                m.role = "system" \/ AnthropicRole(m) # role \/ "svg" \in ToSet(m.parts)
          \/ blocks = <<>>
       THEN ConversionError
       ELSE Converted(<<[role |-> role, blocks |-> blocks]>>)

ChatToSystem(messages) ==
    LET Texts(m) == IF m.role = "system" THEN Only({"text"}, m.parts) ELSE <<>>
        texts == Concat(Texts, messages)
    IN IF texts = <<>> THEN ConversionError
       ELSE Converted(<<[role |-> "user",
                         blocks |-> [i \in DOMAIN texts |-> Block("part", <<texts[i]>>, "none")]]>>)

ChatMessage(role, parts, calls) ==
    [role |-> role, parts |-> parts, calls |-> calls, call |-> "none"]

\* Mutated form of Leftover: calls at the end are dropped.
LeftoverDropped(out, pending) == out

\* Calls wait for the next message; the ones that are left at the end become
\* the calls of the last message, in place of the ones it has.
Leftover(out, pending) ==
    IF pending = <<>> THEN out
    ELSE IF out # <<>> /\ Last(out).role # "tool"
         THEN Append(Front(out), [Last(out) EXCEPT !.calls = pending])
         ELSE Append(out, ChatMessage("assistant", <<>>, pending))

Take(acc, item) ==
    CASE item.type = "message" ->
           [out |-> Append(acc.out, ChatMessage(item.role, item.parts, acc.pending)),
            pending |-> <<>>]
      [] item.type = "function_call_output" ->
           [acc EXCEPT !.out = Append(@, [ChatMessage("tool", item.parts, <<>>)
                                          EXCEPT !.call = item.call])]
      [] item.type = "function_call" -> [acc EXCEPT !.pending = Append(@, item.call)]
      [] OTHER -> acc

ResponsesToChat(items) ==
    LET end == FoldLeft(Take, [out |-> <<>>, pending |-> <<>>], items)
    IN Leftover(end.out, end.pending)

AnthropicToChat(message) ==
    LET Result(b) == IF b.type = "tool_result"
                     THEN <<[ChatMessage("tool", b.parts, <<>>) EXCEPT !.call = b.call]>>
                     ELSE <<>>
        PartsOf(b) == IF b.type = "part" THEN b.parts ELSE <<>>
        CallOf(b) == IF b.type = "tool_use" /\ message.role = "assistant" THEN <<b.call>> ELSE <<>>
    IN Concat(Result, message.blocks)
       \o <<ChatMessage(message.role, Concat(PartsOf, message.blocks), Concat(CallOf, message.blocks))>>

\* The methods of the record classes; output records only dump themselves first.
ToChat(slice) ==
    Converted([chat |-> slice.body,
               responses |-> IF slice.format = "responses" THEN ResponsesToChat(slice.body) ELSE <<>>,
               anthropic |-> IF slice.format = "anthropic" THEN AnthropicToChat(slice.body) ELSE <<>>]
              [slice.format])

ToResponses(slice) ==
    CASE slice.format = "chat" -> Converted(ChatToResponses(slice.body))
      [] slice.format = "responses" -> Converted(slice.body)
      [] slice.format = "anthropic" -> NotImplemented

ToAnthropic(slice) ==
    CASE slice.format = "chat" -> ChatToAnthropic(slice.body)
      [] slice.format = "responses" -> NotImplemented
      [] slice.format = "anthropic" -> Converted(<<slice.body>>)

\* Mutated form of ToSystem: only chat messages have a system conversion.
ToSystemMissing(slice) == IF slice.format = "chat" THEN ChatToSystem(slice.body) ELSE NotImplemented

ToSystem(slice) ==
    CASE slice.format = "chat" -> ChatToSystem(slice.body)
      [] slice.format = "responses" -> NotImplemented
      [] slice.format = "anthropic" -> ConversionError

ConvertAll(slices, To(_), ignoreErrors) ==
    LET each == [i \in DOMAIN slices |-> To(slices[i])]
        errors == {each[i].error : i \in DOMAIN each}
    IN CASE "unimplemented" \in errors -> NotImplemented
         [] "conversion" \in errors /\ ~ignoreErrors -> ConversionError
         [] OTHER -> Converted(FlattenSeq([i \in DOMAIN each |-> each[i].out]))

-----------------------------------------------------------------------------
(* Atoms: who says what, in the order in which it is said.                 *)

Atom(role, what) == <<IF role = "assistant" THEN "model" ELSE "env", what>>
AtomsOf(role, whats) == [i \in DOMAIN whats |-> Atom(role, whats[i])]

ChatAtoms(messages) ==
    LET Each(m) == (IF m.role = "tool" THEN <<Atom("tool", m.call)>> ELSE <<>>)
                   \o AtomsOf(m.role, m.parts) \o AtomsOf(m.role, m.calls)
    IN Concat(Each, messages)

ResponsesAtoms(items) ==
    LET Each(i) == CASE i.type = "function_call" -> <<Atom("assistant", i.call)>>
                     [] i.type = "function_call_output" -> <<Atom("tool", i.call)>> \o AtomsOf("tool", i.parts)
                     [] i.type = "message" -> AtomsOf(i.role, i.parts)
                     [] OTHER -> <<>>
    IN Concat(Each, items)

AnthropicAtoms(messages) ==
    LET Each(m) ==
          LET EachBlock(b) == (IF b.call = "none" THEN <<>> ELSE <<Atom(m.role, b.call)>>)
                              \o AtomsOf(m.role, b.parts)
          IN Concat(EachBlock, m.blocks)
    IN Concat(Each, messages)

Atoms == {"model", "env"} \X (Parts \cup CallIds)
ImageAtoms == {a \in Atoms : a[2] \in Images}
CallAtoms == {a \in Atoms : a[1] = "model" /\ a[2] \in CallIds}
\* The order of a message's text and its calls is not the same in all formats.
WordAtoms == Atoms \ (ImageAtoms \cup CallAtoms)
ActionAtoms == {a \in Atoms : a \in CallAtoms \/ (a[1] = "env" /\ a \notin ImageAtoms)}

\* Mutated form of TrimImages: the oldest images stay.
TrimOldest(atoms, max) ==
    LET before(i) == Len(Only(ImageAtoms, SubSeq(atoms, 1, i - 1)))
        Kept(i) == IF atoms[i] \in ImageAtoms /\ before(i) >= max THEN <<>> ELSE <<atoms[i]>>
    IN FlattenSeq([i \in DOMAIN atoms |-> Kept(i)])

\* trim_images: the newest images stay.
TrimImages(atoms, max) ==
    LET after(i) == Len(Only(ImageAtoms, SubSeq(atoms, i + 1, Len(atoms))))
        Kept(i) == IF atoms[i] \in ImageAtoms /\ after(i) >= max THEN <<>> ELSE <<atoms[i]>>
    IN FlattenSeq([i \in DOMAIN atoms |-> Kept(i)])

-----------------------------------------------------------------------------
(* The clients.  Each yields the atoms of its request, or an error.        *)

ChatRequest(slices) ==
    LET c == ConvertAll(slices, ToChat, FALSE) IN [c EXCEPT !.out = ChatAtoms(@)]

ResponsesRequest(slices) ==
    LET c == ConvertAll(slices, ToResponses, FALSE) IN [c EXCEPT !.out = ResponsesAtoms(@)]

\* The system prompt goes apart; what cannot be converted is left out.
AnthropicRequest(slices) ==
    LET system == ConvertAll(slices, ToSystem, TRUE)
        messages == ConvertAll(slices, ToAnthropic, TRUE)
    IN CASE system.error # "none" -> system
         [] messages.error # "none" -> messages
         [] OTHER -> Converted(AnthropicAtoms(system.out \o messages.out))

Request(api) ==
    CASE api = "chat" -> ChatRequest(history)
      [] api = "responses" -> ResponsesRequest(history)
      [] api = "anthropic" -> AnthropicRequest(history)

NoRequest == [api |-> "none", asked |-> <<>>, atoms |-> <<>>]

\* The API a client uses now.
Api(client) == IF client = "responses" /\ fellBack THEN "chat" ELSE client

-----------------------------------------------------------------------------
(* The workflow.                                                           *)

Slice(format, body) == [format |-> format, body |-> body]

\* Mutated form of Flush: the open group is dropped.
FlushNothing(acc) == acc.history

\* _set_messages: a system message starts the history anew, assistant and tool
\* messages are slices of their own, others are grouped.
Flush(acc) == IF acc.current = <<>> THEN acc.history
              ELSE Append(acc.history, Slice("chat", acc.current))

Place(acc, m) ==
    CASE m.role = "system" -> [history |-> <<Slice("chat", <<m>>)>>, current |-> <<>>]
      [] m.role \in {"assistant", "tool"} ->
           [history |-> Append(Flush(acc), Slice("chat", <<m>>)), current |-> <<>>]
      [] OTHER -> [acc EXCEPT !.current = Append(@, m)]

SetMessages(before, messages) ==
    Flush(FoldLeft(Place, [history |-> before, current |-> <<>>], messages))

\* The conversation as a whole: it begins with the last system message.
Said(before, messages) ==
    LET starts == {i \in DOMAIN messages : messages[i].role = "system"}
    IN IF starts = {} THEN before \o ChatAtoms(messages)
       ELSE ChatAtoms(SubSeq(messages, Max(starts), Len(messages)))

AtomsIn(slice) ==
    CASE slice.format = "chat" -> ChatAtoms(slice.body)
      [] slice.format = "responses" -> ResponsesAtoms(slice.body)
      [] slice.format = "anthropic" -> AnthropicAtoms(<<slice.body>>)

EnvironmentResponds(messages, finish) ==
    /\ pc = "env" /\ (finish \/ turn < MaxTurns)
    /\ history' = SetMessages(history, messages)
    /\ log' = Said(log, messages)
    /\ pc' = IF finish THEN "done" ELSE "model"
    /\ UNCHANGED <<clients, fellBack, request, answer, sent, turn, sample>>

Fail == pc' = "error" /\ UNCHANGED <<clients, history, answer, sent, log, sample>>

QueryAnswered(client, body) ==
    /\ pc = "model" /\ client \in clients
    /\ body \in Outputs[Api(client)]
    /\ Request(Api(client)).error = "none"
    /\ request' = [api |-> Api(client), asked |-> log,
                   atoms |-> TrimImages(Request(Api(client)).out, MaxImages)]
    /\ answer' = Slice(Api(client), body)
    /\ history' = Append(history, answer')
    /\ log' = log \o AtomsIn(answer')
    /\ pc' = "send" /\ turn' = turn + 1
    /\ UNCHANGED <<clients, fellBack, sent, sample>>

\* The history has no form in this client's API: the sample ends.
QueryNotConverted(client) ==
    /\ pc = "model" /\ client \in clients
    /\ Request(Api(client)).error # "none"
    /\ Fail /\ UNCHANGED <<fellBack, request, turn>>

\* The Responses API rejects the request.  The client changes to chat
\* completions for good, but hands over messages that are converted already,
\* which is an error: this sample ends.
QueryRejected(client) ==
    /\ pc = "model" /\ client \in clients
    /\ Request(Api(client)).error = "none"
    /\ fellBack' = (fellBack \/ Api(client) = "responses")
    /\ Fail /\ UNCHANGED <<request, turn>>

Interact ==
    /\ pc = "send"
    /\ sent' = ToChat(answer).out
    /\ pc' = "env"
    /\ UNCHANGED <<clients, fellBack, history, request, answer, log, turn, sample>>

NextSample ==
    /\ pc \in {"done", "error"} /\ sample < MaxSamples
    /\ pc' = "env" /\ history' = <<>> /\ log' = <<>> /\ turn' = 0 /\ sample' = sample + 1
    /\ request' = NoRequest
    /\ answer' = Slice("chat", <<>>) /\ sent' = <<>>
    /\ UNCHANGED <<clients, fellBack>>

Init ==
    /\ clients \in ClientSets /\ fellBack = FALSE
    /\ pc = "env" /\ history = <<>> /\ log = <<>> /\ turn = 0 /\ sample = 1
    /\ request = NoRequest
    /\ answer = Slice("chat", <<>>) /\ sent = <<>>

Next ==
    \/ \E messages \in Responses : EnvironmentResponds(messages, FALSE)
    \/ EnvironmentResponds(<<>>, TRUE)
    \/ \E client \in Apis :
          \/ \E body \in Outputs[Api(client)] : QueryAnswered(client, body)
          \/ QueryNotConverted(client) \/ QueryRejected(client)
    \/ Interact
    \/ NextSample

Spec == Init /\ [][Next]_vars

-----------------------------------------------------------------------------
(* Properties.                                                             *)

Calls(atoms) == Only(CallAtoms, atoms)
Shown(atoms) == Only(ImageAtoms, atoms)
Words(atoms) == Only(WordAtoms, atoms)
Actions(atoms) == Only(ActionAtoms, atoms)

\* Two known losses.  An image of a type that anthropic does not take makes its
\* whole slice disappear from the request.  Of the calls around a message in an
\* answer of the Responses API, the ones before it are lost in chat messages.
Unsupported == request.api = "anthropic" /\ <<"env", "svg">> \in ToSet(request.asked)
CallsAround(slice) ==
    /\ slice.format = "responses"
    /\ \E i, j, k \in DOMAIN slice.body :
        /\ i < j /\ j < k
        /\ <<slice.body[i].type, slice.body[j].type, slice.body[k].type>>
             = <<"function_call", "message", "function_call">>

\* The model is asked about the whole conversation since the last system message,
\* in its order, whatever the formats it was said in: no text, call or result is
\* lost, doubled or moved by grouping into slices, conversion or trimming
\* (workflow.py:185-220, convert/messages.py:63-515).
RequestFaithful ==
    pc = "send" /\ ~Unsupported =>
        /\ Words(request.atoms) = Words(request.asked)
        /\ \/ Actions(request.atoms) = Actions(request.asked)
           \/ request.api = "chat" /\ \E s \in ToSet(history) : CallsAround(s)

\* The images of a request are the newest ones of the conversation, as many as
\* the client's limit allows (utils/messages.py:23-64).
NewestImagesKept ==
    pc = "send" /\ ~Unsupported =>
        LET all == Shown(request.asked)
            n == IF Len(all) < MaxImages THEN Len(all) ELSE MaxImages
        IN Shown(request.atoms) = SubSeq(all, Len(all) - n + 1, Len(all))

\* The environment gets every tool call of the model's answer, in order, also
\* those that no message follows (workflow.py:156-164, convert/messages.py:289-356).
CallsReachEnvironment ==
    pc = "env" /\ sent # <<>> =>
        \/ Calls(ChatAtoms(sent)) = Calls(SubSeq(log, Len(request.asked) + 1, Len(log)))
        \/ CallsAround(answer)

\* Whatever has been said, every client can be asked about it, also after the
\* fall back to chat completions; cross sampling of clients of the Responses and
\* the anthropic API is the exception (openai.py:125-174, anthropic.py:169-227,
\* convert/_base.py:39-60).
EveryClientCanAsk ==
    pc = "model" /\ ~({"responses", "anthropic"} \subseteq clients) =>
        \A client \in clients : Request(Api(client)).error = "none"
=============================================================================
