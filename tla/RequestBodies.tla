---------------------------- MODULE RequestBodies ----------------------------
(* What becomes of a conversation on its way to a model: an Anthropic or OpenAI    *)
(* client's messages as an Ollama request (anthropic_api.py, openai_api.py), and   *)
(* an Ollama request as the body for a cloud provider or an OpenAI server          *)
(* (cloud.py).                                                                     *)
(*                                                                                 *)
(* A text or an image is one element; of a tool call its name and its identifier   *)
(* count, because the formats tie a result to its call in three ways: by the       *)
(* identifier (Anthropic, OpenAI), by the name of the tool (Ollama), or only by    *)
(* the order.                                                                      *)
EXTENDS Integers, Sequences, FiniteSets
LOCAL INSTANCE SequencesExt

CONSTANTS Ids, ToolNames, Nothing      \* Nothing: a field that is not there
ASSUME NothingAssumption == Nothing \notin Ids /\ Nothing \notin ToolNames

Which(seq, Q(_)) == SelectSeq(seq, Q)
Each(seq, f(_)) == [i \in DOMAIN seq |-> f(seq[i])]
Positions(seq, Q(_)) == {i \in DOMAIN seq : Q(seq[i])}
Highest(S) == CHOOSE i \in S : \A k \in S : k <= i
HowMany(seq, Q(_)) == Cardinality(Positions(seq, Q))

----------------------------------------------------------------------------
(* Clients *)

\* A content block [type, id, name]: "text", "image", "url" (an image the router does not
\* fetch), "tool_use", "tool_result", "thinking", or "other".
Block(type, id, name) == [type |-> type, id |-> id, name |-> name]
OfType(blocks, type) == Which(blocks, LAMBDA b : b.type = type)
Native(role, texts, images, calls, tool, ref) ==
    [role |-> role, texts |-> texts, images |-> images, calls |-> calls, tool |-> tool, ref |-> ref]

\* The blocks that messages_to_native refuses.
Unsupported(m) ==
    \/ m.role \notin {"user", "assistant", "system"}
    \/ m.role # "system" /\ \E i \in DOMAIN m.blocks :
        LET type == m.blocks[i].type
        IN  \/ type \in {"other", "url"}
            \/ type = "tool_use" /\ m.role # "assistant"
            \/ type = "tool_result" /\ m.role # "user"

\* The name of the last earlier tool_use with this identifier.
NameOf(ms, i, id) ==
    LET uses == Which(FlattenSeq([k \in 1..(i - 1) |-> OfType(ms[k].blocks, "tool_use")]), LAMBDA b : b.id = id)
    IN  IF uses = <<>> THEN Nothing ELSE uses[Len(uses)].name

\* Results first, each as a message; thinking is not sent back to the model.
MessageToNative(ms, i, keepIds) ==
    LET m == ms[i]
        texts == Len(OfType(m.blocks, "text"))
        images == Len(OfType(m.blocks, "image"))
        calls == Each(OfType(m.blocks, "tool_use"), LAMBDA b : [name |-> b.name, id |-> Nothing])
        results == Each(OfType(m.blocks, "tool_result"),
                        LAMBDA b : Native("tool", 1, 0, <<>>, NameOf(ms, i, b.id), IF keepIds THEN b.id ELSE Nothing))
    IN  IF m.role = "system"
        THEN IF texts > 0 THEN <<Native("system", texts, 0, <<>>, Nothing, Nothing)>> ELSE <<>>
        ELSE IF m.role = "assistant" THEN <<Native("assistant", texts, 0, calls, Nothing, Nothing)>>
        ELSE results \o IF texts + images > 0 \/ results = <<>>
                        THEN <<Native("user", texts, images, <<>>, Nothing, Nothing)>> ELSE <<>>
Refused == <<"refused">>
MessagesToNative(ms, keepIds) ==
    IF ms = <<>> \/ \E i \in DOMAIN ms : Unsupported(ms[i]) THEN Refused
    ELSE FlattenSeq([i \in DOMAIN ms |-> MessageToNative(ms, i, keepIds)])

\* oa_messages_to_native: one message each; what it does not know is left out. A tool
\* message names its tool only if the client says it.
OpenAIToNative(ms, keepIds) ==
    Each(ms, LAMBDA m :
        Native(m.role, Len(OfType(m.blocks, "text")), Len(OfType(m.blocks, "image")),
               Each(OfType(m.blocks, "tool_use"), LAMBDA b : [name |-> b.name, id |-> Nothing]),
               IF m.role = "tool" THEN m.name ELSE Nothing,
               IF m.role = "tool" /\ keepIds THEN m.ref ELSE Nothing))

\* tools_to_native: tools of the provider itself have no schema. `choice` none takes all
\* away, any and tool become a hint in the system text (tool_choice_hint, to_native).
ToolsToNative(tools, choice) ==
    IF choice = "none" THEN <<>> ELSE Which(tools, LAMBDA t : t.name # Nothing /\ t.schema)
Hint(tools, choice) == choice \in {"any", "tool"} /\ tools # <<>>
WithSystem(messages, system, hint) ==
    IF system + hint = 0 THEN messages
    ELSE <<Native("system", system + hint, 0, <<>>, Nothing, Nothing)>> \o messages

\* think_for and oa_think.
AnthropicThink(mode, type) == IF mode = "auto" THEN type \in {"enabled", "adaptive"} ELSE mode = "on"
OpenAIThink(think, effort, default) ==
    IF think # Nothing THEN think ELSE IF effort # Nothing THEN effort # "none" ELSE default

----------------------------------------------------------------------------
(* Providers and OpenAI servers *)

\* Identifiers for calls that have none are made of a running number: one more than the
\* calls whose results are still to come. A result without one gets the first of them.
NewIds(queue, calls) ==
    FoldLeft(LAMBDA q, c : Append(q, IF c.id # Nothing THEN c.id ELSE Len(q) + 1), queue, calls)
Added(queue, calls) == SubSeq(NewIds(queue, calls), Len(queue) + 1, Len(queue) + Len(calls))
ResultId(m, queue) == IF m.ref # Nothing THEN m.ref ELSE IF queue # <<>> THEN Head(queue) ELSE 1
Consumed(m, queue) == IF m.ref = Nothing /\ queue # <<>> THEN Tail(queue) ELSE queue

\* _oa_messages
OpenAIMessage(s, m) ==
    LET calls == m.role = "assistant" /\ m.calls # <<>>
    IN  [queue |-> IF calls THEN NewIds(s.queue, m.calls) ELSE IF m.role = "tool" THEN Consumed(m, s.queue) ELSE s.queue,
         out |-> Append(s.out,
            [role |-> m.role, texts |-> m.texts, images |-> m.images,
             calls |-> IF calls THEN Added(s.queue, m.calls) ELSE <<>>,
             results |-> IF m.role = "tool" THEN <<ResultId(m, s.queue)>> ELSE <<>>])]
ToOpenAI(ms) == FoldLeft(OpenAIMessage, [queue |-> <<>>, out |-> <<>>], ms).out

\* _an_body: system texts apart, results as user messages, neighbours of one role joined
\* unless the second is a result; never an empty message.
Turn(role, texts, images, calls, results) ==
    [role |-> role, texts |-> texts, images |-> images, calls |-> calls, results |-> results]
Joined(t, u) ==
    Turn(t.role, t.texts + u.texts, t.images + u.images, t.calls \o u.calls, t.results)
AnthropicMessageOf(s, m) ==
    LET calls == IF m.role = "assistant" THEN m.calls ELSE <<>>
        texts == IF m.texts + m.images + Len(calls) = 0 THEN 1 ELSE m.texts
        turn == Turn(m.role, texts, m.images, Added(s.queue, calls), <<>>)
        n == Len(s.out)
    IN  IF m.role = "system" THEN [s EXCEPT !.system = @ + m.texts]
        ELSE IF m.role = "tool"
        THEN [s EXCEPT !.queue = Consumed(m, @),
                       !.out = Append(@, Turn("user", m.texts, 0, <<>>, <<ResultId(m, s.queue)>>))]
        ELSE [s EXCEPT !.queue = NewIds(@, calls),
                       !.out = IF n > 0 /\ s.out[n].role = m.role
                               THEN [@ EXCEPT ![n] = Joined(@, turn)] ELSE Append(@, turn)]
ToAnthropic(ms) == FoldLeft(AnthropicMessageOf, [queue |-> <<>>, system |-> 0, out |-> <<>>], ms)

\* _oa_body, openai_exchange: what the other side hears of think = false.
ReasoningEffort(think, reasoningModel, localServer) ==
    IF think # FALSE THEN Nothing
    ELSE IF localServer THEN "none" ELSE IF reasoningModel THEN "minimal" ELSE Nothing
\* _an_body: Anthropic asks for a limit.
MaxTokens(numPredict) == IF numPredict # Nothing /\ numPredict > 0 THEN numPredict ELSE 4096

----------------------------------------------------------------------------
(* What holds of them: conversations of at most four messages *)

Says(role) == [role |-> role, blocks |-> <<Block("text", Nothing, Nothing)>>]
Uses(ids) == [role |-> "assistant",
              blocks |-> Each(ids, LAMBDA id : Block("tool_use", id, CHOOSE n \in ToolNames : TRUE))]
Results(ids) == [role |-> "user", blocks |-> Each(ids, LAMBDA id : Block("tool_result", id, Nothing))]
ResultsAndMore(ids) ==
    [role |-> "user", blocks |-> <<Block("text", Nothing, Nothing)>> \o Results(ids).blocks
                                    \o <<Block("image", Nothing, Nothing), Block("thinking", Nothing, Nothing)>>]
Lists == {<<i>> : i \in Ids} \cup {<<i, j>> : i \in Ids, j \in Ids}
Messages == {Says("user"), Says("assistant"), Says("system")}
            \cup {Uses(l) : l \in Lists} \cup {Results(l) : l \in Lists} \cup {ResultsAndMore(l) : l \in Lists}
Conversations == {<<a, b, c>> : a \in Messages, b \in Messages, c \in Messages}

BlocksOf(ms) == FlattenSeq([i \in DOMAIN ms |-> ms[i].blocks])
SumOver(seq, f(_)) == FoldLeft(LAMBDA n, x : n + f(x), 0, seq)

\* Nothing of the history is lost on the way to Ollama but thinking, and a result keeps
\* its place after the call it answers and before what the user says to it.
ASSUME HistoryIsComplete ==
    \A ms \in Conversations : \E out \in {MessagesToNative(ms, TRUE)} :
        LET blocks == BlocksOf(ms)
            all(type) == Len(OfType(blocks, type))
            tools == Which(out, LAMBDA m : m.role = "tool")
        IN  /\ SumOver(Which(out, LAMBDA m : m.role # "tool"), LAMBDA m : m.texts) = all("text")
            /\ SumOver(out, LAMBDA m : m.images) = all("image")
            /\ SumOver(out, LAMBDA m : Len(m.calls)) = all("tool_use")
            /\ Each(tools, LAMBDA m : m.ref) = Each(OfType(blocks, "tool_result"), LAMBDA b : b.id)
            /\ \A i \in 1..(Len(out) - 1) : out[i].role = "user" => out[i + 1].role # "tool" \/ out[i].texts > 0

\* A conversation in turns: calls, all their results in their order, perhaps some text.
InTurns(l, m) == <<Says("user"), Uses(l), Results(l), Uses(m), ResultsAndMore(m)>>
CallsBefore(out, i) == FlattenSeq([k \in 1..(i - 1) |-> out[k].calls])
ResultsIn(out) == FlattenSeq([k \in DOMAIN out |-> out[k].results])
\* The n-th result names the n-th call, and the last call of that name before it.
Tied(out) ==
    \A i \in DOMAIN out : out[i].results # <<>> =>
        LET n == Len(FlattenSeq([k \in 1..i |-> out[k].results]))
            calls == CallsBefore(out, i)
        IN  /\ calls[n] = out[i].results[1]
            /\ \A k \in (n + 1)..Len(calls) : calls[k] # calls[n]
\* Ollama's format has no identifiers. The made-up ones tie every result to its call, as
\* long as all calls of a turn are answered in their order.
ASSUME ResultsNameTheirCalls ==
    \A l, m \in Lists : \E out \in {MessagesToNative(InTurns(l, m), FALSE)} :
        Tied(ToOpenAI(out)) /\ Tied(ToAnthropic(out).out)

\* The roles of an Anthropic body alternate, but for results that follow each other.
ASSUME RolesAlternate ==
    \A ms \in Conversations : \E out \in {ToAnthropic(MessagesToNative(ms, FALSE)).out} :
        \A i \in 1..(Len(out) - 1) :
            out[i].role = out[i + 1].role => out[i].role = "user" /\ out[i + 1].results # <<>>

\* A client that wants no thinking gets none from a local server or a reasoning model.
ASSUME ThinkingIsOff ==
    /\ \A d \in BOOLEAN : ReasoningEffort(OpenAIThink(Nothing, "none", d), FALSE, TRUE) = "none"
    /\ \A m \in {"auto", "off"} : ReasoningEffort(AnthropicThink(m, "disabled"), TRUE, FALSE) = "minimal"
=============================================================================
