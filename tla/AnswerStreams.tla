---------------------------- MODULE AnswerStreams ----------------------------
(* What becomes of an answer on its way to the client: tool calls that a model     *)
(* wrote as text (toolcall_rescue.py), the formats of OpenAI and Anthropic clients *)
(* (openai_api.py, anthropic_api.py), and the streams of cloud providers and       *)
(* OpenAI servers that are read back into Ollama's form (cloud.py).                *)
(*                                                                                 *)
(* Text is a sequence of tokens that only tells apart what the code looks for; a   *)
(* tool call is its name. Identifiers, arguments, times and wording are left out,  *)
(* and pings, which may come anywhere.                                             *)
EXTENDS Integers, Sequences, FiniteSets
LOCAL INSTANCE SequencesExt

CONSTANTS
    Tokens,      \* the text that the checks at the end are made of
    MaxBuffer    \* MAX_BUFFER in tokens

\* "xml", "json": a whole call of an offered tool in that dialect; "xmlFake" of one that
\* was not offered; "lt" "rest": an XML call cut after its "<"; "wrap": a mantle.
AllTokens == {"word", "space", "xml", "json", "xmlFake", "lt", "rest", "wrap"}
ASSUME TokensAssumption == Tokens \subseteq AllTokens /\ MaxBuffer \in Nat

\* A line of Ollama's stream.
Chunk(think, text, calls, done) == [think |-> think, text |-> text, calls |-> calls, done |-> done]
Join(chunks, field(_)) == FlattenSeq([i \in DOMAIN chunks |-> field(chunks[i])])
TextIn(chunks) == Join(chunks, LAMBDA c : c.text)
ThoughtIn(chunks) == Join(chunks, LAMBDA c : c.think)
CallsIn(chunks) == Join(chunks, LAMBDA c : c.calls)

----------------------------------------------------------------------------
(* Rescue of tool calls *)

CallSize == 4
SizeOf(token) ==
    CASE token \in {"xml", "json", "xmlFake"} -> CallSize
      [] token = "rest" -> CallSize - 1
      [] token \in {"word", "lt"} -> 1
      [] token \in {"wrap", "space"} -> 0
Payload(text) == FoldLeft(LAMBDA n, t : n + SizeOf(t), 0, text)

XmlAt(text, i) ==
    IF text[i] = "rest" /\ i > 1 /\ text[i - 1] = "lt" THEN "xml" ELSE text[i]
FirstAt(text, kinds) ==
    LET hits == {i \in DOMAIN text : XmlAt(text, i) \in kinds}
    IN  IF hits = {} THEN "none" ELSE XmlAt(text, CHOOSE i \in hits : \A k \in hits : i <= k)
\* extract: the first XML call, or else the first JSON call of an offered tool, if it
\* is at least MIN_SHARE of the text.
Extract(text) ==
    LET xml == FirstAt(text, {"xml", "xmlFake"})
        call == IF xml = "xml" THEN xml ELSE FirstAt(text, {"json"})
    IN  IF call # "none" /\ 10 * CallSize >= 8 * Payload(text) THEN call ELSE "none"

\* RE_CANDIDATE: the beginning of a text that may become a call.
MayBeCall(text) ==
    LET solid == SelectSeq(text, LAMBDA t : t # "space")
    IN  /\ solid # <<>>
        /\ \/ solid[1] \in {"xml", "json", "xmlFake", "wrap"}
           \/ Len(text) > 1 /\ solid[1] = "lt" /\ solid[2] = "rest"
Suspicious(text) == MayBeCall(text)

RescueMessage(m) ==
    IF m.calls = <<>> /\ Extract(m.text) # "none"
    THEN [m EXCEPT !.calls = <<Extract(m.text)>>, !.text = <<>>] ELSE m

NewRescuer == [buffer |-> <<>>, holding |-> TRUE, rescued |-> "none", lost |-> FALSE, out |-> <<>>]
Passes(s, chunks) == [s EXCEPT !.out = @ \o chunks]
\* _release: the held text in a chunk of its own before this one.
ReleaseText(s, j) ==
    LET text == s.buffer \o j.text
    IN  Passes([s EXCEPT !.buffer = <<>>, !.holding = FALSE],
               IF text = <<>> THEN <<j>>
               ELSE <<Chunk(<<>>, text, <<>>, FALSE), [j EXCEPT !.text = <<>>]>>)
FinishRescue(s, j) ==
    IF s.buffer # <<>> /\ Extract(s.buffer) # "none"
    THEN Passes([s EXCEPT !.holding = FALSE, !.buffer = <<>>, !.rescued = Extract(s.buffer)],
                <<Chunk(<<>>, <<>>, <<Extract(s.buffer)>>, j.done)>>)
    ELSE ReleaseText([s EXCEPT !.lost = Suspicious(s.buffer)], j)
RescueChunk(s, j) ==
    LET pending == s.buffer \o j.text
        held == [j EXCEPT !.text = <<>>]
    IN  IF ~s.holding THEN Passes(s, <<j>>)
        ELSE IF j.calls # <<>> \/ (j.text # <<>> /\ (~MayBeCall(pending) \/ Payload(pending) > MaxBuffer))
             THEN ReleaseText(s, j)
        ELSE IF j.done THEN FinishRescue([s EXCEPT !.buffer = pending], held)
        ELSE IF j.text # <<>> THEN [s EXCEPT !.buffer = pending] ELSE Passes(s, <<j>>)
Rescue(chunks) == FoldLeft(RescueChunk, NewRescuer, chunks)

----------------------------------------------------------------------------
(* The Anthropic format *)

SseEvent(kind, index, type, text) == [ev |-> kind, index |-> index, type |-> type, text |-> text]
Emits(s, e) == [s EXCEPT !.out = Append(@, e)]
NewAnthropic(shown) ==
    [index |-> -1, open |-> "none", tools |-> FALSE, finished |-> FALSE, shown |-> shown,
     out |-> <<SseEvent("message_start", 0, "none", <<>>)>>]

CloseBlock(s) ==
    LET signed == IF s.open = "thinking" THEN Emits(s, SseEvent("delta", s.index, "signature", <<>>)) ELSE s
    IN  IF s.open = "none" THEN s ELSE [Emits(signed, SseEvent("stop", s.index, s.open, <<>>)) EXCEPT !.open = "none"]
StartBlock(s, type) ==
    LET c == CloseBlock(s)
    IN  [Emits(c, SseEvent("start", c.index + 1, type, <<>>)) EXCEPT !.index = c.index + 1]
\* _delta: thinking that the client does not want leaves its block without text.
DeltaBlock(s, type, text) ==
    LET b == IF s.open = type THEN s ELSE [StartBlock(s, type) EXCEPT !.open = type]
    IN  IF text = <<>> THEN s
        ELSE IF type = "thinking" /\ ~s.shown THEN b ELSE Emits(b, SseEvent("delta", b.index, type, text))
ToolBlock(s, call) ==
    LET b == StartBlock([s EXCEPT !.tools = TRUE], "tool_use")
    IN  Emits(Emits(b, SseEvent("delta", b.index, "tool_use", <<call>>)), SseEvent("stop", b.index, "tool_use", <<>>))
EndMessage(s) ==
    LET c == CloseBlock([s EXCEPT !.finished = TRUE])
    IN  Emits(Emits(c, SseEvent("message_delta", 0, IF s.tools THEN "tool_use" ELSE "end_turn", <<>>)),
              SseEvent("message_stop", 0, "none", <<>>))
AnthropicChunk(s, j) ==
    LET said == DeltaBlock(DeltaBlock(s, "thinking", j.think), "text", j.text)
        called == FoldLeft(ToolBlock, said, j.calls)
    IN  IF j.done /\ ~s.finished THEN EndMessage(called) ELSE called
AnthropicTail(s) == IF s.finished THEN s ELSE EndMessage(s)
AnthropicError(s) == Emits([s EXCEPT !.finished = TRUE], SseEvent("error", 0, "none", <<>>))
AnthropicStream(chunks, shown) == AnthropicTail(FoldLeft(AnthropicChunk, NewAnthropic(shown), chunks)).out

\* message: the same answer in one piece.
AnthropicMessage(j) ==
    [content |-> (IF j.think # <<>> THEN <<"thinking">> ELSE <<>>) \o (IF j.text # <<>> THEN <<"text">> ELSE <<>>)
                 \o [i \in DOMAIN j.calls |-> "tool_use"],
     stop |-> IF j.calls # <<>> THEN "tool_use" ELSE "end_turn"]

----------------------------------------------------------------------------
(* The OpenAI format *)

OpenAIEvent(content, reasoning, calls, finish) ==
    [content |-> content, reasoning |-> reasoning, calls |-> calls, finish |-> finish]
\* oa_tool_calls numbers the calls of one chunk from 0.
Numbered(calls) == [i \in DOMAIN calls |-> [index |-> i - 1, name |-> calls[i]]]
OpenAIChunk(s, j) ==
    LET tools == s.tools \/ j.calls # <<>>
        delta == OpenAIEvent(j.text, j.think, Numbered(j.calls), "none")
        says == j.text # <<>> \/ j.think # <<>> \/ j.calls # <<>>
        finish == OpenAIEvent(<<>>, <<>>, <<>>, IF tools THEN "tool_calls" ELSE "stop")
    IN  [tools |-> tools,
         out |-> s.out \o (IF says THEN <<delta>> ELSE <<>>) \o (IF j.done THEN <<finish>> ELSE <<>>)]
\* The tail, data: [DONE], adds nothing a client has to understand.
OpenAIStream(chunks) == FoldLeft(OpenAIChunk, [tools |-> FALSE, out |-> <<>>], chunks).out
OpenAIComplete(j) ==
    OpenAIEvent(j.text, j.think, Numbered(j.calls), IF j.calls # <<>> THEN "tool_calls" ELSE "stop")

----------------------------------------------------------------------------
(* Answers of providers *)

NativeDone(text, calls, think) == Chunk(think, text, calls, TRUE)

\* run.gen: text at once, calls once the stream is over, thinking not at all.
FromAnthropic(events) ==
    LET deltas(type) == SelectSeq(events, LAMBDA e : e.ev = "delta" /\ e.type = type)
        said == deltas("text")
        called == Join(deltas("tool_use"), LAMBDA e : e.text)
    IN  [i \in DOMAIN said |-> Chunk(<<>>, said[i].text, <<>>, FALSE)] \o <<NativeDone(<<>>, called, <<>>)>>
\* _an_content_to_native
FromAnthropicContent(m) == SelectSeq(m.content, LAMBDA b : b \in {"text", "tool_use"})

\* openai_exchange.gen: calls are put together by their index.
FromOpenAI(events) ==
    LET said == SelectSeq(events, LAMBDA e : e.content # <<>> \/ e.reasoning # <<>>)
        parts == Join(events, LAMBDA e : e.calls)
        indices == {parts[i].index : i \in DOMAIN parts}
        name(k) == FlattenSeq([i \in DOMAIN parts |-> IF parts[i].index = k THEN <<parts[i].name>> ELSE <<>>])
        merged == [k \in 1..Cardinality(indices) |-> name(k - 1)]
    IN  [i \in DOMAIN said |-> Chunk(said[i].reasoning, said[i].content, <<>>, FALSE)]
            \o <<NativeDone(<<>>, merged, <<>>)>>
FromOpenAIComplete(e) == NativeDone(e.content, [i \in DOMAIN e.calls |-> e.calls[i].name], e.reasoning)

----------------------------------------------------------------------------
(* What holds of them: streams of two lines and a last one *)

Texts == {<<>>} \cup {<<t>> : t \in Tokens}
Thoughts == {<<>>, <<"thought">>}
\* Lines whose text matters, without thoughts in a line with text, and lines in which
\* everything may come together.
Written == {Chunk(<<>>, text, calls, FALSE) : text \in Texts, calls \in {<<>>, <<"a">>}}
Lines == {Chunk(think, text, calls, FALSE) :
            think \in Thoughts, text \in {<<>>, <<"word">>}, calls \in {<<>>, <<"a">>, <<"a", "b">>}}
Streams(lines) == {<<c, d, [e EXCEPT !.done = TRUE]>> : c \in lines, d \in lines, e \in lines}
Count(seq, P(_)) == Cardinality({i \in DOMAIN seq : P(seq[i])})

\* No answer is lost and none is doubled by the rescue, thoughts and calls included,
\* except that the text of a rescued call becomes the call. Only thoughts that come in
\* one line with held text are not passed on.
ASSUME RescueKeepsTheAnswer ==
    \A s \in Streams(Written \cup {Chunk(<<"thought">>, <<>>, <<>>, FALSE)}) : \E r \in {Rescue(s)} :
        /\ \/ r.rescued = "none" /\ TextIn(r.out) = TextIn(s) /\ CallsIn(r.out) = CallsIn(s)
           \/ r.rescued # "none" /\ TextIn(r.out) = <<>> /\ CallsIn(r.out) = <<r.rescued>>
        /\ s[3].think = <<>> => ThoughtIn(r.out) = ThoughtIn(s)
        /\ Count(r.out, LAMBDA c : c.done) = 1 /\ r.out[Len(r.out)].done

\* A rescued call is one that was offered, and next to it the model wrote nothing much;
\* a stream is never rescued where the whole answer would not have been.
ASSUME NoCallIsInvented ==
    \A s \in Streams(Written) : \E r \in {Rescue(s)} :
        r.rescued # "none" =>
            /\ CallsIn(s) = <<>> /\ r.rescued = Extract(TextIn(s))
            /\ 5 * CallSize >= 4 * Payload(TextIn(s))

\* Blocks of an Anthropic stream do not overlap and are numbered in their order; the
\* message ends once, at the end.
BlocksAreInOrder(out) ==
    LET before(i, kind) == Cardinality({k \in 1..(i - 1) : out[k].ev = kind})
    IN  /\ out[1].ev = "message_start" /\ before(Len(out) + 1, "message_start") = 1
        /\ \A i \in DOMAIN out :
            /\ out[i].ev = "start" => before(i, "stop") = before(i, "start") /\ out[i].index = before(i, "start")
            /\ out[i].ev \in {"delta", "stop"} => before(i, "stop") = before(i, "start") - 1
                                                  /\ out[i].index = before(i, "start") - 1
            /\ out[i].ev = "message_delta" => before(i, "stop") = before(i, "start") /\ i = Len(out) - 1
            /\ out[i].ev = "message_stop" <=> i = Len(out)
ASSUME AnthropicStreamsAreWellFormed ==
    \A s \in Streams(Lines) : \A shown \in BOOLEAN :
        BlocksAreInOrder(AnthropicStream(s, shown)) /\ BlocksAreInOrder(AnthropicStream(Front(s), shown))

\* The client of either format, and a router that reads the stream again, gets the text
\* and the calls of the model; of an OpenAI stream, if the calls come in one line.
OneLine(s) == Count(s, LAMBDA c : c.calls # <<>>) <= 1
ASSUME FormatsKeepTheAnswer ==
    \A s \in Streams(Lines) :
        /\ \E a \in {FromAnthropic(AnthropicStream(s, TRUE))} : TextIn(a) = TextIn(s) /\ CallsIn(a) = CallsIn(s)
        /\ \E o \in {FromOpenAI(OpenAIStream(s))} :
            /\ TextIn(o) = TextIn(s) /\ ThoughtIn(o) = ThoughtIn(s)
            /\ OneLine(s) => CallsIn(o) = [i \in DOMAIN CallsIn(s) |-> <<CallsIn(s)[i]>>]

\* The same answer in one piece has the blocks and the stop reason of the stream.
ASSUME OnePieceIsTheSame ==
    \A j \in Lines : \E out \in {AnthropicStream(<<[j EXCEPT !.done = TRUE]>>, TRUE)} :
        /\ AnthropicMessage(j).content = Join(out, LAMBDA e : IF e.ev = "start" THEN <<e.type>> ELSE <<>>)
        /\ AnthropicMessage(j).stop = out[Len(out) - 1].type
        /\ FromOpenAIComplete(OpenAIComplete(j)) = [j EXCEPT !.done = TRUE]
=============================================================================
