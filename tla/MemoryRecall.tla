---------------------------- MODULE MemoryRecall ----------------------------
(* What a chat takes from the memory service and what it leaves there              *)
(* (memory.py): which facts of an answer are passed on under the limits, how the   *)
(* facts of several projects are merged, and which answers are retained.           *)
(*                                                                                 *)
(* A fact's words are a value; sizes are small numbers: `size` of the text alone,  *)
(* and one more for the frame of each fact in what is handed to the model.         *)
EXTENDS Integers, Sequences, FiniteSets
LOCAL INSTANCE SequencesExt

CONSTANTS
    Absent,                    \* no limit, no source, no list
    MaxScore, MaxSize,         \* of a fact
    MaxResults,                \* facts in an answer of the service that are looked at
    MaxContent                 \* size of an answer that may be retained

ASSUME RecallAssumption ==
    /\ {MaxScore, MaxSize, MaxResults, MaxContent} \subseteq Nat
    /\ Absent \notin 0..(MaxResults + 1)

----------------------------------------------------------------------------
(* One bank: MemoryService.recall *)

\* A fact [id, twin: the single fact it was derived from or Absent, score, clean: a
\* well-formed fact that no filter rejects, size, says: its words].
\* Limits [score, facts, bytes, text]; Absent is no limit on facts or on text.
Usable(limits, fact) == fact.clean /\ (limits.score > 0 => fact.score >= limits.score)
Sized(op(_), facts) == FoldLeft(LAMBDA n, f : n + op(f), 0, facts)
TextOf(facts) == Sized(LAMBDA f : f.size, facts)
Packed(facts) == Sized(LAMBDA f : f.size + 1, facts)
Known(fact) == {fact.id, fact.twin} \ {Absent}

Empty(state) == [state |-> state, items |-> <<>>, shown |-> {}, trimmed |-> 0, duplicates |-> 0,
                 client |-> FALSE, bytes |-> FALSE]
Full(limits, r) == limits.facts # Absent /\ Len(r.items) = limits.facts
TooMuchText(limits, items) == limits.text # Absent /\ TextOf(items) > limits.text
\* One more fact: a repetition, one that exceeds a limit, or one that is passed on.
Take(limits, r, fact, repeats, marks) ==
    LET with == Append(r.items, fact)
    IN  IF repeats THEN [r EXCEPT !.duplicates = @ + 1]
        ELSE IF TooMuchText(limits, with) THEN [r EXCEPT !.trimmed = @ + 1, !.client = TRUE]
        ELSE IF Packed(with) > limits.bytes THEN [r EXCEPT !.trimmed = @ + 1, !.bytes = TRUE]
        ELSE [r EXCEPT !.items = with, !.shown = @ \cup marks]
LimitedBy(limits, r) ==
    IF Full(limits, r) THEN "facts" ELSE IF r.client THEN "client" ELSE IF r.bytes THEN "bytes" ELSE "results"

Select(limits, facts) ==
    LET one(r, fact) == IF Full(limits, r) \/ ~Usable(limits, fact) THEN r
                        ELSE Take(limits, r, fact, Known(fact) \cap r.shown # {}, Known(fact))
        looked == SubSeq(facts, 1, IF Len(facts) < MaxResults THEN Len(facts) ELSE MaxResults)
    IN  FoldLeft(one, Empty("available"), looked)

\* The grant is the same when the recall starts (before) and when the answer is there
\* (after); reply [kind: "denied", "missing", "unavailable", "malformed", "results", facts].
Recall(limits, before, query, reply, after) ==
    IF ~before THEN Empty("policy_changed")
    ELSE IF query = "sensitive" THEN Empty("query_filtered")
    ELSE IF reply.kind = "denied" \/ ~after THEN Empty("policy_changed")
    ELSE IF reply.kind = "missing" THEN Empty("bank_missing")
    ELSE IF reply.kind \in {"unavailable", "malformed"} THEN Empty("unavailable")
    ELSE Select(limits, reply.facts)

----------------------------------------------------------------------------
(* Several projects: recall_merged *)

\* Rank by rank, each project in its turn.
Interleaved(lists) ==
    LET ranks == 0..MaxResults
        longest == CHOOSE n \in ranks : /\ \A i \in DOMAIN lists : Len(lists[i]) <= n
                                        /\ n = 0 \/ \E i \in DOMAIN lists : Len(lists[i]) = n
        at(rank) == LET long == SelectSeq(lists, LAMBDA l : Len(l) >= rank) IN [i \in DOMAIN long |-> long[i][rank]]
    IN  FlattenSeq([rank \in 1..longest |-> at(rank)])
\* `others`: the recalls of the further projects; a grant that is gone is "policy_changed".
Denies(r) == r.state = "policy_changed"
Merge(limits, own, others) ==
    LET tagged(i) == [k \in DOMAIN others[i].items |-> [others[i].items[k] EXCEPT !.project = i]]
        lists == <<own.items>> \o [i \in DOMAIN others |-> tagged(i)]
        one(r, fact) == IF Full(limits, r) THEN r ELSE Take(limits, r, fact, fact.says \in r.shown, {fact.says})
        merged == FoldLeft(one, Empty(own.state), Interleaved(lists))
    IN  IF others = <<>> \/ Denies(own) \/ own.state \in {"unavailable", "query_filtered"} THEN own
        ELSE [merged EXCEPT !.trimmed = @ + own.trimmed, !.duplicates = @ + own.duplicates]

\* recall_response, and what prepare makes of it for a chat.
Answered(r) == IF Denies(r) THEN 409
               ELSE CASE r.state = "unavailable" -> 503
                      [] r.state = "query_filtered" -> 403
                      [] OTHER -> 200
ChatGoesOn(r, failOpen) == ~Denies(r) /\ (r.state = "unavailable" => failOpen)

----------------------------------------------------------------------------
(* What an answer leaves in a bank: Capture *)

\* A line of the answer [what: "text", "blank" or "other" (an error, a tool call, no
\* text), size, done: "no", "stop" or "cut"].  `spoiled`: the request has tools or a format.
Observe(c, line) ==
    LET size == c.size + line.size
    IN  IF c.invalid THEN c
        ELSE IF line.what = "other" \/ c.done \/ size > MaxContent THEN [c EXCEPT !.invalid = TRUE]
        ELSE [c EXCEPT !.size = size, !.says = @ \/ line.what = "text",
                       !.done = line.done = "stop", !.invalid = line.done = "cut"]
Captured(spoiled, lines) ==
    FoldLeft(Observe, [size |-> 0, says |-> FALSE, done |-> FALSE, invalid |-> spoiled], lines)
Eligible(c, outcome, connected) == outcome = "ok" /\ connected /\ ~c.invalid /\ c.done /\ c.says

----------------------------------------------------------------------------
(* What follows *)

SizeOfWords == <<1, 2, 1>>
Fact(id, twin, score, clean) ==
    [id |-> id, twin |-> twin, score |-> score, clean |-> clean, size |-> SizeOfWords[id], says |-> id, project |-> 0]
Facts == {Fact(id, twin, MaxScore, TRUE) : id \in 1..3, twin \in {Absent, 1, 2}}
         \cup {Fact(1, Absent, MaxScore, FALSE), Fact(2, Absent, 0, TRUE)}
Answers == BoundedSeq(Facts, 3)
Limits == [score : {0, MaxScore}, facts : {Absent, 1, 2}, bytes : {1, 4, 6}, text : {Absent, 1, 3}]
Within(limits, items) ==
    /\ limits.facts # Absent => Len(items) <= limits.facts
    /\ Packed(items) <= limits.bytes /\ ~TooMuchText(limits, items)

\* What is passed on respects every limit, is clean and says nothing twice - neither a
\* fact nor the observation made of this fact alone - and keeps the service's order.
\* Everything usable is accounted for, and left out only if it repeats something, does not
\* fit any more, or the number of facts is reached; "results" means nothing was cut.
ASSUME RecallKeepsWhatFits ==
    \A limits \in Limits, facts \in Answers :
        LET r == Select(limits, facts)
            usable == {i \in DOMAIN facts : Usable(limits, facts[i])}
            kept == {facts[i] : i \in usable} \cap ToSet(r.items)
        IN  /\ Within(limits, r.items) /\ ToSet(r.items) = kept
            /\ \A i, j \in DOMAIN r.items : i # j => Known(r.items[i]) \cap Known(r.items[j]) = {}
            /\ \A i, j \in DOMAIN r.items : i < j =>
                   \E k, l \in usable : k < l /\ facts[k] = r.items[i] /\ facts[l] = r.items[j]
            /\ Full(limits, r) \/ Len(r.items) + r.trimmed + r.duplicates = Cardinality(usable)
            /\ LimitedBy(limits, r) = "results" => r.trimmed = 0
            /\ \A i \in usable : \/ facts[i] \in kept \/ Full(limits, r)
                                 \/ Known(facts[i]) \cap r.shown # {}
                                 \/ ~Within(limits, Append(r.items, facts[i]))

\* A further project never changes the state of the answer, never takes the first place
\* and never makes it larger than the limits; no words are said twice, and each
\* project's facts keep their order.
Own == {Fact(id, Absent, MaxScore, TRUE) : id \in 1..3}
States == {Empty(s) : s \in {"policy_changed", "query_filtered", "bank_missing", "unavailable"}}
ASSUME MergeKeepsThePrimary ==
    \A limits \in Limits : limits.score = 0 =>
        LET recalls == {Select(limits, f) : f \in BoundedSeq(Own, 2)} \cup States
        IN  \A own, second \in recalls, third \in {Select(limits, <<f>>) : f \in Own} \cup States :
                LET r == Merge(limits, own, <<second, third>>)
                    place(fact) == CHOOSE i \in DOMAIN r.items : r.items[i] = fact
                IN  /\ r.state = own.state /\ Within(limits, r.items)
                    /\ own.items # <<>> => r.items # <<>> /\ Head(r.items) = Head(own.items)
                    /\ \A i, j \in DOMAIN r.items : i # j => r.items[i].says # r.items[j].says
                    /\ \A i, j \in DOMAIN own.items :
                           i < j /\ {own.items[i], own.items[j]} \subseteq ToSet(r.items) =>
                               place(own.items[i]) < place(own.items[j])
                    /\ Denies(own) \/ own.state \in {"unavailable", "query_filtered"} => r.items = <<>>

\* A chat that goes on without facts, and a recall that is answered with an empty list, both
\* come from a service that has answered; and no fact passes whose grant changed meanwhile.
Replies == [kind : {"denied", "missing", "unavailable", "malformed", "results"},
            facts : {<<Fact(1, Absent, MaxScore, TRUE)>>}]
ASSUME StateIsNeverInferred ==
    \A limits \in Limits, before, after \in BOOLEAN, query \in {"clean", "sensitive"}, reply \in Replies :
        LET r == Recall(limits, before, query, reply, after)
        IN  /\ r.items # <<>> => before /\ after /\ query = "clean" /\ ChatGoesOn(r, FALSE)
            /\ Answered(r) = 200 => before /\ after /\ reply.kind \in {"missing", "results"}
            /\ ChatGoesOn(r, FALSE) /\ query = "clean" => Answered(r) = 200

\* Only a whole answer is retained: text to the end, ended by itself, within the size.
Lines == [what : {"text", "blank", "other"}, size : 0..MaxSize, done : {"no", "stop", "cut"}]
ASSUME OnlyWholeAnswersAreRetained ==
    \A spoiled, connected \in BOOLEAN, outcome \in {"ok", "error"}, lines \in BoundedSeq(Lines, 3) :
        Eligible(Captured(spoiled, lines), outcome, connected) <=>
            /\ ~spoiled /\ connected /\ outcome = "ok" /\ lines # <<>>
            /\ \A i \in DOMAIN lines : /\ lines[i].what # "other"
                                       /\ lines[i].done = IF i = Len(lines) THEN "stop" ELSE "no"
            /\ \E i \in DOMAIN lines : lines[i].what = "text"
            /\ Sized(LAMBDA l : l.size, lines) <= MaxContent
=============================================================================
