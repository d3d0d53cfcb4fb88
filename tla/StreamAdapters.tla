---------------------------- MODULE StreamAdapters ----------------------------
(***************************************************************************)
(* The API adapters (src/exo/api/adapters/): each turns the chunks of one  *)
(* generation into the events of a public protocol, either as they come    *)
(* (the generate_..._stream functions) or into one response (the           *)
(* collect_... functions).                                                 *)
(*                                                                         *)
(* The chunks come from _token_chunk_stream: any number of prefill and     *)
(* token chunks, then a final one (a token with a finish reason, tool      *)
(* calls, an error), after which nothing is read; or the stream is closed  *)
(* without one (cancel_command).  The text of a token is its position.     *)
(***************************************************************************)
EXTENDS Integers, Sequences, SequencesExt

CONSTANTS
  MaxFed,        \* chunks of a generation (bound)
  MaxCalls       \* tool calls of one chunk (bound)

ASSUME AdapterConstants == MaxFed \in Nat \ {0} /\ MaxCalls \in Nat \ {0}

VARIABLES
  proto,         \* the protocol
  fed,           \* the chunks read so far
  ad,            \* the locals of the streaming adapter
  sent,          \* the events it has yielded
  adOver         \* it has returned

advars == <<proto, fed, ad, sent, adOver>>

Protocols == {"chat", "claude", "responses", "ollama_chat", "ollama_generate"}

(* The chunk types of shared/types/chunks.py.                              *)
Prefill == [k |-> "prefill"]
Token(i, th, fin) == [k |-> "token", id |-> i, th |-> th, fin |-> fin]
ToolCalls(n) == [k |-> "tools", n |-> n, fin |-> "tool_calls"]
Error == [k |-> "error", fin |-> "error"]

Final(c) == c.k # "prefill" /\ c.fin # "none"
OfKind(cs, k) == SelectSeq(cs, LAMBDA c : c.k = k)
Ids(cs) == [i \in DOMAIN cs |-> cs[i].id]
Text(cs) == Ids(SelectSeq(cs, LAMBDA c : c.k = "token" /\ ~c.th))
Thinking(cs) == Ids(SelectSeq(cs, LAMBDA c : c.k = "token" /\ c.th))
NCalls(cs) == FoldSeq(LAMBDA c, n : n + c.n, 0, OfKind(cs, "tools"))

(* One event: its name, the block or output item it is about, its payload. *)
Ev(name, at, what) == [e |-> name, at |-> at, what |-> what]

-----------------------------------------------------------------------------
\* A seeded fault: only the reason stop ends a reply.
EndsOnStop(fin) == IF fin # "stop" THEN << >> ELSE <<Ev("end", 0, fin)>>

(* The end of a reply, told with its last token.                           *)
EndOfReply(fin) == IF fin = "none" THEN << >> ELSE <<Ev("end", 0, fin)>>

(* An error, told before the end of the reply.                             *)
ErrorAndEnd == <<Ev("error", 0, << >>), Ev("end", 0, "error")>>

(* chat_completions.py, generate_chat_stream.                              *)
ChatStream(c) ==
  CASE c.k = "prefill" -> [ev |-> <<Ev("comment", 0, << >>)>>, over |-> FALSE]
    [] c.k = "error" ->
         [ev |-> ErrorAndEnd, over |-> TRUE]
    [] c.k = "tools" ->
         [ev |-> <<Ev("tools", 0, c.n), Ev("end", 0, c.fin)>>, over |-> TRUE]
    [] c.k = "token" ->
         [ev |-> <<Ev(IF c.th THEN "thinking" ELSE "text", 0, c.id)>>
                 \o EndOfReply(c.fin),
          over |-> c.fin # "none"]

(* A token on an Ollama line: the line of a thinking token is never the    *)
(* last line, even when the token is the last.                             *)
OllamaToken(c) ==
  [ev |-> IF c.th THEN <<Ev("thinking", 0, c.id)>>
          ELSE <<Ev("text", 0, c.id)>> \o EndOfReply(c.fin),
   over |-> c.fin # "none"]

(* ollama.py, generate_ollama_chat_stream: a tool call repeats the         *)
(* thinking that was streamed.                                             *)
OllamaChatStream(cs, c) ==
  CASE c.k = "prefill" -> [ev |-> << >>, over |-> FALSE]
    [] c.k = "error" -> [ev |-> ErrorAndEnd, over |-> TRUE]
    [] c.k = "tools" ->
         [ev |-> [i \in DOMAIN Thinking(cs) |-> Ev("thinking", 0, Thinking(cs)[i])]
                 \o <<Ev("tools", 0, c.n), Ev("end", 0, "tool_call")>>,
          over |-> TRUE]
    [] c.k = "token" -> OllamaToken(c)

(* generate_ollama_generate_stream: no message with the error, no tools.   *)
OllamaGenerateStream(c) ==
  CASE c.k = "prefill" -> [ev |-> << >>, over |-> FALSE]
    [] c.k = "error" -> [ev |-> <<Ev("end", 0, "error")>>, over |-> TRUE]
    [] c.k = "tools" -> [ev |-> <<Ev("end", 0, "stop")>>, over |-> TRUE]
    [] c.k = "token" -> OllamaToken(c)

(* Block events, of Claude messages and of Responses output items.         *)
StartBlock(i, kind) == Ev("start", i, kind)
StopBlock(i, kind) == Ev("stop", i, kind)
ToolBlocks(first, n) ==
  FlattenSeq([j \in 1 .. n |->
    <<StartBlock(first + j - 1, "tools"), Ev("tools", first + j - 1, 1),
      StopBlock(first + j - 1, "tools")>>])

(* claude.py, finish_reason_to_claude_stop_reason.                         *)
ClaudeStop(fin) ==
  CASE fin = "none" -> "none" [] fin = "length" -> "max_tokens"
    [] fin = "tool_calls" -> "tool_use" [] OTHER -> "end_turn"

NewAdapter == [next |-> 0, thAt |-> -1, txAt |-> -1, stop |-> "none"]

\* A seeded fault: every text token that follows thinking closes its block.
ClosesAgain(a, c) == a.thAt # -1

(* The thinking block is closed when the first text comes.                 *)
ClosesThinking(a, c) == a.thAt # -1 /\ a.txAt = -1

(* A token in claude.py and in responses.py: the first thinking token      *)
(* starts the thinking block, the first text token closes that block and   *)
(* starts the text block, which stays open until the end.                  *)
TokenInBlocks(a, c) ==
  LET first == IF c.th THEN a.thAt = -1 ELSE a.txAt = -1
      b == CASE ~first -> a
             [] first /\ c.th -> [a EXCEPT !.thAt = a.next, !.next = @ + 1]
             [] first /\ ~c.th -> [a EXCEPT !.txAt = a.next, !.next = @ + 1]
      at == IF c.th THEN b.thAt ELSE b.txAt
      kind == IF c.th THEN "thinking" ELSE "text"
  IN  [st |-> b,
       ev |-> (IF ~c.th /\ ClosesThinking(a, c)
               THEN <<StopBlock(a.thAt, "thinking")>> ELSE << >>)
              \o (IF first THEN <<StartBlock(at, kind)>> ELSE << >>)
              \o <<Ev(kind, at, c.id)>>]

(* The blocks of tool calls are opened and closed at once.                 *)
AfterTools(a, c) == [a EXCEPT !.next = @ + c.n, !.stop = "tool_use"]

(* claude.py, the loop of generate_claude_stream: an error just ends it.   *)
ClaudeStream(a, c) ==
  CASE c.k \in {"prefill", "error"} -> [st |-> a, ev |-> << >>]
    [] c.k = "tools" -> [st |-> AfterTools(a, c), ev |-> ToolBlocks(a.next, c.n)]
    [] c.k = "token" ->
         LET r == TokenInBlocks(a, c)
         IN  IF c.fin = "none" THEN r
             ELSE [r EXCEPT !.st.stop = ClaudeStop(c.fin)]

(* What generate_claude_stream yields after the loop: the empty text block *)
(* of a message without thinking and text has the index 0, whatever tool   *)
(* blocks there are.                                                       *)
ClaudeEnd(a) ==
  (IF ClosesThinking(a, Prefill) THEN <<StopBlock(a.thAt, "thinking")>> ELSE << >>)
  \o (IF a.txAt # -1 THEN <<StopBlock(a.txAt, "text")>> ELSE << >>)
  \o (IF a.thAt = -1 /\ a.txAt = -1
      THEN <<StartBlock(0, "text"), StopBlock(0, "text")>> ELSE << >>)
  \o <<Ev("end", 0, a.stop)>>

(* responses.py, the loop of generate_responses_stream, whose blocks are   *)
(* output items: it does not look at finish reasons.                       *)
ResponsesStream(a, c) ==
  CASE c.k \in {"prefill", "error"} -> [st |-> a, ev |-> << >>]
    [] c.k = "tools" -> [st |-> AfterTools(a, c), ev |-> ToolBlocks(a.next, c.n)]
    [] c.k = "token" -> TokenInBlocks(a, c)

(* What it yields after the loop: an empty message item when there is no   *)
(* text, and the whole response, marked completed.                         *)
ResponsesEnd(a) ==
  LET at == IF a.txAt = -1 THEN a.next ELSE a.txAt
  IN  (IF ClosesThinking(a, Prefill) THEN <<StopBlock(a.thAt, "thinking")>> ELSE << >>)
      \o (IF a.txAt = -1 THEN <<StartBlock(at, "text")>> ELSE << >>)
      \o <<StopBlock(at, "text"), Ev("end", 0, "completed")>>

-----------------------------------------------------------------------------
(* The collectors: what one call returns for the chunks cs, read up to the *)
(* end of the stream.  They raise on an error chunk, and three of them     *)
(* assert a model, which only a token or a tool chunk sets.                *)

LastFin(cs) == Last(<<"none">> \o [i \in DOMAIN cs |->
                 IF cs[i].k = "prefill" THEN "none" ELSE cs[i].fin])

\* A seeded fault: the finish reason is passed on as it is.
RawReason(fin) == fin

(* ollama.py, _map_done_reason.                                            *)
DoneReason(fin) ==
  CASE fin = "tool_calls" -> "tool_call" [] OTHER -> fin

Body(cs, fin) ==
  [text |-> Text(cs), thinking |-> Thinking(cs), tools |-> NCalls(cs), fin |-> fin]

Failed(cs) == OfKind(cs, "error") # << >>
NoModel(cs) == \A i \in DOMAIN cs : cs[i].k = "prefill"

CollectChat(cs) ==
  [raises |-> Failed(cs) \/ NoModel(cs), body |-> Body(cs, LastFin(cs))]
CollectClaude(cs) ==
  [raises |-> Failed(cs), body |-> Body(cs, ClaudeStop(LastFin(cs)))]
CollectResponses(cs) ==
  [raises |-> Failed(cs), body |-> Body(cs, "completed")]
CollectOllamaChat(cs) ==
  [raises |-> Failed(cs) \/ NoModel(cs), body |-> Body(cs, DoneReason(LastFin(cs)))]
CollectOllamaGenerate(cs) ==
  [raises |-> Failed(cs) \/ NoModel(cs),
   body |-> [Body(cs, DoneReason(LastFin(cs))) EXCEPT !.tools = 0]]

Collected(p, cs) ==
  CASE p = "chat" -> CollectChat(cs)
    [] p = "claude" -> CollectClaude(cs)
    [] p = "responses" -> CollectResponses(cs)
    [] p = "ollama_chat" -> CollectOllamaChat(cs)
    [] p = "ollama_generate" -> CollectOllamaGenerate(cs)

-----------------------------------------------------------------------------
(* The streaming adapter at work.                                          *)

AdapterInit ==
  /\ proto \in Protocols
  /\ fed = << >> /\ ad = NewAdapter /\ adOver = FALSE
  /\ sent = IF proto \in {"claude", "responses"}
            THEN <<Ev("begin", 0, << >>)>> ELSE << >>

Chunks(i) ==
  {Prefill, Error} \cup {ToolCalls(n) : n \in 1 .. MaxCalls}
  \cup {Token(i, th, fin) : th \in BOOLEAN, fin \in {"none", "stop", "length"}}

ReadLineByLine(c) ==
  /\ proto \in {"chat", "ollama_chat", "ollama_generate"}
  /\ LET r == CASE proto = "chat" -> ChatStream(c)
               [] proto = "ollama_chat" -> OllamaChatStream(fed, c)
               [] proto = "ollama_generate" -> OllamaGenerateStream(c)
     IN  sent' = sent \o r.ev /\ adOver' = r.over
  /\ UNCHANGED ad

ReadInBlocks(c) ==
  /\ proto \in {"claude", "responses"}
  /\ LET r == IF proto = "claude" THEN ClaudeStream(ad, c) ELSE ResponsesStream(ad, c)
     IN  /\ ad' = r.st
         /\ sent' = sent \o r.ev
                    \o (CASE ~Final(c) -> << >>
                          [] Final(c) /\ proto = "claude" -> ClaudeEnd(r.st)
                          [] Final(c) /\ proto = "responses" -> ResponsesEnd(r.st))
  /\ adOver' = Final(c)

ReadChunk ==
  /\ ~adOver /\ Len(fed) < MaxFed
  /\ \E c \in Chunks(Len(fed) + 1) :
       /\ fed' = Append(fed, c)
       /\ ReadLineByLine(c) \/ ReadInBlocks(c)
  /\ UNCHANGED proto

(* The chunk stream ends without a final chunk.                            *)
StreamCut ==
  /\ ~adOver
  /\ adOver' = TRUE
  /\ sent' = sent \o (CASE proto = "claude" -> ClaudeEnd(ad)
                        [] proto = "responses" -> ResponsesEnd(ad)
                        [] OTHER -> << >>)
  /\ UNCHANGED <<proto, fed, ad>>

AdapterNext == ReadChunk \/ StreamCut

-----------------------------------------------------------------------------
(* Properties.                                                             *)

Kinds == {"thinking", "text", "tools"}
ThinkingResumed == \E i, j \in DOMAIN fed :
  i < j /\ fed[i].k = "token" /\ fed[j].k = "token" /\ ~fed[i].th /\ fed[j].th
OnlyTools == OfKind(fed, "token") = << >> /\ OfKind(fed, "tools") # << >>

StartsOf(i) == {s \in DOMAIN sent : sent[s].e = "start" /\ sent[s].at = i}
StopsOf(i) == {s \in DOMAIN sent : sent[s].e = "stop" /\ sent[s].at = i}

(* In the block protocols a client rebuilds the message by index: no index *)
(* is used for two blocks, each block is started and stopped once, and     *)
(* every delta lies between.  Two cases are left out, in which the code    *)
(* does not keep this: thinking after text (its deltas go to a block that  *)
(* has been stopped), and a Claude message of tool calls alone (its empty  *)
(* text block reuses the index 0).                                         *)
BlocksBracketed ==
  proto \in {"claude", "responses"} /\ ~ThinkingResumed
      /\ ~(proto = "claude" /\ OnlyTools)
  => \A s \in DOMAIN sent : sent[s].e \in Kinds \cup {"start", "stop"} =>
       LET i == sent[s].at IN
       /\ \E b \in StartsOf(i) : StartsOf(i) = {b} /\ b <= s
       /\ adOver => \E b \in StopsOf(i) : StopsOf(i) = {b} /\ s <= b
       /\ sent[s].e \in Kinds => \A b \in StopsOf(i) : s < b

(* A generation that ended is told to the client once, as the last event.  *)
(* Two cases are left out: a stream that was cut, which the line protocols *)
(* just stop, and an Ollama reply whose last token is a thinking token.    *)
EndIsTold ==
  LET ends == {s \in DOMAIN sent : sent[s].e = "end"}
      last == Last(fed)
  IN  /\ ~adOver => ends = {}
      /\ /\ adOver /\ fed # << >> /\ Final(Last(fed))
         /\ ~(/\ proto \in {"ollama_chat", "ollama_generate"}
              /\ last.k = "token" /\ last.th)
         => ends = {Len(sent)}

(* What a client puts together from the events of the stream.              *)
ReceivedBody ==
  LET of(k) == LET s == SelectSeq(sent, LAMBDA v : v.e = k)
               IN  [i \in DOMAIN s |-> s[i].what]
  IN  [text |-> of("text"), thinking |-> of("thinking"),
       tools |-> FoldSeq(LAMBDA n, m : n + m, 0, of("tools")),
       fin |-> Last(<<"none">> \o of("end"))]

(* A streamed generation and a collected one tell the client the same      *)
(* thing: the same text and thinking in the same order, the same calls and *)
(* the same reason.  Three Ollama cases are left out: the last token is a  *)
(* thinking token (the reason is missing), tool calls after thinking (the  *)
(* thinking is sent twice), and tool calls on /api/generate (the stream    *)
(* says stop, the response tool_call).                                     *)
StreamAsCollected ==
  /\ adOver /\ fed # << >> /\ ~Collected(proto, fed).raises
  /\ (proto = "ollama_chat" => Thinking(fed) = << >>)
  /\ (proto = "ollama_generate" =>
        Thinking(fed) = << >> /\ OfKind(fed, "tools") = << >>)
  => ReceivedBody = Collected(proto, fed).body

(* A client that rebuilds the reply from the stream gets the reply.        *)
StreamIsReply == BlocksBracketed /\ EndIsTold /\ StreamAsCollected
=============================================================================
