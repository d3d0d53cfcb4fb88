---------------------------- MODULE OutputParsers ----------------------------
(***************************************************************************)
(* What happens to a generated token before it leaves the runner           *)
(* (src/exo/worker/runner/llm_inference/model_output_parsers.py): one of   *)
(* three chains of generators, each of which holds tokens back while they  *)
(* might be the beginning of a marker.                                     *)
(*   tools  parse_thinking_models, then parse_tool_calls                   *)
(*   dsml   parse_thinking_models, then _parse_dsml_stream (DeepSeek)      *)
(*   oss    parse_gpt_oss, on the states of the Harmony parser             *)
(*                                                                         *)
(* A text is a sequence of symbols with their places in the generation.    *)
(* The markers are two symbols long, so that a token may hold half of one: *)
(* "<b" and "<c" open and close thinking, "<d" opens DSML tool calls, "]"  *)
(* closes tool calls, "[" opens those of parse_tool_calls; "x" is text.    *)
(***************************************************************************)
EXTENDS Integers, Sequences, SequencesExt

CONSTANTS
  TokenTexts,     \* the texts a token may have, by chain
  MaxGenerated    \* tokens of a generation (bound)

ASSUME ParserConstants ==
  /\ MaxGenerated \in Nat \ {0}
  /\ DOMAIN TokenTexts = {"tools", "dsml"}

VARIABLES
  chain, opens,   \* the chain, starts_in_thinking
  generated,      \* the symbols generated so far
  ps,             \* the locals of the parsers
  out,            \* what the chain has yielded
  made,           \* the number of responses so far
  ended           \* the engine has yielded its last response

pavars == <<chain, opens, generated, ps, out, made, ended>>

ThinkStart == <<"<", "b">>
ThinkEnd == <<"<", "c">>
DsmlStart == <<"<", "d">>
CallsStart == <<"[">>
CallsEnd == <<"]">>

Sym(text) == [i \in DOMAIN text |-> text[i].sym]
Holds(text, marker) == \E i \in 0 .. Len(text) - Len(marker) :
  SubSeq(Sym(text), i + 1, i + Len(marker)) = marker
Place(text, marker) == CHOOSE i \in 0 .. Len(text) - Len(marker) :
  /\ SubSeq(Sym(text), i + 1, i + Len(marker)) = marker
  /\ \A j \in 0 .. i - 1 : SubSeq(Sym(text), j + 1, j + Len(marker)) # marker

(* A GenerationResponse, and a ToolCallResponse of n calls.                *)
Response(text, fin) == [k |-> "token", text |-> text, fin |-> fin, th |-> FALSE]
Calls(n) == [k |-> "calls", text |-> << >>, fin |-> "tool_calls", n |-> n]

(* The parser of a tool call's text (tool_parsers.py) raises, and so gives *)
(* None, when something in it is not of the expected form.                 *)
Parses(text) == \A i \in DOMAIN text : text[i].sym # "x"

-----------------------------------------------------------------------------
(* parse_thinking_models                                                   *)
NewThinking(th) == [th |-> th, acc |-> << >>, pend |-> << >>]

DrainPending(s) == [i \in DOMAIN s.pend |-> [s.pend[i] EXCEPT !.th = s.th]]

\* A seeded fault: the last response is passed on without what is held back.
FinishAtOnce(s, r) == <<[r EXCEPT !.th = FALSE]>>

(* A response with a finish reason is always passed on, as text.           *)
FinishThinking(s, r) == DrainPending(s) \o <<[r EXCEPT !.th = FALSE]>>

\* A seeded fault: a tag is seen only when it is one token.
TagInOneToken(s, acc) ==
  s.pend = << >> /\ Sym(acc) = IF s.th THEN ThinkEnd ELSE ThinkStart

(* The tag that ends the present mode.                                     *)
SwitchingTag(s, acc) == Sym(acc) = IF s.th THEN ThinkEnd ELSE ThinkStart

ParseThinking(s, r) ==
  LET acc == s.acc \o r.text IN
  CASE r.fin # "none" ->
         [st |-> [s EXCEPT !.acc = acc, !.pend = << >>],
          ev |-> FinishThinking(s, r)]
    [] r.fin = "none" /\ SwitchingTag(s, acc) ->
         [st |-> NewThinking(~s.th), ev |-> << >>]
    [] /\ r.fin = "none" /\ ~SwitchingTag(s, acc)
       /\ IsPrefix(Sym(acc), ThinkStart) \/ IsPrefix(Sym(acc), ThinkEnd) ->
         [st |-> [s EXCEPT !.acc = acc, !.pend = Append(@, r)], ev |-> << >>]
    [] OTHER -> [st |-> NewThinking(s.th),
                 ev |-> DrainPending(s) \o <<[r EXCEPT !.th = s.th]>>]

-----------------------------------------------------------------------------
(* parse_tool_calls: calls are collected, and sent with the last response. *)
NewToolCalls == [in |-> FALSE, parts |-> << >>, n |-> 0, dead |-> FALSE]

\* A seeded fault: an interrupted tool call is not passed on.
DropPartial(s, r) == << >>

(* The text of a tool call that did not end, as an error.                  *)
Interrupted(s, r) == <<[r EXCEPT !.text = s.parts \o r.text, !.fin = "error"]>>

ParseToolCalls(s, r) ==
  LET in == s.in \/ IsPrefix(CallsStart, Sym(r.text))
      parts == s.parts \o r.text
      last == r.fin # "none"
  IN
  CASE s.dead -> [st |-> s, ev |-> << >>]
    [] ~s.dead /\ ~in /\ s.n > 0 /\ last ->
         [st |-> [s EXCEPT !.n = 0], ev |-> <<Calls(s.n)>>]
    [] ~s.dead /\ ~in /\ ~(s.n > 0 /\ last) -> [st |-> s, ev |-> <<r>>]
    [] ~s.dead /\ in /\ IsSuffix(CallsEnd, Sym(r.text)) /\ ~Parses(parts) ->
         [st |-> [s EXCEPT !.in = FALSE, !.parts = << >>, !.dead = TRUE],
          ev |-> <<[r EXCEPT !.text = parts, !.fin = "error"]>>]
    [] ~s.dead /\ in /\ IsSuffix(CallsEnd, Sym(r.text)) /\ Parses(parts) ->
         [st |-> [s EXCEPT !.in = FALSE, !.parts = << >>,
                           !.n = IF last THEN 0 ELSE @ + 1],
          ev |-> IF last THEN <<Calls(s.n + 1)>> ELSE << >>]
    [] ~s.dead /\ in /\ ~IsSuffix(CallsEnd, Sym(r.text)) ->
         [st |-> [s EXCEPT !.in = TRUE, !.parts = parts],
          ev |-> IF last THEN Interrupted(s, r) ELSE << >>]

-----------------------------------------------------------------------------
(* _parse_dsml_stream: the marker may span several tokens.                 *)
NewDsml == [acc |-> << >>, in |-> FALSE, pend |-> << >>, txt |-> << >>,
            dead |-> FALSE]

TryParse(text, r) ==
  IF Parses(text) THEN Calls(1) ELSE [r EXCEPT !.text = text]

\* A seeded fault: what was held back is dropped with the marker.
DropHeld(pend, pre) == << >>

(* The tokens held back, as far as they lie before the marker.             *)
BeforeMarker(pend, pre) ==
  LET before(i) == FlattenSeq([j \in 1 .. i - 1 |-> pend[j].text])
      cut(i) == [pend[i] EXCEPT !.text =
                   SubSeq(@, 1, IF Len(@) <= Len(pre) - Len(before(i))
                                THEN Len(@) ELSE Len(pre) - Len(before(i)))]
      n == Len(SelectSeq([i \in DOMAIN pend |-> i],
                         LAMBDA i : Len(before(i)) < Len(pre)))
  IN  [i \in 1 .. n |-> cut(i)]

(* _could_be_marker_prefix: some end of the text begins the marker.        *)
CouldBeMarkerPrefix(text, marker) ==
  \E i \in 1 .. Len(text) : IsPrefix(SubSeq(Sym(text), i, Len(text)), marker)

DsmlFinish(s, r) ==
  [st |-> [s EXCEPT !.pend = << >>, !.dead = TRUE],
   ev |-> s.pend \o
     (CASE s.in -> LET text == s.txt \o r.text
                   IN  <<IF Holds(text, CallsEnd) THEN TryParse(text, r)
                         ELSE [r EXCEPT !.text = text]>>
        [] ~s.in /\ Holds(r.text, DsmlStart) /\ Holds(r.text, CallsEnd) ->
             LET at == Place(r.text, DsmlStart) IN
             (IF at = 0 THEN << >> ELSE <<[r EXCEPT !.text = SubSeq(@, 1, at)]>>)
             \o <<TryParse(SubSeq(r.text, at + 1, Len(r.text)), r)>>
        [] OTHER -> <<r>>)]

ParseDsml(s, r) ==
  LET acc == s.acc \o r.text
      text == s.txt \o r.text
  IN
  CASE s.dead -> [st |-> s, ev |-> << >>]
    [] ~s.dead /\ r.fin # "none" -> DsmlFinish(s, r)
    [] ~s.dead /\ r.fin = "none" /\ s.in ->
         IF Holds(text, CallsEnd)
         THEN [st |-> [s EXCEPT !.in = FALSE, !.txt = << >>],
               ev |-> <<TryParse(text, r)>>]
         ELSE [st |-> [s EXCEPT !.txt = text], ev |-> << >>]
    [] ~s.dead /\ r.fin = "none" /\ ~s.in /\ Holds(acc, DsmlStart) ->
         LET at == Place(acc, DsmlStart)
             rest == SubSeq(acc, at + 1, Len(acc))
             over == Holds(rest, CallsEnd)
         IN  [st |-> [s EXCEPT !.acc = << >>, !.pend = << >>, !.in = ~over,
                               !.txt = IF over THEN << >> ELSE rest],
              ev |-> BeforeMarker(s.pend, SubSeq(acc, 1, at))
                     \o (IF over THEN <<TryParse(rest, r)>> ELSE << >>)]
    [] OTHER ->
         IF CouldBeMarkerPrefix(acc, DsmlStart)
         THEN [st |-> [s EXCEPT !.acc = acc, !.pend = Append(@, r)], ev |-> << >>]
         ELSE [st |-> [s EXCEPT !.acc = << >>, !.pend = << >>],
               ev |-> Append(s.pend, r)]

-----------------------------------------------------------------------------
(* parse_gpt_oss: h is what the Harmony parser says after the token, the   *)
(* recipient, the channel, the text it adds, or that it failed.            *)
NewOss == [tool |-> "none", parts |-> << >>, dead |-> FALSE]

ParseOss(s, r, h) ==
  LET ends == s.tool # "none" /\ h.rec # s.tool
      parts == (IF h.rec = s.tool THEN s.parts ELSE << >>) \o h.delta
      last == r.fin # "none"
      call == IF ends THEN <<Calls(1)>> ELSE << >>
  IN
  CASE s.dead \/ h.failed -> [st |-> [s EXCEPT !.dead = TRUE], ev |-> << >>]
    [] ~(s.dead \/ h.failed) /\ h.rec # "none" ->
         [st |-> [s EXCEPT !.tool = h.rec, !.parts = IF last THEN << >> ELSE parts],
          ev |-> call \o (IF last THEN <<[r EXCEPT !.text = parts]>> ELSE << >>)]
    [] ~(s.dead \/ h.failed) /\ h.rec = "none" ->
         [st |-> [s EXCEPT !.tool = "none", !.parts = << >>],
          ev |-> call
                 \o (IF h.delta = << >> THEN << >>
                     ELSE <<[r EXCEPT !.text = h.delta, !.th = h.analysis]>>)
                 \o (IF last THEN <<r>> ELSE << >>)]

-----------------------------------------------------------------------------
(* The engine yields a response and the chain is drained                   *)
(* (batch_generator.py, step; apply_all_parsers).                          *)

ParserInit ==
  /\ chain \in {"tools", "dsml", "oss"} /\ opens \in BOOLEAN
  /\ generated = << >> /\ out = << >> /\ made = 0 /\ ended = FALSE
  /\ ps = [th |-> NewThinking(opens), tc |-> NewToolCalls, ds |-> NewDsml,
           oss |-> NewOss]

Placed(syms) == [i \in DOMAIN syms |-> [sym |-> syms[i], at |-> Len(generated) + i]]

ParseCalls(s, r) == IF chain = "tools" THEN ParseToolCalls(s, r) ELSE ParseDsml(s, r)

(* The second parser of a chain reads what the first yields for one        *)
(* response, one by one.                                                   *)
Through(s, rs) ==
  FoldLeft(LAMBDA a, r : LET b == ParseCalls(a.st, r)
                         IN  [st |-> b.st, ev |-> a.ev \o b.ev],
           [st |-> s, ev |-> << >>], rs)

Yield(evs, last) ==
  /\ out' = out \o evs
  /\ made' = made + 1
  /\ ended' = last

Generate ==
  /\ ~ended /\ chain \in {"tools", "dsml"}
  /\ \E syms \in TokenTexts[chain], last \in BOOLEAN :
       LET text == Placed(syms)
           a == ParseThinking(ps.th, Response(text, IF last THEN "stop" ELSE "none"))
           b == Through(IF chain = "tools" THEN ps.tc ELSE ps.ds, a.ev)
       IN  /\ made < MaxGenerated
           /\ generated' = generated \o text
           /\ ps' = IF chain = "tools" THEN [ps EXCEPT !.th = a.st, !.tc = b.st]
                    ELSE [ps EXCEPT !.th = a.st, !.ds = b.st]
           /\ Yield(b.ev, last)
  /\ UNCHANGED <<chain, opens>>

(* A token of t has the text t and adds d to the present channel: nothing  *)
(* when it is part of a header.  The text of a last response is empty when *)
(* it is a stop token or the end of a stop sequence, else t.               *)
GenerateOss ==
  /\ ~ended /\ chain = "oss"
  /\ \E t \in {<< >>, <<"x">>}, fin \in {"none", "stop", "length"}, an, bad \in BOOLEAN :
     \E rec \in {"none", "f", "g"}, d \in {<< >>, t},
        text \in IF fin = "stop" THEN {<< >>, t} ELSE {t} :
       LET h == [rec |-> rec, delta |-> Placed(d), analysis |-> an, failed |-> bad]
           a == ParseOss(ps.oss, Response(Placed(text), fin), h)
       IN  /\ made < MaxGenerated
           /\ generated' = generated \o Placed(t)
           /\ ps' = [ps EXCEPT !.oss = a.st]
           /\ Yield(a.ev, fin # "none")
  /\ UNCHANGED <<chain, opens>>

ParserNext == Generate \/ GenerateOss

-----------------------------------------------------------------------------
(* Properties.                                                             *)

\* A seeded fault: the stream goes on after a final chunk.
ReadOn == out

(* What a client is told: its stream of chunks (_token_chunk_stream) ends  *)
(* with the first final one, and what a chain yields after it is not read. *)
Told ==
  LET final == SelectInSeq(out, LAMBDA chunk : chunk.fin # "none")
  IN  IF final = 0 THEN out ELSE SubSeq(out, 1, final)

TextOf(chunks) == FlattenSeq([i \in DOMAIN chunks |-> chunks[i].text])

(* The chunk stream of a generation ends when its engine does: some parser *)
(* has passed on a final chunk, an error or tool calls, even when the last *)
(* response came in the middle of a marker or of a tool call.  A Harmony   *)
(* error is left out: parse_gpt_oss returns, and nothing ends the stream.  *)
StreamIsEnded ==
  ended /\ ~ps.oss.dead => \E i \in DOMAIN out : out[i].fin # "none"

(* What is text for sure: plain symbols, and halves of markers.            *)
IsText(i) ==
  \/ generated[i].sym = "x"
  \/ /\ generated[i].sym = "<" /\ \A j \in 1 .. i : generated[j].sym \notin {"[", "d"}
     /\ i < Len(generated) => generated[i + 1].sym \notin {"b", "c", "d"}

(* Holding tokens back neither loses text, nor repeats it, nor changes its *)
(* order: a client is told text in the order of the generation and each    *)
(* piece once, though parse_gpt_oss yields a last response twice, and when *)
(* the engine has ended all text has been yielded, half markers that       *)
(* turned out to be text included.                                         *)
(* Two cases are left out: after a failed parse nothing more is yielded,   *)
(* and the last response, when it comes with tool calls, loses its own     *)
(* text.                                                                   *)
NoTextLost ==
  /\ LET told == TextOf(Told)
     IN  \A i, j \in DOMAIN told : i < j => told[i].at < told[j].at
  /\ ended /\ chain # "oss" /\ ~ps.tc.dead =>
       \A i \in DOMAIN generated : IsText(i) =>
         \/ \E j \in DOMAIN TextOf(out) : TextOf(out)[j] = generated[i]
         \/ i = Len(generated) /\ Last(out).k = "calls"

(* The mode of place i, read off the whole text: a tag switches it when it *)
(* is the one that ends the mode before it.                                *)
Mode[i \in 0 .. Len(generated)] ==
  IF i < 2 THEN opens
  ELSE LET tag == <<generated[i - 1].sym, generated[i].sym>> IN
       CASE Mode[i - 1] /\ tag = ThinkEnd -> FALSE
         [] ~Mode[i - 1] /\ tag = ThinkStart -> TRUE
         [] OTHER -> Mode[i - 1]

(* No "<" that does not begin such a tag.                                  *)
NoStrayTag == \A i \in DOMAIN generated : generated[i].sym = "<" =>
                i < Len(generated) /\ Mode[i + 1] # Mode[i]

(* A token is thinking exactly when it lies between the tags, however the  *)
(* tags are cut into tokens.  A stray tag or half of one is left out: held *)
(* back, it hides a tag that directly follows.                             *)
ThinkingExact ==
  chain = "tools" /\ NoStrayTag =>
    \A i \in DOMAIN out : out[i].k = "token" /\ out[i].fin = "none" =>
      \A j \in DOMAIN out[i].text :
        out[i].text[j].sym = "x" => out[i].th = Mode[out[i].text[j].at]
=============================================================================
