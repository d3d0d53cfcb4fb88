----------------------------- MODULE PromptBuild -----------------------------
(***************************************************************************)
(* From a client's conversation to the prompt of the model.  The adapters  *)
(* of api/adapters convert the messages of five request formats, one by    *)
(* one, to the messages of a chat template and to a list of images         *)
(* (chat_request_to_text_generation and its siblings).  The engine         *)
(* gathers the system messages, keeps a trailing assistant message open,   *)
(* renders the template (utils_mlx.py) and, when there are images, expands *)
(* every image placeholder and writes the features of the images over the  *)
(* placeholders by counting (vision.py): the n-th placeholder gets the     *)
(* n-th image, whatever message it came from.                              *)
(*                                                                         *)
(* A text, an image, a tool call is named <<n, i>>: part i of message n.   *)
(* The fields input and instructions, used only when there are no template *)
(* messages, and the sampling parameters are left out.                     *)
(***************************************************************************)
EXTENDS Integers, Sequences, SequencesExt, FiniteSets

CONSTANTS MaxMessages,  \* bound: messages of a conversation
          ThinkTags,    \* the think tags of tokenizers, token by token
          MaxParts      \* bound: tags, pieces of tags and texts of such a prompt

ASSUME PromptAssumption ==
  /\ MaxMessages \in Nat /\ MaxParts \in Nat
  /\ \A tags \in ThinkTags : tags.start # << >> /\ tags.end # << >>

VARIABLES dialect,   \* the request format
          convo,     \* the client's messages
          tmpl,      \* chat_template_messages
          imgs,      \* images, in the order they were read
          hasImages, \* has_images of the Responses adapter, kept between items
          stage,     \* "reading", "rendered", "failed"
          prompt,    \* what the template renders, in order
          filled,    \* every placeholder, with the features written over it
          tokens     \* a tokenised prompt, part by part, what becomes of it, and
                     \* whether all its tags are whole

pbvars == <<dialect, convo, tmpl, imgs, hasImages, stage, prompt, filled, tokens>>

Dialects == {"chat", "claude", "responses", "ollama", "generate", "tokens"}

-----------------------------------------------------------------------------
(* The client's messages.  A part is a text, an image, or an image the     *)
(* adapter cannot get ("bad": no url, or a download that fails); a Claude  *)
(* message may also hold thinking, a tool call, a tool result, and a tool  *)
(* result with an image.                                                   *)
Msg(role, form, ps, calls, reply) ==
  [role |-> role, form |-> form, parts |-> ps, calls |-> calls, reply |-> reply]

Lists == {<<"text", "image">>, <<"image", "image">>, <<"image", "text">>,
          <<"text", "bad">>, <<"bad", "image">>}
Plain(role) == Msg(role, "one", <<"text">>, 0, 0)

ChatMessages(n) ==
  {Plain(r) : r \in {"system", "developer", "user", "assistant"}}
  \cup {Msg("user", "list", ps, 0, 0) : ps \in Lists}
  \cup {Msg(r, "list", <<"image">>, 0, 0) : r \in {"system", "developer", "assistant"}}
  \cup {Msg("user", "one", <<"image">>, 0, 0), Msg("user", "none", << >>, 0, 0)}
  \cup {Msg("assistant", "none", << >>, 1, 0), Msg("assistant", "list", <<"image">>, 1, 0)}
  \cup {Msg("tool", "one", <<"text">>, 0, r) : r \in 1 .. n - 1}

ClaudeMessages(n) ==
  {Plain(r) : r \in {"user", "assistant"}}
  \cup {Msg("user", "list", ps, 0, 0) : ps \in Lists}
  \cup {Msg("assistant", "list", ps, 1, 0) : ps \in {<<"call">>, <<"text", "call">>}}
  \cup {Msg("user", "list", ps, 0, r) : r \in 1 .. n - 1,
          ps \in {<<"reply">>, <<"reply", "text">>, <<"reply", "image">>, <<"replyimage">>}}

ResponsesItems(n) ==
  {Plain(r) : r \in {"system", "developer", "user", "assistant"}}
  \cup {Msg("user", "list", ps, 0, 0) : ps \in Lists}
  \cup {Msg(r, "list", <<"image">>, 0, 0) : r \in {"system", "assistant"}}
  \cup {Msg("call", "none", << >>, 1, 0), Msg("reasoning", "one", <<"text">>, 0, 0),
        Msg("compaction", "one", <<"text">>, 0, 0), Msg("reference", "none", << >>, 0, 0)}
  \cup {Msg("output", "one", <<"text">>, 0, r) : r \in 1 .. n - 1}

OllamaMessages ==
  {Plain(r) : r \in {"system", "user", "assistant", "tool"}}
  \cup {Msg(r, "list", ps, 0, 0) : r \in {"system", "user"},
          ps \in {<<"image">>, <<"image", "text">>, <<"image", "image">>}}
  \cup {Msg("assistant", "none", << >>, 1, 0)}

GenerateRequests ==
  {Msg(sys, "list", ps, 0, 0) : sys \in {"withsystem", "nosystem"},
     ps \in {<<"text">>, <<"image", "text">>, <<"image", "image">>}}

Messages(n) ==
  CASE dialect = "chat" -> ChatMessages(n)
    [] dialect = "claude" -> ClaudeMessages(n)
    [] dialect = "responses" -> ResponsesItems(n)
    [] dialect = "ollama" -> OllamaMessages
    [] dialect = "generate" -> IF n = 1 THEN GenerateRequests ELSE {}
    [] dialect = "tokens" -> {}

-----------------------------------------------------------------------------
(* Template messages.                                                      *)

T(role, items, multi, calls, reply) ==
  [role |-> role, items |-> items, multi |-> multi, calls |-> calls, reply |-> reply]

ItemsOf(n, m) == [i \in DOMAIN m.parts |-> [k |-> m.parts[i], id |-> <<n, i>>]]
Of(items, ks) == SelectSeq(items, LAMBDA x : x.k \in ks)
IdsOf(items) == [i \in DOMAIN items |-> items[i].id]
Texts(n, m) == Of(ItemsOf(n, m), {"text"})
Images(n, m) == IdsOf(Of(ItemsOf(n, m), {"image"}))
CallIds(n, m) == IF m.calls = 1 THEN <<<<n, 0>>>> ELSE << >>
ReplyIds(m) == IF m.reply = 0 THEN << >> ELSE <<<<m.reply, 0>>>>

(* The placeholders of a list: one for every image part, got or not.       *)
Slots(items) == [i \in DOMAIN items |->
                  IF items[i].k = "bad" THEN [items[i] EXCEPT !.k = "image"] ELSE items[i]]

Converted(msgs, images, ok) == [msgs |-> msgs, images |-> images, ok |-> ok]

(* chat_request_to_text_generation, one message: a message with images     *)
(* loses its tool calls, one that is nothing but an image fails an         *)
(* assertion.                                                              *)
ConvertChat(n, m) ==
  LET got == Images(n, m)
      system == T("system", Texts(n, m), FALSE, << >>, << >>)
      multimodal == T(m.role, Slots(ItemsOf(n, m)), TRUE, << >>, << >>)
      plain == T(m.role, Texts(n, m), FALSE, CallIds(n, m), ReplyIds(m))
  IN  CASE m.role = "system" -> Converted(<<system>>, got, TRUE)
        [] m.role # "system" /\ m.form = "none" /\ m.calls = 0 -> Converted(<< >>, << >>, TRUE)
        [] m.role # "system" /\ got # << >> -> Converted(<<multimodal>>, got, m.form = "list")
        [] OTHER -> Converted(<<plain>>, got, TRUE)

(* handle_image_block and the loop over the blocks of a Claude message.    *)
ClaudeImages(n, m) == IdsOf(Of(ItemsOf(n, m), {"image", "replyimage"}))

(* claude_request_to_text_generation, one message: tool calls, else tool   *)
(* results, else images, else text.                                        *)
ConvertClaude(n, m) ==
  LET items == ItemsOf(n, m)
      got == ClaudeImages(n, m)
      calls == Of(items, {"call"})
      results == Of(items, {"reply", "replyimage"})
      slots == Of(Slots(items), {"text", "image"})
  IN  Converted(
        CASE calls # << >> -> <<T("assistant", Texts(n, m), FALSE, CallIds(n, m), << >>)>>
          [] calls = << >> /\ results # << >> ->
               [i \in DOMAIN results |-> T("tool", << >>, FALSE, << >>, ReplyIds(m))]
          [] calls = << >> /\ results = << >> /\ got # << >> ->
               <<T(m.role, slots, TRUE, << >>, << >>)>>
          [] OTHER -> <<T(m.role, Texts(n, m), FALSE, << >>, << >>)>>,
        got, TRUE)

\* A seeded fault: a call with no assistant message before it is not kept.
IgnoresOrphans(ts, call) ==
  IF ts # << >> /\ Last(ts).role = "assistant" /\ ~Last(ts).multi
  THEN [ts EXCEPT ![Len(ts)].calls = Append(@, call)]
  ELSE ts

(* _append_tool_call.                                                      *)
AppendToolCall(ts, call) ==
  IF ts # << >> /\ Last(ts).role = "assistant" /\ ~Last(ts).multi
  THEN [ts EXCEPT ![Len(ts)].calls = Append(@, call)]
  ELSE Append(ts, T("assistant", << >>, FALSE, <<call>>, << >>))

(* A message item of responses_request_to_text_generation; has is          *)
(* has_images: only a message that is not a system message resets it, and  *)
(* a message that is no list then has no content at all.                   *)
ResponsesMessage(n, m, has) ==
  LET content == IF has THEN (IF m.form = "list" THEN Slots(ItemsOf(n, m)) ELSE << >>)
                 ELSE Texts(n, m)
  IN  IF m.role = "system" THEN T("system", Texts(n, m), FALSE, << >>, << >>)
      ELSE T(m.role, content, has, << >>, << >>)

(* The other items: calls of every kind, their outputs, reasoning,         *)
(* compaction; a reference is skipped.                                     *)
OtherItem(n, m) ==
  CASE m.role = "reasoning" -> Append(tmpl, T("assistant", Texts(n, m), FALSE, << >>, << >>))
    [] m.role = "compaction" -> Append(tmpl, T("system", Texts(n, m), FALSE, << >>, << >>))
    [] m.role = "output" -> Append(tmpl, T("tool", Texts(n, m), FALSE, << >>, ReplyIds(m)))
    [] m.role = "call" -> AppendToolCall(tmpl, <<n, 0>>)
    [] m.role = "reference" -> tmpl

(* ollama_request_to_text_generation, one message: images before the text; *)
(* a tool message is named by its tool or by its number, not by the call.  *)
ConvertOllama(n, m) ==
  LET got == Images(n, m)
      number == Len(SelectSeq(convo, LAMBDA x : x.role = "tool")) + 1
  IN  Converted(
        CASE m.role = "system" -> <<T("system", Texts(n, m), FALSE, << >>, << >>)>>
          [] m.role # "system" /\ got # << >> -> <<T(m.role, ItemsOf(n, m), TRUE, << >>, << >>)>>
          [] m.role # "system" /\ got = << >> ->
               <<T(m.role, Texts(n, m), FALSE, CallIds(n, m),
                   IF m.role = "tool" THEN <<<<"tool", number>>>> ELSE << >>)>>,
        got, TRUE)

(* ollama_generate_request_to_text_generation: the system prompt, the      *)
(* images, the prompt.                                                     *)
ConvertGenerate(n, m) ==
  LET got == Images(n, m)
      system == IF m.role = "nosystem" THEN << >>
                ELSE <<T("system", <<[k |-> "text", id |-> <<n, 0>>]>>, FALSE, << >>, << >>)>>
      user == T("user", ItemsOf(n, m), got # << >>, << >>, << >>)
  IN  Converted(Append(system, user), got, TRUE)

-----------------------------------------------------------------------------
PromptInit ==
  /\ dialect \in Dialects
  /\ convo = << >> /\ tmpl = << >> /\ imgs = << >> /\ hasImages = FALSE
  /\ stage = "reading" /\ prompt = << >> /\ filled = << >>
  /\ \E tags \in ThinkTags :
       /\ dialect # "tokens" => tags = CHOOSE any \in ThinkTags : TRUE
       /\ tokens = [tags |-> tags, parts |-> << >>, after |-> << >>, whole |-> TRUE]

Take(c) ==
  /\ tmpl' = tmpl \o c.msgs
  /\ imgs' = imgs \o c.images
  /\ stage' = IF c.ok THEN "reading" ELSE "failed"
  /\ UNCHANGED hasImages

TakeItem(n, m) ==
  LET got == Images(n, m)
      has == hasImages \/ got # << >>
      message == m.role \in {"system", "developer", "user", "assistant"}
  IN  /\ tmpl' = IF message THEN Append(tmpl, ResponsesMessage(n, m, has)) ELSE OtherItem(n, m)
      /\ imgs' = imgs \o got
      /\ hasImages' = (has /\ (m.role = "system" \/ ~message))
      /\ UNCHANGED stage

ConvertMessage ==
  /\ stage = "reading" /\ Len(convo) < MaxMessages
  /\ \E m \in Messages(Len(convo) + 1) :
       LET n == Len(convo) + 1
       IN  /\ convo' = Append(convo, m)
           /\ \/ dialect = "chat" /\ Take(ConvertChat(n, m))
              \/ dialect = "claude" /\ Take(ConvertClaude(n, m))
              \/ dialect = "responses" /\ TakeItem(n, m)
              \/ dialect = "ollama" /\ Take(ConvertOllama(n, m))
              \/ dialect = "generate" /\ Take(ConvertGenerate(n, m))
  /\ UNCHANGED <<dialect, prompt, filled, tokens>>

-----------------------------------------------------------------------------
(* Rendering.                                                              *)

IsSystem(t) == t.role \in {"system", "developer"}

\* A seeded fault: only a system message in front is a system message.
FirstOnly(ts) ==
  [sys |-> IF ts # << >> /\ IsSystem(ts[1]) THEN <<ts[1]>> ELSE << >>,
   rest |-> SelectSeq(ts, LAMBDA t : ~IsSystem(t))]

(* consolidate_system_messages.                                            *)
Consolidate(ts) ==
  [sys |-> SelectSeq(ts, IsSystem), rest |-> SelectSeq(ts, LAMBDA t : ~IsSystem(t))]

(* _format_vlm_messages: mlx_vlm puts the images of a message first.       *)
FormatVlm(t) ==
  IF ~t.multi THEN t
  ELSE [t EXCEPT !.items = Of(t.items, {"image"}) \o Of(t.items, {"text"})]

Named(k, ids) == [i \in DOMAIN ids |-> [k |-> k, id |-> ids[i]]]
(* The template writes a message out.                                      *)
Written(t) == Named("reply", t.reply) \o t.items \o Named("call", t.calls)
WriteAll(ts) == FlattenSeq([i \in DOMAIN ts |-> Written(ts[i])])

(* render_chat_template: a trailing assistant message is written after the *)
(* prompt, its text alone; a list of parts cannot be joined to a string.   *)
Rendered(ts) ==
  LET c == Consolidate([i \in DOMAIN ts |-> FormatVlm(ts[i])])
      open == c.rest # << >> /\ Last(c.rest).role = "assistant"
      closed == IF open THEN Front(c.rest) ELSE c.rest
  IN  [ok |-> /\ \A i \in DOMAIN c.sys : ~c.sys[i].multi \/ c.sys[i].items = << >>
              /\ open => ~Last(c.rest).multi \/ Last(c.rest).items = << >>,
       text |-> WriteAll(c.sys) \o WriteAll(closed)
                \o (IF open THEN Last(c.rest).items ELSE << >>)]

SizeOfImage(id) == 1 + ((id[1] + id[2]) % 2)
Features == FlattenSeq([j \in DOMAIN imgs |->
              [t \in 1 .. SizeOfImage(imgs[j]) |-> <<imgs[j], t>>]])

\* A seeded fault: every placeholder is one token wide.
OneToken(slots) == [j \in DOMAIN slots |-> 1]

(* build_vision_prompt: the j-th placeholder is as wide as the j-th image. *)
Widths(slots) == [j \in DOMAIN slots |->
                   IF j <= Len(imgs) THEN SizeOfImage(imgs[j]) ELSE 1]

(* create_vision_embeddings: the placeholder tokens are numbered, and each *)
(* gets the feature of its number, at most the last one.                   *)
Embedded(slots) ==
  LET width == Widths(slots)
      from(j) == FoldLeft(LAMBDA a, w : a + w, 0, SubSeq(width, 1, j - 1))
      total == from(Len(slots) + 1)
      last == IF Len(Features) < total THEN Len(Features) ELSE total
  IN  [j \in DOMAIN slots |->
        [id |-> slots[j].id,
         features |-> [t \in 1 .. width[j] |->
           Features[IF from(j) + t <= last THEN from(j) + t ELSE last]]]]

(* ExoBatchGenerator: prepare_vision when there are images, and            *)
(* apply_chat_template otherwise.                                          *)
Render ==
  /\ stage = "reading" /\ convo # << >>
  /\ LET r == Rendered(tmpl)
         slots == Of(r.text, {"image"})
     IN  IF ~r.ok THEN stage' = "failed" /\ UNCHANGED <<prompt, filled>>
         ELSE /\ stage' = "rendered"
              /\ prompt' = r.text
              /\ filled' = IF imgs = << >> THEN << >> ELSE Embedded(slots)
  /\ UNCHANGED <<dialect, convo, tmpl, imgs, hasImages, tokens>>

-----------------------------------------------------------------------------
\* A seeded fault: a closed block still counts as open.
StaysOpen(depth) == depth

Close(depth) == depth - 1

(* A token is the next of a start tag, or the next of an end tag, or ends  *)
(* the tags it is not part of; only then are they given up.  The last      *)
(* token of an end tag with no open block has a start tag put before it:   *)
(* in front of the end tag, when that is its only token, else inside it.   *)
ThinkStep(tags, a, t) ==
  LET starts == t = tags.start[a.started + 1]
      ends == ~starts /\ t = tags.end[a.ended + 1]
      started == starts /\ a.started + 1 = Len(tags.start)
      ended == ends /\ a.ended + 1 = Len(tags.end)
      orphan == ended /\ a.depth = 0
      length(n, next, all) ==
        CASE all \/ ~(starts \/ ends) -> 0
          [] next /\ ~all -> n + 1
          [] OTHER -> n
  IN  [out |-> Append(IF orphan THEN a.out \o tags.start ELSE a.out, t),
       started |-> length(a.started, starts, started),
       ended |-> length(a.ended, ends, ended),
       depth |-> CASE started -> a.depth + 1
                   [] ended /\ ~orphan -> Close(a.depth)
                   [] OTHER -> a.depth]

(* fix_unmatched_think_end_tokens.                                         *)
FixThink(tags, ts) ==
  FoldLeft(LAMBDA a, t : ThinkStep(tags, a, t),
           [out |-> << >>, started |-> 0, ended |-> 0, depth |-> 0], ts).out

(* The prompt goes on with a tag, a piece of one, or text.                 *)
EncodePrompt ==
  /\ dialect = "tokens" /\ Len(tokens.parts) < MaxParts
  /\ LET tags == tokens.tags
         units == {tags.start, tags.end, <<"text">>}
         pieces == {<<t>> : t \in Range(tags.start) \cup Range(tags.end)}
     IN  \E part \in units \cup pieces :
           LET parts == Append(tokens.parts, part)
           IN  tokens' = [tags |-> tags, parts |-> parts,
                          after |-> FixThink(tags, FlattenSeq(parts)),
                          whole |-> tokens.whole /\ part \in units]
  /\ UNCHANGED <<dialect, convo, tmpl, imgs, hasImages, stage, prompt, filled>>

PromptNext == ConvertMessage \/ Render \/ EncodePrompt

-----------------------------------------------------------------------------
(* Properties.                                                             *)

(* The conversations whose images and placeholders do not pair up: an      *)
(* image that was not got, an image of a system message, and an image in   *)
(* or beside a Claude tool result.                                         *)
Unpaired(m) ==
  \/ \E i \in DOMAIN m.parts : m.parts[i] \in {"bad", "replyimage"}
  \/ m.role = "system" /\ \E i \in DOMAIN m.parts : m.parts[i] = "image"
  \/ m.reply # 0 /\ \E i \in DOMAIN m.parts : m.parts[i] = "image"

(* Images are written over the placeholders by counting tokens, across     *)
(* all messages, after the system messages have been moved and the images  *)
(* of a message put first; still every placeholder gets the image the      *)
(* client put there, whole and in order.                                   *)
ImagesInPlace ==
  (stage = "rendered" /\ \A n \in DOMAIN convo : ~Unpaired(convo[n])) =>
    /\ Len(filled) = Len(imgs)
    /\ \A j \in DOMAIN filled :
         filled[j].features = [t \in 1 .. SizeOfImage(filled[j].id) |-> <<filled[j].id, t>>]

(* Texts that do not reach the prompt: what a Claude message says beside   *)
(* tool results, and a Responses message after a system message with an    *)
(* image.                                                                  *)
Unsaid(n) ==
  \/ dialect = "claude" /\ convo[n].reply # 0
  \/ dialect = "responses" /\ \E p \in 1 .. n - 1 :
       convo[p].role = "system" /\ \E i \in DOMAIN convo[p].parts : convo[p].parts[i] = "image"

SystemRoles == {"system", "developer", "compaction"}
TextsOf(sys) == FlattenSeq([n \in DOMAIN convo |->
  IF (convo[n].role \in SystemRoles) = sys THEN IdsOf(Texts(n, convo[n])) ELSE << >>])

(* The prompt says everything the client said: the texts of the system     *)
(* messages first, then all others, each once and in their order, whatever *)
(* format they came in (generate's system prompt has no number).           *)
EverythingSaid ==
  (stage = "rendered" /\ dialect # "generate" /\ \A n \in DOMAIN convo : ~Unsaid(n)) =>
    IdsOf(Of(prompt, {"text"})) = TextsOf(TRUE) \o TextsOf(FALSE)

(* A message of the chat format with images and tool calls loses its calls.*)
CallLost(n) == convo[n].calls = 1 /\ \E i \in DOMAIN convo[n].parts : convo[n].parts[i] = "image"

(* A tool's answer never stands in the prompt without the call it answers  *)
(* before it, although calls are merged into earlier messages, messages    *)
(* are moved and a trailing assistant message loses its calls.  (Ollama    *)
(* names the tool, not the call.)                                          *)
CallsBeforeReplies ==
  (stage = "rendered" /\ dialect # "ollama") =>
    \A i \in DOMAIN prompt :
      LET n == prompt[i].id[1]
      IN  (prompt[i].k = "reply" /\ convo[n].calls = 1 /\ ~CallLost(n)) =>
            \E j \in 1 .. i - 1 : prompt[j] = [k |-> "call", id |-> prompt[i].id]

(* How often a tag occurs in the first n tokens of s.                      *)
Occurs(s, n, tag) ==
  Cardinality({i \in 0 .. n - Len(tag) : SubSeq(s, i + 1, i + Len(tag)) = tag})
Balanced(s) ==
  \A n \in 0 .. Len(s) : Occurs(s, n, tokens.tags.end) <= Occurs(s, n, tokens.tags.start)

(* However the turns of earlier replies were cut, the model sees no        *)
(* thinking block that ends without having begun, and every end that was   *)
(* there.  Left out: an end tag of several tokens, inside which the start  *)
(* tag is put so that neither is one any more, and pieces of tags, which   *)
(* count towards a tag although something stands between them.             *)
ThinkingBegun ==
  Len(tokens.tags.end) = 1 /\ tokens.whole =>
    LET before == FlattenSeq(tokens.parts)
        end == tokens.tags.end
    IN  /\ Balanced(tokens.after)
        /\ Occurs(tokens.after, Len(tokens.after), end) = Occurs(before, Len(before), end)

(* A prompt whose blocks have all begun is left alone, whatever the length *)
(* of the tags and the tokens they share.                                  *)
BegunUntouched ==
  LET before == FlattenSeq(tokens.parts)
  IN  tokens.whole /\ Balanced(before) => tokens.after = before

(* The prompt is the conversation the client sent: its texts, its calls    *)
(* and their answers, its images in their places, and no half of a         *)
(* thinking block.                                                         *)
PromptIsConversation ==
  /\ ImagesInPlace /\ EverythingSaid /\ CallsBeforeReplies
  /\ ThinkingBegun /\ BegunUntouched
=============================================================================
