------------------------------ MODULE AgentTurn ------------------------------
(***************************************************************************)
(* What a run of minimal-agent says: what its driver asks, the messages    *)
(* the model is sent and answers, the calls it asks for, what of them is   *)
(* stored for the next run, and what the driver hears in the end.  The run *)
(* is alone in its session; AgentRun has the runs that are not.            *)
(*                                                                         *)
(* A text is the sequence of its pieces, each prose, JSON, JSON in a fence *)
(* or the note that stands for an attachment.  An option is a set of at    *)
(* most one value.                                                         *)
(***************************************************************************)
EXTENDS Naturals, Sequences, FiniteSets, SequencesExt, Functions, FiniteSetsExt

CONSTANTS
  Requests,           \* what drivers send: a message and options
  Completions,        \* what a model replies: content, reason and usage
  Returns,            \* what a tool returns: output, and whether it is an error
  DEFAULT_MAX_STEPS, MAX_STEPS_CAP, MAX_RUN_ID_BYTES,
  MaxRuns             \* bound on the runs of a session

VARIABLES
  pc,
  stored,       \* the conversation in the session: a sequence of turns
  runs,         \* runs so far
  req,          \* the request as validate returned it
  kept,         \* the conversation the run works with
  offered,      \* whether it has tools
  live, turns,  \* its messages as the model sees them, and as stored
  counts,       \* model calls and tokens
  shortened,    \* whether the conversation was halved
  late,         \* whether max-duration has passed
  sent,         \* the last request to the model
  reply,        \* the last completion
  results,      \* results of the calls made for it
  outcome       \* how the last run ended

vars == <<pc, stored, runs, req, kept, offered, live, turns, counts, shortened, late,
          sent, reply, results, outcome>>

None == {}
Some(x) == {x}

NoReply == [content |-> << >>, reason |-> "", usage |-> 0]

-----------------------------------------------------------------------------
(* Messages.  A part is what it is and says: a word, or the id of a call.  *)

Part(is, says) == [is |-> is, says |-> says]
Message(role, content) == [role |-> role, content |-> content]
Turn(role, text, calls, answers) ==
  [role |-> role, text |-> text, calls |-> calls, results |-> answers]

\* The elements of s that are in some, in their order.
Those(s, some) == FoldLeft(LAMBDA those, x : IF x \in some THEN Append(those, x) ELSE those, << >>, s)

Says(parts) == [i \in DOMAIN parts |-> parts[i].says]
OfKinds(parts, kinds) == Those(parts, {p \in Range(parts) : p.is \in kinds})

\* Mutant of tool_calls: a reply that also has text asks for nothing.
CallsWithoutText(content) ==
  IF \E i \in DOMAIN content : content[i].is = "text" THEN << >>
  ELSE Says(OfKinds(content, {"tool"}))

tool_calls(content) == Says(OfKinds(content, {"tool"}))
text_of(content) == Says(OfKinds(content, {"text", "refusal"}))
without_tool_calls(content) == Those(content, {p \in Range(content) : p.is # "tool"})
reply_parts(content) == Those(content, {p \in Range(content) : p.is \notin {"tool", "reasoning"}})

\* An attachment is noted, not copied: in a message, or in a tool's output.
Noted(parts) == [i \in DOMAIN parts |-> IF parts[i].is = "text" THEN parts[i].says ELSE "note"]
user_text(content) == Noted(content)
output_text(output) == Noted(output)

stored_result(r) == [call |-> r.call, text |-> output_text(r.output), error |-> r.error]

-----------------------------------------------------------------------------
(* The stored conversation.                                                *)

\* What is left of it by halve, as AgentConversation has it.
Halved(c) ==
  LET starts == {i \in DOMAIN c : c[i].role = "user" /\ 2 * (Len(c) - i + 1) <= Len(c)}
  IN IF starts = {} THEN << >> ELSE SubSeq(c, Min(starts), Len(c))

\* A stored turn as the model is given it again.
Replayed(turn) ==
  CASE turn.role = "assistant" ->
         Message("assistant",
           (IF turn.text = << >> THEN << >> ELSE <<Part("text", turn.text)>>)
             \o [i \in DOMAIN turn.calls |-> Part("tool", turn.calls[i])])
    [] turn.role = "tool" ->
         Message("tool", [i \in DOMAIN turn.results |->
           [call |-> turn.results[i].call, error |-> turn.results[i].error,
            output |-> <<Part("text", turn.results[i].text)>>]])
    [] OTHER -> Message("user", <<Part("text", turn.text)>>)

\* The driver's instructions and the schema come before the agent's own prompt.
to_messages(conversation, instructions) ==
  (IF instructions = << >> THEN << >> ELSE <<Message("system", instructions)>>)
    \o <<Message("system", <<"prompt">>)>>
    \o [i \in DOMAIN conversation |-> Replayed(conversation[i])]

-----------------------------------------------------------------------------
(* The request.                                                            *)

Refuses(r) ==
  \/ r.run_id.bytes \notin 1..MAX_RUN_ID_BYTES \/ r.run_id.control
  \/ ~\E i \in DOMAIN r.content : r.content[i].is = "text" /\ r.content[i].says # "blank"
  \/ \E i \in DOMAIN r.content : r.content[i].is = "url"
  \/ r.max_steps = Some(0)
  \/ r.schema = Some("no JSON")

\* Mutant of validate: the cap is taken for the default.
ValidateUncapped(r) ==
  [r EXCEPT !.max_steps = IF @ = None THEN Some(DEFAULT_MAX_STEPS) ELSE @,
            !.instructions = @ \ {"blank"}]

validate(r) ==
  [r EXCEPT !.max_steps = IF @ = None THEN Some(DEFAULT_MAX_STEPS)
                          ELSE {IF n < MAX_STEPS_CAP THEN n ELSE MAX_STEPS_CAP : n \in @},
            !.instructions = @ \ {"blank"}]

instructions == SetToSeq(req.instructions) \o (IF req.schema = None THEN << >> ELSE <<"schema">>)
MaxSteps == CHOOSE n \in req.max_steps : TRUE
last == counts.steps >= MaxSteps
options(steps) == offered /\ steps < MaxSteps
spent == \E n \in req.max_total_tokens : counts.tokens >= n

-----------------------------------------------------------------------------
(* Endings.                                                                *)

Finished(finish, content) ==
  [finish |-> finish, reply |-> content, structured |-> None, error |-> ""]
Failure(error) == [finish |-> "", reply |-> << >>, structured |-> None, error |-> error]

End(ended) == pc' = "concluding" /\ outcome' = Some(ended)

\* How a reply ends the run by what it says itself.
reply_finish(reason, content) ==
  CASE reason = "refusal" -> Some("refusal")
    [] reason = "content-filter" -> Some("content-filter")
    [] reason \notin {"refusal", "content-filter"} /\ OfKinds(content, {"refusal"}) # << >> ->
         Some("refusal")
    [] OTHER -> IF tool_calls(content) = << >> THEN Some("done") ELSE None

\* What stops the run before another call it would make.
limit ==
  IF spent THEN Some("max-total-tokens") ELSE IF late THEN Some("max-duration")
  ELSE IF last THEN Some("max-steps") ELSE None

\* A reply the provider paused goes back unchanged.
ending ==
  LET finish == reply_finish(reply.reason, reply.content) IN
  IF finish = None \/ (finish = Some("done") /\ reply.reason = "pause") THEN limit ELSE finish

\* The reply as JSON, without a fence around it.
structured(text) == IF text \in {<<"json">>, <<"fenced">>} THEN Some("json") ELSE None

-----------------------------------------------------------------------------
(* Steps.                                                                  *)

Idle == pc = "idle" /\ runs < MaxRuns

Refuse ==
  /\ Idle /\ \E r \in Requests : Refuses(r)
  /\ runs' = runs + 1 /\ outcome' = Some(Failure("invalid-input"))
  /\ UNCHANGED <<pc, stored, req, kept, offered, live, turns, counts, shortened, late,
                 sent, reply, results>>

\* The run is accepted; the model is opened and the tools are listed.
Accept ==
  /\ Idle
  /\ \E r \in Requests : ~Refuses(r) /\ req' = validate(r)
  /\ offered' \in BOOLEAN
  /\ pc' = "loop" /\ runs' = runs + 1 /\ kept' = stored /\ outcome' = None
  /\ live' = <<Message("user", req'.content)>>
  /\ turns' = <<Turn("user", user_text(req'.content), << >>, << >>)>>
  /\ counts' = [steps |-> 0, tokens |-> 0] /\ shortened' = FALSE /\ late' = FALSE
  /\ reply' = NoReply /\ results' = << >> /\ sent' = None
  /\ UNCHANGED stored

NoModel ==
  /\ pc = "loop" /\ counts.steps = 0 /\ End(Failure("no-model"))
  /\ UNCHANGED <<stored, runs, req, kept, offered, live, turns, counts, shortened, late,
                 sent, reply, results>>

TimePasses ==
  /\ pc \in {"loop", "calling", "tools"} /\ req.timed /\ ~late /\ late' = TRUE
  /\ UNCHANGED <<pc, stored, runs, req, kept, offered, live, turns, counts, shortened,
                 sent, reply, results, outcome>>

\* Out of time before the next call: it ends with the model's last reply, if any.
OutOfTime ==
  /\ pc = "loop" /\ late
  /\ LET said == {i \in DOMAIN live : live[i].role = "assistant"} IN
     End(Finished("max-duration",
           IF said = {} THEN << >> ELSE without_tool_calls(live[Max(said)].content)))
  /\ UNCHANGED <<stored, runs, req, kept, offered, live, turns, counts, shortened, late,
                 sent, reply, results>>

CallModel ==
  /\ pc = "loop" /\ ~late
  /\ pc' = "calling"
  /\ counts' = [counts EXCEPT !.steps = @ + 1]
  /\ sent' = Some([messages |-> to_messages(kept, instructions) \o live,
                   tools |-> options(counts'.steps)])
  /\ UNCHANGED <<stored, runs, req, kept, offered, live, turns, shortened, late,
                 reply, results, outcome>>

TooLong ==
  /\ pc = "calling"
  /\ IF ~shortened /\ Len(Halved(kept)) < Len(kept)
     THEN pc' = "loop" /\ shortened' = TRUE /\ kept' = Halved(kept) /\ UNCHANGED outcome
     ELSE End(Failure("model-refused")) /\ UNCHANGED <<shortened, kept>>
  /\ UNCHANGED <<stored, runs, req, offered, live, turns, counts, late, sent, reply, results>>

ModelFails ==
  /\ pc = "calling"
  /\ \E e \in {"model-refused", "model-failed", "cancelled"} : End(Failure(e))
  /\ UNCHANGED <<stored, runs, req, kept, offered, live, turns, counts, shortened, late,
                 sent, reply, results>>

\* The model replies; its calls have ids of their own.
ModelReplies ==
  /\ pc = "calling"
  /\ \E c \in Completions :
       /\ (\E i \in DOMAIN c.content : c.content[i].is = "tool") => \E s \in sent : s.tools
       /\ reply' = [c EXCEPT !.content = [i \in DOMAIN c.content |->
            IF c.content[i].is = "tool" THEN Part("tool", <<runs, counts.steps, i>>)
            ELSE c.content[i]]]
       /\ counts' = [counts EXCEPT !.tokens = @ + c.usage]
  /\ pc' = "replied" /\ results' = << >>
  /\ UNCHANGED <<stored, runs, req, kept, offered, live, turns, shortened, late, sent, outcome>>

ReplyEnds ==
  /\ pc = "replied" /\ ending # None
  /\ turns' = Append(turns, Turn("assistant", text_of(reply.content), << >>, << >>))
  /\ \E f \in ending : End(Finished(f, without_tool_calls(reply.content)))
  /\ UNCHANGED <<stored, runs, req, kept, offered, live, counts, shortened, late,
                 sent, reply, results>>

ReplyAsks ==
  /\ pc = "replied" /\ ending = None /\ pc' = "tools"
  /\ UNCHANGED <<stored, runs, req, kept, offered, live, turns, counts, shortened, late,
                 sent, reply, results, outcome>>

NextCall == tool_calls(reply.content)[Len(results) + 1]
Result(output, error) ==
  results' = Append(results, [call |-> NextCall, output |-> output, error |-> error])

\* A call that is made, or is not made any more.
CallTool ==
  /\ pc = "tools" /\ Len(results) < Len(tool_calls(reply.content))
  /\ IF late THEN Result(<<Part("text", "not called")>>, TRUE)
     ELSE \/ \E r \in Returns : Result(r.output, r.error)
          \/ Result(<<Part("text", "not known")>>, TRUE)
  /\ UNCHANGED <<pc, stored, runs, req, kept, offered, live, turns, counts, shortened, late,
                 sent, reply, outcome>>

\* All calls have a result: the reply and they are kept, and the model goes on.
Return ==
  /\ pc = "tools" /\ Len(results) = Len(tool_calls(reply.content))
  /\ LET answers == IF results = << >> THEN << >> ELSE <<results>>
     IN /\ live' = live \o <<Message("assistant", reply.content)>>
                     \o [i \in DOMAIN answers |-> Message("tool", answers[i])]
        /\ turns' = turns
             \o <<Turn("assistant", text_of(reply.content), tool_calls(reply.content), << >>)>>
             \o [i \in DOMAIN answers |->
                   Turn("tool", << >>, << >>,
                        [k \in DOMAIN answers[i] |-> stored_result(answers[i][k])])]
  /\ pc' = "loop"
  /\ UNCHANGED <<stored, runs, req, kept, offered, counts, shortened, late, sent, reply,
                 results, outcome>>

\* The driver stops reading the events.
Gone ==
  /\ pc \in {"replied", "tools"}
  /\ End(Failure("cancelled"))
  /\ UNCHANGED <<stored, runs, req, kept, offered, live, turns, counts, shortened, late,
                 sent, reply, results>>

Answered(f) == f.error = "" /\ f.finish \notin {"refusal", "content-filter"}

\* Mutant of Checked: a refusal is read as JSON too.
CheckedAlways(f) ==
  IF req.schema = None \/ f.error # "" THEN f
  ELSE IF structured(text_of(f.reply)) = None THEN Failure("output-rejected")
  ELSE [f EXCEPT !.structured = structured(text_of(f.reply))]

Checked(f) ==
  IF req.schema = None \/ ~Answered(f) THEN f
  ELSE IF structured(text_of(f.reply)) = None THEN Failure("output-rejected")
  ELSE [f EXCEPT !.structured = structured(text_of(f.reply))]

\* The run is saved, or the driver, another writer or the store prevents that.
Conclude ==
  /\ pc = "concluding" /\ pc' = "idle"
  /\ \E f \in outcome :
       \/ Checked(f).error # "" /\ outcome' = Some(Checked(f)) /\ UNCHANGED stored
       \/ /\ Checked(f).error = ""
          /\ outcome' = Some([Checked(f) EXCEPT !.reply = reply_parts(@)])
          /\ stored' = kept \o turns
       \/ /\ Checked(f).error = ""
          /\ \E e \in {"cancelled", "superseded", "not-recorded"} : outcome' = Some(Failure(e))
          /\ UNCHANGED stored
  /\ UNCHANGED <<runs, req, kept, offered, live, turns, counts, shortened, late, sent,
                 reply, results>>

Init ==
  /\ pc = "idle" /\ stored = << >> /\ runs = 0 /\ req = None /\ kept = << >>
  /\ offered = FALSE /\ live = << >> /\ turns = << >> /\ counts = [steps |-> 0, tokens |-> 0]
  /\ shortened = FALSE /\ late = FALSE /\ sent = None /\ reply = NoReply /\ results = << >>
  /\ outcome = None

Next ==
  \/ Refuse \/ Accept \/ NoModel \/ TimePasses \/ OutOfTime \/ CallModel
  \/ TooLong \/ ModelFails \/ ModelReplies \/ ReplyEnds \/ ReplyAsks
  \/ CallTool \/ Return \/ Gone \/ Conclude

Spec == Init /\ [][Next]_vars

-----------------------------------------------------------------------------
(* What a provider takes, what is told, and what is kept.                  *)

Calls(m) == IF m.role = "assistant" THEN tool_calls(m.content) ELSE << >>
Answers(m) == IF m.role = "tool" THEN [i \in DOMAIN m.content |-> m.content[i].call] ELSE << >>

(***************************************************************************)
(* Whatever a run, and the runs before it that were cut, limited, halved   *)
(* or refused, left behind, what a model is sent is a conversation: a      *)
(* person speaks first, and a reply that asked for tools is followed by    *)
(* one result for each call, in order, and by nothing else.  A last call   *)
(* offers no tools, and none is made with the tokens spent.                *)
(***************************************************************************)
ModelIsSentConversations ==
  pc = "calling" => \A s \in sent :
    LET first  == Min({i \in DOMAIN s.messages : s.messages[i].role # "system"})
        spoken == SubSeq(s.messages, first, Len(s.messages))
    IN
    /\ spoken[1].role = "user"
    /\ \A i \in DOMAIN spoken :
         /\ spoken[i].role # "system"
         /\ Calls(spoken[i]) # << >> =>
              i < Len(spoken) /\ Answers(spoken[i + 1]) = Calls(spoken[i])
         /\ Answers(spoken[i]) # << >> => i > 1 /\ Calls(spoken[i - 1]) = Answers(spoken[i])
    /\ last => ~s.tools
    /\ counts.tokens > 0 => ~spent
    /\ counts.steps <= Min({MaxSteps, MAX_STEPS_CAP}) + (IF shortened THEN 1 ELSE 0)

\* A message without what is not stored: reasoning, refusals as such, attachments.
Plain(m) ==
  CASE m.role = "assistant" ->
         Replayed(Turn("assistant", text_of(m.content), tool_calls(m.content), << >>))
    [] m.role = "tool" ->
         Message("tool", [i \in DOMAIN m.content |->
           [m.content[i] EXCEPT !.output = <<Part("text", Noted(@))>>]])
    [] OTHER -> Message("user", <<Part("text", Noted(m.content))>>)

(***************************************************************************)
(* What the next run replays is what this one's model saw and said, word   *)
(* for word, but for attachments and reasoning: whichever way a run ends.  *)
(***************************************************************************)
ReplaysWhatWasSaid ==
  /\ pc \in {"loop", "calling"} =>
       [i \in DOMAIN turns |-> Replayed(turns[i])] = [i \in DOMAIN live |-> Plain(live[i])]
  /\ \A f \in outcome : pc = "idle" /\ f.finish # "" =>
       /\ IsPrefix(kept, stored)
       /\ \A i \in DOMAIN live : Replayed(stored[Len(kept) + i]) = Plain(live[i])
       /\ Len(stored) = Len(kept) + Len(live)
            \/ /\ Len(stored) = Len(kept) + Len(live) + 1
               /\ Last(stored) = Turn("assistant", text_of(f.reply), << >>, << >>)

(***************************************************************************)
(* A driver hears how the run ended: done if and only if the model had     *)
(* nothing more to ask, a refusal whatever else it says, a limit only when *)
(* it is reached; a reply without calls; JSON if it asked for it, and not  *)
(* of a refusal, which is never rejected.                                  *)
(***************************************************************************)
OutcomeIsTheReply ==
  \A f \in outcome :
    /\ f.error # "" => f.finish = "" /\ f.reply = << >> /\ f.structured = None
    /\ f.finish # "" =>
         /\ tool_calls(f.reply) = << >>
         /\ f.finish = "done" => tool_calls(reply.content) = << >> /\ reply.reason # "pause"
         /\ f.finish = "max-steps" => last /\ ~spent
         /\ f.finish = "max-total-tokens" => spent
         /\ f.finish = "max-duration" => late
         /\ (f.finish \in {"refusal", "content-filter"}) <=>
              \/ reply.reason \in {"refusal", "content-filter"}
              \/ OfKinds(reply.content, {"refusal"}) # << >>
    /\ pc = "idle" =>
         /\ f.finish # "" =>
              /\ f.structured # None <=> req.schema # None /\ Answered(f)
              /\ OfKinds(f.reply, {"reasoning"}) = << >>
              /\ f.finish = "done" => text_of(f.reply) = text_of(reply.content)
         /\ f.error = "output-rejected" => req.schema # None
=============================================================================
