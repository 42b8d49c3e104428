--------------------------- MODULE MCAgentHistory ---------------------------
(***************************************************************************)
(* The history of a session with the requests and the replies that TLC     *)
(* takes.                                                                  *)
(***************************************************************************)
EXTENDS AgentHistory

(* Requests of every kind, right and wrong, and replies with every part.   *)

Is(is, says) == [is |-> is, says |-> says]
Text == Is("text", "prose")

Plain ==
  [run_id |-> [bytes |-> 124, control |-> FALSE], content |-> <<Text>>, instructions |-> {},
   schema |-> {}, max_steps |-> {}, max_total_tokens |-> {}, timed |-> FALSE]

SomeRequests ==
  {[Plain EXCEPT !.schema = {"schema"}],
   [Plain EXCEPT !.content = <<Is("attachment", "bytes"), Text>>, !.max_steps = {2},
                 !.max_total_tokens = {1}],
   [Plain EXCEPT !.instructions = {"words"}, !.max_steps = {5}, !.timed = TRUE],
   [Plain EXCEPT !.run_id.bytes = 125],
   [Plain EXCEPT !.content = <<Is("text", "blank"), Is("attachment", "bytes")>>],
   [Plain EXCEPT !.max_steps = {0}]}

Reply(content, reason) == [content |-> content, reason |-> reason, usage |-> 1]
Call == Is("tool", "call")

SomeCompletions ==
  {Reply(<<Is("reasoning", "prose"), Text>>, "stop"), Reply(<<Text>>, "pause"), Reply(<< >>, "content-filter"),
   Reply(<<Is("text", "fenced")>>, "stop"), Reply(<<Call>>, "tool-use"),
   Reply(<<Is("reasoning", "prose"), Call, Text, Call>>, "tool-use"),
   Reply(<<Text, Is("refusal", "prose"), Call>>, "tool-use"),
   Reply(<<Is("refusal", "json")>>, "refusal")}

SomeReturns == {[output |-> <<Text, Is("attachment", "bytes")>>, error |-> FALSE]}
=============================================================================
