---------------------------- MODULE AgentHistory ----------------------------
(***************************************************************************)
(* What a session keeps: the turns of an agent in one instance, a          *)
(* conversation by its sizes, and what is said in the turns of one.  A     *)
(* behaviour is of one of the three.                                       *)
(***************************************************************************)
EXTENDS AgentRun

CONSTANTS
  MAX_TURNS, MAX_STATE_BYTES, Sizes, MaxRounds,               \* see AgentConversation
  Requests, Completions, Returns,                             \* see AgentTurn
  DEFAULT_MAX_STEPS, MAX_STEPS_CAP, MAX_RUN_ID_BYTES, MaxRuns

VARIABLES part, stored,
          pc, runs, req, kept, offered, live, turns, counts, shortened, late, sent, reply,
          results, outcome

talkVars == <<pc, runs, req, kept, offered, live, turns, counts, shortened, late, sent, reply,
              results, outcome>>

Conversation == INSTANCE AgentConversation
Talk == INSTANCE AgentTurn

ASSUME SizesAssumption == {MAX_TURNS, MAX_STATE_BYTES, MaxRounds} \cup Sizes \subseteq Nat

ASSUME StepsAssumption ==
  /\ {DEFAULT_MAX_STEPS, MAX_STEPS_CAP, MAX_RUN_ID_BYTES} \subseteq Nat
  /\ 0 < DEFAULT_MAX_STEPS /\ DEFAULT_MAX_STEPS <= MAX_STEPS_CAP

(***************************************************************************)
(* Drivers, models and tools send what their interfaces have: parts of     *)
(* some kind, options of at most one value, a reason for every reply.      *)
(***************************************************************************)
Parts == [is : STRING, says : STRING]
Option(some, set) == some \subseteq set /\ \A x, y \in some : x = y

ASSUME RequestsAssumption ==
  \A r \in Requests :
    /\ DOMAIN r = {"run_id", "content", "instructions", "schema", "max_steps",
                   "max_total_tokens", "timed"}
    /\ r.content \in Seq(Parts)
    /\ Option(r.max_steps, Nat) /\ Option(r.max_total_tokens, Nat)
    /\ Option(r.schema, STRING) /\ Option(r.instructions, STRING)

ASSUME RepliesAssumption ==
  /\ \A c \in Completions :
       c \in [content : Seq(Parts), reason : STRING, usage : Nat] /\ c.reason # ""
  /\ Returns \subseteq [output : Seq(Parts), error : BOOLEAN]

-----------------------------------------------------------------------------

HistoryInit ==
  /\ Init /\ Talk!Init
  /\ part \in {"turns", "conversation", "talk"}

HistoryNext ==
  \/ part = "turns" /\ Next /\ UNCHANGED <<part, stored, talkVars>>
  \/ part = "conversation" /\ Conversation!Next /\ UNCHANGED <<part, vars, talkVars>>
  \/ part = "talk" /\ Talk!Next /\ UNCHANGED <<part, vars>>

\* In the other parts no turn is requested, and nothing is asked of any.
HistorySpec == HistoryInit /\ [][HistoryNext]_<<vars, part, stored, talkVars>> /\ Fairness

(***************************************************************************)
(* What is stored is well formed, and neither trim nor halve forgets more  *)
(* than it must, nor less (AgentConversation); what a model is sent of it  *)
(* is a conversation too, what the next run replays is what this one's     *)
(* model saw and said, and its driver hears how it ended (AgentTurn).      *)
(***************************************************************************)
ConversationStaysWhole ==
  /\ part = "conversation" =>
       Conversation!WellFormed /\ Conversation!TrimKeepsMost /\ Conversation!HalveKeepsHalf
  /\ part = "talk" =>
       Talk!ModelIsSentConversations /\ Talk!ReplaysWhatWasSaid /\ Talk!OutcomeIsTheReply
=============================================================================
