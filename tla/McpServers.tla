----------------------------- MODULE McpServers -----------------------------
(***************************************************************************)
(* The MCP servers: the bridge that all of them have, and what the tools   *)
(* of six of them answer.  A behaviour is of one, and the rest stands      *)
(* still.                                                                  *)
(***************************************************************************)
EXTENDS McpBridge, Integers

CONSTANTS
  Texts, MAX_INPUT_BYTES,                             \* see PiiRedactor
  Fetches, MAX_BODY_BYTES,                            \* see WebFetch
  Lookups, Versions,                                  \* see OsvTools
  MAX_DETAILS_BYTES, MAX_REFERENCES, MAX_RANGE_LINES,
  Passes, DAY,                                        \* see IssTools
  Branches, Issues, Sizes, MAX_FILE_BYTES, PAGE,      \* see ForgeTools
  MaxChanges

VARIABLES
  app,
  given, made,                        \* the tools that are asked once
  site, token, call, answer, window   \* GitHub's and GitLab's

onceVars  == <<given, made>>
forgeVars == <<site, token, call, answer, window>>

Redactor == INSTANCE PiiRedactor WITH Requests <- Texts
Web      == INSTANCE WebFetch WITH Requests <- Fetches
Osv      == INSTANCE OsvTools WITH Calls <- Lookups
Iss      == INSTANCE IssTools WITH Calls <- Passes
Forge    == INSTANCE ForgeTools

\* What looks like personal data is some of a text.
ASSUME TextsAssumption ==
  \A r \in Texts :
    /\ r.text.bytes \in Nat /\ IsFiniteSet(r.text.candidates)
    /\ r.text.candidates \subseteq [start : 0..r.text.bytes, end : 0..r.text.bytes,
                                   category : Range(Redactor!KNOWN_TYPES), digits : Seq(0..9)]
    /\ \A c \in r.text.candidates : c.start < c.end

\* A branch to begin with; a file of no bytes is not cut.
ASSUME ForgeAssumption ==
  /\ Branches # {} /\ Branches \subseteq Nat
  /\ Issues \subseteq Seq(BOOLEAN)
  /\ Sizes \subseteq Nat \ {0}
  /\ {MAX_FILE_BYTES, PAGE, MaxChanges} \subseteq Nat

-----------------------------------------------------------------------------
NotAsked == given = {} /\ made = << >>
NoForge == site = {} /\ token = "" /\ call = {} /\ answer = {} /\ window = {}

ServersInit ==
  /\ Init
  /\ \/ app = "bridge" /\ NotAsked /\ NoForge
     \/ app = "redactor" /\ Redactor!Init /\ NoForge
     \/ app = "web" /\ Web!Init /\ NoForge
     \/ app = "osv" /\ Osv!Init /\ NoForge
     \/ app = "iss" /\ Iss!Init /\ NoForge
     \/ app = "forge" /\ Forge!Init /\ NotAsked

ServersNext ==
  \/ app = "bridge" /\ Next /\ UNCHANGED <<app, onceVars, forgeVars>>
  \/ app = "redactor" /\ Redactor!Next /\ UNCHANGED <<vars, app, forgeVars>>
  \/ app = "web" /\ Web!Next /\ UNCHANGED <<vars, app, forgeVars>>
  \/ app = "osv" /\ Osv!Next /\ UNCHANGED <<vars, app, forgeVars>>
  \/ app = "iss" /\ Iss!Next /\ UNCHANGED <<vars, app, forgeVars>>
  \/ app = "forge" /\ Forge!Next /\ UNCHANGED <<vars, app, onceVars>>

\* In the other servers no exchange begins, and nothing is asked of any.
ServersSpec == ServersInit /\ [][ServersNext]_<<vars, app, onceVars, forgeVars>> /\ Fairness

-----------------------------------------------------------------------------

\* Every place of a text comes out, once or behind a counted placeholder; see PiiRedactor.
RedactionIsAccounted == app = "redactor" => Redactor!RedactionIsAccounted

\* What is told of a repository was so while it was asked; see ForgeTools.
ForgeIsToldTruly == app = "forge" => Forge!ForgeIsToldTruly

\* A page, an advisory and an instant are told as they are; see WebFetch, OsvTools
\* and IssTools.
ToolsTellTheTruth ==
  /\ app = "web" => Web!PageIsToldTruly
  /\ app = "osv" => Osv!AdvisoryIsTold
  /\ app = "iss" => Iss!DateIsOfInstant

\* Every range of an advisory is told as it is; see OsvTools.
RangesAreTold == app = "osv" => Osv!RangesAreTold
=============================================================================
