----------------------------- MODULE ForgeTools -----------------------------
(***************************************************************************)
(* github-mcp and gitlab-mcp: an agent searches a forge, or asks for a     *)
(* repository, its issues, or a file in it.  The repository, the quota and *)
(* the secret change while a call is under way, and GitLab's file takes    *)
(* two requests: for the default branch, and for the file on it.           *)
(***************************************************************************)
EXTENDS Integers, Sequences, FiniteSets, FiniteSetsExt, SequencesExt

CONSTANTS
  Branches,
  Issues,           \* what a list of issues may be: whether each is a pull request
  Sizes,            \* of files
  MAX_FILE_BYTES, PAGE,
  MaxChanges        \* bound on what changes during a call

VARIABLES
  site,     \* the repository, and what the forge lets pass
  token,    \* the secret: "none", "good" or "bad"
  call,     \* the tool's call, and how far it is
  answer,   \* what the tool answered
  window    \* what site and token were during the call

Files == [kind : {"file", "dir", "large", "none"}, bytes : Sizes, version : 0..MaxChanges]

Sees == site.public \/ token = "good"

-----------------------------------------------------------------------------
(* The forge.                                                              *)

Reply(status, limit, body) == [status |-> status, limit |-> limit, body |-> body]
NoBody == [is |-> "message"]

\* What the forge replies to a GET; GitLab's files are no directories.
Replies(get) ==
  LET github == call.forge = "github"
      branches == IF get.ref = {} THEN site.default ELSE get.ref \cap Branches
  IN IF site.quota = 0
     THEN IF github THEN {Reply(403, TRUE, NoBody), Reply(429, TRUE, NoBody)} ELSE {Reply(429, TRUE, NoBody)}
     ELSE IF token = "bad" THEN {Reply(401, FALSE, NoBody)}
     ELSE IF site.blocked THEN {Reply(403, FALSE, NoBody)}
     ELSE IF get.what = "search" THEN {Reply(200, FALSE, [is |-> "search", found |-> Sees])}
     ELSE IF ~Sees THEN {Reply(404, FALSE, NoBody)}
     ELSE IF get.what = "repository" THEN {Reply(200, FALSE, [is |-> "repository", default |-> site.default])}
     ELSE IF get.what = "issues"
     THEN {Reply(200, FALSE, [is |-> "issues", issues |-> SubSeq(site.issues, 1, Min({PAGE, Len(site.issues)}))])}
     ELSE IF \A b \in branches : site.files[b].kind \in {"none"} \cup (IF github THEN {} ELSE {"dir"}) THEN {Reply(404, FALSE, NoBody)}
     ELSE {Reply(200, FALSE, [is |-> "contents", file |-> site.files[b]]) : b \in branches}

-----------------------------------------------------------------------------
(* The tools.                                                              *)

\* Mutant of GitHubError: whatever is forbidden is the rate limit.
ForbiddenIsLimit(reply) ==
  CASE reply.status = 404        -> "missing"
    [] reply.status \in {403, 429} -> "limited"
    [] reply.status = 401        -> "failed"

\* What a status that is no success is told as.
GitHubError(reply) ==
  CASE reply.status = 404                          -> "missing"
    [] reply.status \in {403, 429} /\ reply.limit  -> "limited"
    [] reply.status \in {403, 429} /\ ~reply.limit -> "failed"
    [] reply.status = 401                          -> "failed"

GitLabError(reply) ==
  CASE reply.status = 404          -> "missing"
    [] reply.status \in {401, 403} -> "unauthorized"
    [] reply.status = 429          -> "limited"

Error(reply) == IF call.forge = "github" THEN GitHubError(reply) ELSE GitLabError(reply)

\* GitHub's issues come with its pull requests, which are left out.
Listed(issues) ==
  IF call.forge = "gitlab" THEN Len(issues) ELSE Cardinality({i \in DOMAIN issues : ~issues[i]})

\* The contents: the entries of a directory, no content of what came without, or
\* the beginning of a file.
Contents(file) ==
  CASE file.kind = "dir" -> [is |-> "dir", version |-> file.version]
    [] file.kind = "large" -> [is |-> "file", version |-> file.version, size |-> file.bytes,
                               truncated |-> TRUE, kept |-> 0]
    [] file.kind = "file" ->
         [is |-> "file", version |-> file.version, size |-> file.bytes,
          truncated |-> file.bytes > MAX_FILE_BYTES, kept |-> Min({file.bytes, MAX_FILE_BYTES})]

Told(body) ==
  CASE body.is = "repository" -> [is |-> "repository", default |-> body.default]
    [] body.is = "search" -> body
    [] body.is = "issues" -> [is |-> "issues", count |-> Listed(body.issues)]
    [] body.is = "contents" -> Contents(body.file)

Idle == [at |-> "idle"]
Now  == [site |-> site, token |-> token]

Init ==
  /\ \E issues \in Issues, kind \in {"file", "dir", "large"}, bytes \in Sizes, blocked, public \in BOOLEAN :
       site = [public |-> public, blocked |-> blocked, quota |-> 1, default |-> {Min(Branches)}, issues |-> issues,
               files |-> [b \in Branches |-> [kind |-> IF b = Min(Branches) THEN kind ELSE "none",
                                              bytes |-> bytes, version |-> 0]],
               changes |-> 0]
  /\ token \in {"none", "good", "bad"}
  /\ call = Idle /\ answer = {} /\ window = {}

Refs == {{}} \cup {{b} : b \in Branches}

\* A file of GitLab is of a branch: the one named, or else the default one.
Call(forge, what, ref) ==
  /\ call = Idle /\ answer = {}
  /\ call' = [at |-> "asking", forge |-> forge, what |-> what, named |-> ref,
              get |-> IF forge = "gitlab" /\ what = "file" /\ ref = {}
                      THEN [what |-> "repository", ref |-> {}] ELSE [what |-> what, ref |-> ref]]
  /\ window' = {Now}
  /\ UNCHANGED <<site, token, answer>>

\* The first reply of GitLab's file names the branch to ask for, if it has one.
Received ==
  /\ call.at = "asking"
  /\ \E reply \in Replies(call.get) :
       LET first == call.what = "file" /\ call.get.what = "repository" IN
       IF reply.status = 200 /\ first /\ reply.body.default # {}
       THEN /\ call' = [call EXCEPT !.get = [what |-> "file", ref |-> reply.body.default]]
            /\ UNCHANGED answer
       ELSE /\ call' = [call EXCEPT !.at = "over"]
            /\ answer' = {IF reply.status # 200 THEN [is |-> Error(reply)]
                          ELSE IF first THEN [is |-> "failed"] ELSE Told(reply.body)}
  /\ UNCHANGED <<site, token, window>>

\* The host is not allowed, or the exchange fails.
Lost ==
  /\ call.at = "asking"
  /\ call' = [call EXCEPT !.at = "over"] /\ answer' = {[is |-> "failed"]}
  /\ UNCHANGED <<site, token, window>>

\* The world goes on: a push, another default branch, a quota, the secret.
Change ==
  /\ call.at = "asking" /\ site.changes < MaxChanges
  /\ \/ \E b \in Branches, kind \in {"file", "none"} :
          /\ site' = [site EXCEPT !.files[b].kind = kind, !.files[b].version = @ + 1, !.changes = @ + 1]
          /\ UNCHANGED token
     \/ \E d \in Refs :
          site' = [site EXCEPT !.default = d, !.changes = @ + 1] /\ UNCHANGED token
     \/ \E q \in {0, 1} : site' = [site EXCEPT !.quota = q, !.changes = @ + 1] /\ UNCHANGED token
     \/ token' \in {"none", "good", "bad"} /\ site' = [site EXCEPT !.changes = @ + 1]
  /\ window' = window \cup {[site |-> site', token |-> token']}
  /\ UNCHANGED <<call, answer>>

search_repositories == Call("github", "search", {})
get_repository      == Call("github", "repository", {})
list_issues         == Call("github", "issues", {})
get_file_contents   == \E ref \in Refs : Call("github", "file", ref)

search_projects     == Call("gitlab", "search", {})
get_project         == Call("gitlab", "repository", {})
list_project_issues == Call("gitlab", "issues", {})
get_project_file    == \E ref \in Refs : Call("gitlab", "file", ref)

Next ==
  \/ search_repositories \/ get_repository \/ list_issues \/ get_file_contents
  \/ search_projects \/ get_project \/ list_project_issues \/ get_project_file
  \/ Received \/ Lost \/ Change

vars == <<site, token, call, answer, window>>
Spec == Init /\ [][Next]_vars

-----------------------------------------------------------------------------
Shows(w) == (w.site.public \/ w.token = "good") /\ w.token # "bad" /\ ~w.site.blocked /\ w.site.quota > 0

Asked(w) == IF call.named = {} THEN w.site.default ELSE call.named

\* What an answer says was so at some time during the call.
WasSo(a, w) ==
  CASE a.is = "limited"  -> w.site.quota = 0
    [] a.is = "unauthorized" -> w.site.blocked \/ w.token = "bad"
    [] a.is = "failed"        -> TRUE
    [] a.is = "missing"     -> ~Shows(w) \/ call.what = "file"
    [] a.is = "search"        -> a.found = (w.site.public \/ w.token = "good")
    [] a.is = "repository"    -> Shows(w) /\ a.default = w.site.default
    [] a.is = "issues"        -> Shows(w) /\ a.count <= PAGE
                                   /\ (Len(w.site.issues) <= PAGE => a.count = Listed(w.site.issues))
    [] a.is = "dir"           -> Shows(w) /\ \E b \in Branches : w.site.files[b].version = a.version
    [] a.is = "file"          -> Shows(w) /\ \E b \in Branches :
                                   /\ w.site.files[b].kind \in {"file", "large"} /\ w.site.files[b].version = a.version
                                   /\ a.size = w.site.files[b].bytes /\ (a.truncated <=> a.kept < a.size)
                                   /\ \E v \in window : b \in Asked(v)

(***************************************************************************)
(* What a tool tells of a forge was so while it was asked, whatever        *)
(* changed meanwhile; a file is of the branch that was named, or of one    *)
(* that was the default; and if nothing changed, and the repository can be *)
(* seen, what is there is found, unless the network failed.                *)
(***************************************************************************)
ForgeIsToldTruly ==
  \A a \in answer :
    /\ \E w \in window : WasSo(a, w)
    /\ \A w \in window :
         Cardinality(window) = 1 /\ Shows(w) /\ a.is # "failed" =>
           \/ a.is \in {"search", "repository", "issues", "file", "dir"}
           \/ call.what = "file" /\ \A b \in Asked(w) : w.site.files[b].kind \in {"none", "dir"}
=============================================================================
