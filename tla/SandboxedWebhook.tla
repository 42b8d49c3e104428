-------------------------- MODULE SandboxedWebhook --------------------------
(***************************************************************************)
(* A webhook receiver: it checks the signature of a body and forwards it   *)
(* to one place.  What may be reached is the host's policy, which is       *)
(* external; so is the place, which can fail before or after it took the   *)
(* body.  A signature is the pair of the key and the body it is made of.   *)
(***************************************************************************)
EXTENDS Naturals, Sequences

CONSTANTS
  Secrets,          \* keys; "" is one that is set and empty
  Urls,             \* places, "malformed" among them
  DEFAULT_FORWARD_URL,
  MAX_BODY_BYTES

VARIABLES
  config,       \* the environment: [secret, url], each a set of at most one
  allowedHosts,
  req,          \* the request
  pc,
  forwarded,    \* what the place was sent
  response,     \* [status, verified, forwarded_to, downstream], or none
  shown         \* what the info page shows: a set of at most one signature

vars == <<config, allowedHosts, req, pc, forwarded, response, shown>>

None == {}
Some(x) == {x}
Get(option) == CHOOSE x \in option : TRUE

SAMPLE_BODY == [id |-> "sample", bytes |-> 1]
Payloads == {SAMPLE_BODY, [id |-> "other", bytes |-> 1], [id |-> "long", bytes |-> MAX_BODY_BYTES + 1]}

Mac(secret, payload) == <<secret, payload>>

\* Mutant of signing_secret: an empty one counts.
secret_if_set == config.secret

\* The key, or none when it is unset or empty: there is no default.
signing_secret == config.secret \ {""}

\* env_or
ForwardUrl == IF config.url = None THEN DEFAULT_FORWARD_URL ELSE Get(config.url)

\* A signature header: absent, not hexadecimal, or a signature, with or without the
\* prefix that says which.
Signatures ==
  {[is |-> "absent"], [is |-> "junk"]}
    \cup [is : {"hex"}, prefix : BOOLEAN, mac : {Mac(s, p) : s \in Secrets, p \in Payloads}]

verify(secret, payload, provided) ==
  IF provided.is = "absent" THEN "missing"
  ELSE IF provided.is = "junk" THEN "invalid"
  ELSE IF provided.mac = Mac(secret, payload) THEN "ok" ELSE "invalid"

\* The length a client declares, if it does, need not be the one it sends.
SentRequests ==
  [method : {"GET", "HEAD", "PUT"}]
    \cup [method : {"POST"}, declared : {None, Some(1), Some(MAX_BODY_BYTES + 1)},
          signature : Signatures, payload : Payloads]

NoResponse == [status |-> 0, verified |-> FALSE, to |-> None, downstream |-> None]
Reply(status, verified, to, downstream) ==
  /\ response' = [status |-> status, verified |-> verified, to |-> to, downstream |-> downstream]
  /\ pc' = "done"
Refuse(status) == Reply(status, FALSE, None, None) /\ UNCHANGED forwarded

\* The page signs a sample body, so that the command it shows succeeds.
info_page ==
  IF signing_secret = None THEN Refuse(503) /\ UNCHANGED shown
  ELSE Refuse(200) /\ shown' = Some(Mac(Get(signing_secret), SAMPLE_BODY))

\* main, and what handle_webhook checks before it reads the body.
Receive ==
  /\ pc = "waiting"
  /\ \E r \in SentRequests :
       /\ req' = r
       /\ CASE r.method \in {"GET", "HEAD"} -> info_page
            [] r.method = "PUT" -> Refuse(405) /\ UNCHANGED shown
            [] r.method = "POST" ->
                 /\ IF signing_secret = None THEN Refuse(503)
                    ELSE IF \E n \in r.declared : n > MAX_BODY_BYTES THEN Refuse(413)
                    ELSE pc' = "reading" /\ UNCHANGED <<forwarded, response>>
                 /\ UNCHANGED shown
  /\ UNCHANGED <<config, allowedHosts>>

ReadBody ==
  /\ pc = "reading"
  /\ \/ Refuse(400)
     \/ IF req.payload.bytes > MAX_BODY_BYTES THEN Refuse(413)
        ELSE pc' = "verifying" /\ UNCHANGED <<forwarded, response>>
  /\ UNCHANGED <<config, allowedHosts, req, shown>>

\* The signature, then the request that forwards the body.
VerifyAndBuild ==
  /\ pc = "verifying"
  /\ IF verify(Get(signing_secret), req.payload, req.signature) # "ok" THEN Refuse(401)
     ELSE IF ForwardUrl = "malformed" THEN Refuse(500)
     ELSE pc' = "sending" /\ UNCHANGED <<forwarded, response>>
  /\ UNCHANGED <<config, allowedHosts, req, shown>>

\* The one call the component makes.
Send ==
  /\ pc = "sending"
  /\ IF ForwardUrl \notin allowedHosts
     THEN Reply(502, TRUE, Some(ForwardUrl), None) /\ UNCHANGED forwarded
     ELSE \/ /\ forwarded' = Append(forwarded, [to |-> ForwardUrl, payload |-> req.payload])
             /\ \/ \E code \in {200, 500} : Reply(200, TRUE, Some(ForwardUrl), Some(code))
                \/ Reply(502, TRUE, Some(ForwardUrl), None)
          \/ Reply(502, TRUE, Some(ForwardUrl), None) /\ UNCHANGED forwarded
  /\ UNCHANGED <<config, allowedHosts, req, shown>>

\* Another request.
Again ==
  /\ pc = "done"
  /\ pc' = "waiting" /\ req' = [method |-> "none"]
  /\ forwarded' = << >> /\ response' = NoResponse
  /\ UNCHANGED <<config, allowedHosts, shown>>

Init ==
  /\ config \in [secret : {None} \cup {Some(s) : s \in Secrets}, url : {None} \cup {Some(u) : u \in Urls}]
  /\ allowedHosts \in {{}, {DEFAULT_FORWARD_URL}}
  /\ req = [method |-> "none"] /\ pc = "waiting"
  /\ forwarded = << >> /\ response = NoResponse /\ shown = None

Next == Receive \/ ReadBody \/ VerifyAndBuild \/ Send \/ Again

Spec == Init /\ [][Next]_vars

-----------------------------------------------------------------------------

\* Nothing is forwarded but a whole body, signed with a key that somebody chose, to
\* the place that is configured, once; an answer that says verified or forwarded is
\* true; and the command the page shows is not refused.
AnswersAreTrue ==
  /\ \A i \in DOMAIN forwarded :
       /\ i = 1
       /\ \E s \in Secrets \ {""} : config.secret = Some(s) /\ req.signature.mac = Mac(s, req.payload)
       /\ forwarded[i].payload = req.payload /\ req.payload.bytes <= MAX_BODY_BYTES
       /\ forwarded[i].to = ForwardUrl /\ forwarded[i].to \in allowedHosts
  /\ response.verified => req.signature.mac = Mac(Get(signing_secret), req.payload)
  /\ response.status = 200 /\ req.method = "POST" => forwarded # << >> /\ response.downstream # None
  /\ response.status = 401 /\ req.signature.is = "hex" =>
       req.signature.mac \notin shown \/ req.payload # SAMPLE_BODY
=============================================================================
