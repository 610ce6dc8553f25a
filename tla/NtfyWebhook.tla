---------------------------- MODULE NtfyWebhook ----------------------------
(***************************************************************************)
(* ntfy/webhook/src/index.ts: a worker that gets batches of events from     *)
(* updown.io and posts a notification to ntfy for each of them, all at      *)
(* once.  It keeps nothing: a call that could not be served in full is      *)
(* answered 503, and the sender makes it again.  The sender and ntfy are    *)
(* external.                                                                *)
(***************************************************************************)
EXTENDS Naturals, Sequences

CONSTANTS
  Call,         \* the calls of the sender, see CallType
  Event,        \* the events in them, see EventType
  Refused,      \* events whose notification ntfy never takes
  MaxAttempts,  \* how often the sender makes a call
  MaxFaults     \* bound on lost and late answers, errors and rejections

EventType ==
  [event : {"check.down", "check.up", "check.performance_drop", "other"},
   downtime : BOOLEAN,        \* whether it has a well-formed downtime
   apdex_dropped : BOOLEAN,   \* whether it has a string of that name
   common : BOOLEAN]          \* whether time, description and check are there

CallType ==
  [post : BOOLEAN, trigger : BOOLEAN,  \* method and path
   token : BOOLEAN,                    \* whether ?token= is there
   json : BOOLEAN,                     \* whether the body is valid
   body : Seq(Event)]

ASSUME NtfyAssumption ==
  /\ Call \subseteq CallType
  /\ Refused \subseteq Event
  /\ MaxAttempts \in Nat /\ MaxFaults \in Nat

VARIABLES
  acked,     \* calls the sender has seen answered with 2xx
  attempts,  \* attempts[c]: how often a call was made
  stage,     \* stage[c]: where the handler of the latest attempt is
  failed,    \* failed[c]: "failed" of that handler
  posts,     \* requests to ntfy that are under way, <<call, attempt, index>>
  shown,     \* those that ntfy has taken
  faults     \* lost and late answers, errors and rejections so far

vars == <<acked, attempts, stage, failed, posts, shown, faults>>

Init ==
  /\ acked = {}
  /\ attempts = [c \in Call |-> 0]
  /\ stage = [c \in Call |-> "idle"]
  /\ failed = [c \in Call |-> FALSE]
  /\ posts = {}
  /\ shown = {}
  /\ faults = 0

Fault == faults < MaxFaults /\ faults' = faults + 1

-----------------------------------------------------------------------------
Valid(c) == (c.post \/ c.trigger) /\ c.token /\ c.json

EventSchema(e) ==
  /\ e.common
  /\ \/ e.event \in {"check.down", "check.up"} /\ e.downtime
     \/ e.event = "check.performance_drop" /\ e.apdex_dropped

Recognised(c) == \A i \in DOMAIN c.body : EventSchema(c.body[i])

Accepted(c) == Valid(c) /\ Recognised(c)

\* The requests to ntfy of the latest attempt that are not settled yet.
Fetches(c) == {p \in posts : p[1] = c /\ p[2] = attempts[c]}

\* updown.io makes a call, and makes it again until it is answered with 2xx.
Send(c) ==
  /\ stage[c] = "idle"
  /\ c \notin acked
  /\ attempts[c] < MaxAttempts
  /\ attempts' = [attempts EXCEPT ![c] = @ + 1]
  /\ stage' = [stage EXCEPT ![c] = "received"]
  /\ UNCHANGED <<acked, failed, posts, shown, faults>>

\* The handler is done; its answer may not reach the sender.
Respond(c, ok) ==
  /\ stage' = [stage EXCEPT ![c] = "idle"]
  /\ \/ acked' = (IF ok THEN acked \cup {c} ELSE acked) /\ UNCHANGED faults
     \/ Fault /\ UNCHANGED acked
  /\ UNCHANGED <<attempts, failed, posts, shown>>

\* Another method and path, no token, no JSON: 404 or 400.
Refuse(c) ==
  /\ stage[c] = "received"
  /\ ~Valid(c)
  /\ Respond(c, FALSE)

\* A batch with an event that is not recognised: 200, for all of it.
Dismiss(c) ==
  /\ stage[c] = "received"
  /\ Valid(c) /\ ~Recognised(c)
  /\ Respond(c, TRUE)

\* One request to ntfy for each event; none of them is awaited yet.
Accept(c) ==
  /\ stage[c] = "received"
  /\ Accepted(c)
  /\ stage' = [stage EXCEPT ![c] = "posting"]
  /\ failed' = [failed EXCEPT ![c] = FALSE]
  /\ posts' = posts \cup {<<c, attempts[c], i>> : i \in DOMAIN c.body}
  /\ UNCHANGED <<acked, attempts, shown, faults>>

\* What becomes of "failed" when a fetch has rejected, or was answered with
\* another status than 2xx.  Mutated: only one of the two is looked at.
FailedByRejection(reason) == reason = "rejected"
FailedByStatus(reason) == reason = "status"
FailedBy(reason) == TRUE

\* ntfy takes a notification; the handler, if it is still there, learns of it
\* unless the answer is an error or gets lost.
Take(p) ==
  /\ p \in posts
  /\ p[1].body[p[3]] \notin Refused
  /\ posts' = posts \ {p}
  /\ shown' = shown \cup {p}
  /\ \/ UNCHANGED <<failed, faults>>
     \/ /\ Fault
        /\ p \in Fetches(p[1])
        /\ \E reason \in {"rejected", "status"} :
             failed' = [failed EXCEPT ![p[1]] = @ \/ FailedBy(reason)]
  /\ UNCHANGED <<acked, attempts, stage>>

\* ntfy does not take it.
Fail(p) ==
  /\ p \in posts
  /\ posts' = posts \ {p}
  /\ \/ p[1].body[p[3]] \in Refused /\ UNCHANGED faults
     \/ Fault
  /\ \E reason \in {"rejected", "status"} :
       failed' = IF p \in Fetches(p[1])
                   THEN [failed EXCEPT ![p[1]] = @ \/ FailedBy(reason)]
                   ELSE failed
  /\ UNCHANGED <<acked, attempts, stage, shown>>

\* Promise.allSettled.  Mutated: its promise is not awaited.
NotAwaited(c) == TRUE
AllSettled(c) == Fetches(c) = {}

\* Mutated: "failed" belongs to the module, as the client of neckhook does.
FailedOfModule(c) == \E d \in Call : failed[d]
AnyFailed(c) == failed[c]

\* 503 or 200.
Answer(c) ==
  /\ stage[c] = "posting"
  /\ AllSettled(c)
  /\ Respond(c, ~AnyFailed(c))

\* The sender hangs up, which ends the handler; what is under way may arrive.
HangUp(c) ==
  /\ stage[c] # "idle"
  /\ Fault
  /\ stage' = [stage EXCEPT ![c] = "idle"]
  /\ UNCHANGED <<acked, attempts, failed, posts, shown>>

-----------------------------------------------------------------------------
Handle(c) == Refuse(c) \/ Dismiss(c) \/ Accept(c) \/ Answer(c)
Post(p) == Take(p) \/ Fail(p)

Next ==
  \/ \E c \in Call : Send(c) \/ Handle(c) \/ HangUp(c)
  \/ \E p \in posts : Post(p)

Spec == Init /\ [][Next]_vars

(* The sender keeps its retries up, as the answer 503 presumes, the handler *)
(* goes on, and requests to ntfy end.                                       *)
Fairness ==
  /\ \A c \in Call : WF_vars(Send(c)) /\ WF_vars(Handle(c))
  /\ WF_vars(\E p \in posts : Post(p))

-----------------------------------------------------------------------------
(* Properties.                                                              *)

\* The notices of a call, and those among the notifications ntfy has taken.
NoticesOf(c) == IF Accepted(c) THEN {<<c, i>> : i \in DOMAIN c.body} ELSE {}
Notices == {<<p[1], p[3]>> : p \in shown}

\* Nothing in the call is refused by ntfy for ever.
Takeable(c) == \A i \in DOMAIN c.body : c.body[i] \notin Refused

TypeOK ==
  /\ acked \subseteq Call
  /\ attempts \in [Call -> 0..MaxAttempts]
  /\ stage \in [Call -> {"idle", "received", "posting"}]
  /\ failed \in [Call -> BOOLEAN]
  /\ posts \subseteq Call \X (1..MaxAttempts) \X Nat
  /\ shown \subseteq Call \X (1..MaxAttempts) \X Nat
  /\ faults \in 0..MaxFaults

\* What is or was under way belongs to an event of a batch that was accepted.
PostsInv ==
  \A p \in posts \cup shown :
    Accepted(p[1]) /\ p[3] \in DOMAIN p[1].body /\ p[2] <= attempts[p[1]]

\* A handler that is posting has a request under way for every event that has
\* not arrived, or knows that one failed.
RoundInv ==
  \A c \in Call : stage[c] = "posting" =>
    /\ Accepted(c)
    /\ \A i \in DOMAIN c.body :
         failed[c] \/ <<c, attempts[c], i>> \in posts \cup shown

\* A call that is settled has been shown, and nothing of its last attempt is
\* under way.
SettledInv ==
  \A c \in acked :
    stage[c] = "idle" /\ NoticesOf(c) \subseteq Notices /\ Fetches(c) = {}

\* A handler starts with nothing of its attempt under way or shown.
FreshInv ==
  \A c \in Call : stage[c] = "received" =>
    \A p \in posts \cup shown : p[1] = c => p[2] < attempts[c]

\* What is handled has been sent, and what is shown is not under way.
CalledInv == \A c \in Call : stage[c] # "idle" => attempts[c] # 0
DisjointInv == posts \cap shown = {}

IInv ==
  /\ TypeOK /\ PostsInv /\ RoundInv /\ SettledInv /\ FreshInv
  /\ CalledInv /\ DisjointInv

\* 200 means, for a batch that is recognised, that every notification has
\* arrived, however often and by whatever attempt.
AckedIsShown == \A c \in acked : NoticesOf(c) \subseteq Notices

\* Once a call is answered with 200 nothing of that attempt is shown any more,
\* so that the notifications of a later batch come after it: only requests of
\* an attempt on which the sender had hung up may.
NoLateNotification ==
  [][\A p \in shown' \ shown : p[1] \in acked => p[2] < attempts[p[1]]]_vars

\* The events that ntfy never takes apart, a call whose answers all arrive is
\* made once, and everything in it is shown once, whatever becomes of others.
ShownOnce ==
  faults = 0 =>
    \A c \in Call : Takeable(c) =>
      \A p, q \in shown : p[1] = c /\ q[1] = c /\ p[3] = q[3] => p = q

\* The worker is a relay: what it owes is what has not been answered with 2xx.
Relay == INSTANCE AlertRelay WITH
  Notice <- NoticesOf, owed <- Call \ acked, shown <- Notices
ImplementsRelay == Relay!Spec
=============================================================================
