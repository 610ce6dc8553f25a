------------------------------ MODULE Neckhook ------------------------------
(***************************************************************************)
(* headscale/neckhook/src/index.ts: a worker that writes the address of     *)
(* whoever calls it to a DNS record at Cloudflare.  The client and its API  *)
(* token belong to the module, and requests are served side by side; the    *)
(* client's library repeats a failed edit and reads the token each time.    *)
(* The library, Cloudflare and the callers are external.                    *)
(***************************************************************************)
EXTENDS Naturals, Sequences

CONSTANTS
  Request,     \* [post, trigger : BOOLEAN, client_ip, token]
  None,        \* a header that is not there
  Good,        \* the tokens that Cloudflare takes
  MaxRetries,  \* of the library, 2
  MaxFaults    \* bound on errors of Cloudflare and of the connection to it

VARIABLES
  apiToken,  \* client.apiToken
  stage,     \* stage[r]: where the handler of a request is
  status,    \* status[r]: what it was answered
  sentWith,  \* sentWith[r]: the token of its latest attempt
  retries,   \* retries[r]: how often its edit has been repeated
  record,    \* the request whose edit was applied last
  late,      \* requests with an attempt that may be applied after its time-out
  timedOut,  \* requests with an attempt that ran into its time-out
  begun,     \* the requests that have set the token, in order (history)
  before,    \* before[r]: the requests that were over when r began (history)
  faults     \* errors so far

client == <<apiToken, sentWith, retries, begun, before>>
remote == <<record, late, timedOut>>
vars == <<client, remote, stage, status, faults>>

Init ==
  /\ apiToken = None
  /\ stage = [r \in Request |-> "new"]
  /\ status = [r \in Request |-> "none"]
  /\ sentWith = [r \in Request |-> None]
  /\ retries = [r \in Request |-> 0]
  /\ record = None
  /\ late = {} /\ timedOut = {}
  /\ begun = <<>>
  /\ before = [r \in Request |-> {}]
  /\ faults = 0

Fault == faults < MaxFaults /\ faults' = faults + 1

End(r, answer) ==
  /\ stage' = [stage EXCEPT ![r] = "over"]
  /\ status' = [status EXCEPT ![r] = answer]

-----------------------------------------------------------------------------
\* Mutated: the token is set before the headers are checked.
TokenAtOnce(r) == r.token
TokenOfRefused(r) == apiToken

Served(r) == (r.post \/ r.trigger) /\ r.client_ip # None /\ r.token # None

\* 404, 418 or 400.
Refuse(r) ==
  /\ stage[r] = "new"
  /\ ~Served(r)
  /\ End(r, "refused")
  /\ apiToken' = TokenOfRefused(r)
  /\ UNCHANGED <<sentWith, retries, begun, before, remote, faults>>

\* The token is set and the first attempt made with nothing in between.
Edit(r) ==
  /\ stage[r] = "new"
  /\ Served(r)
  /\ stage' = [stage EXCEPT ![r] = "trying"]
  /\ apiToken' = r.token
  /\ sentWith' = [sentWith EXCEPT ![r] = r.token]
  /\ begun' = Append(begun, r)
  /\ before' = [before EXCEPT ![r] = {q \in Request : stage[q] = "over"}]
  /\ UNCHANGED <<retries, remote, status, faults>>

\* The library tries again after a pause, or throws, which nobody catches.
TryAgain(r) ==
  IF retries[r] < MaxRetries
    THEN stage' = [stage EXCEPT ![r] = "pause"] /\ UNCHANGED status
    ELSE End(r, "exception")

\* Cloudflare applies the edit, and the answer arrives, or an error does.
Apply(r) ==
  /\ stage[r] = "trying"
  /\ sentWith[r] \in Good
  /\ record' = r
  /\ \/ stage' = [stage EXCEPT ![r] = "edited"] /\ UNCHANGED <<status, faults>>
     \/ Fault /\ TryAgain(r)
  /\ UNCHANGED <<client, late, timedOut>>

\* A token that Cloudflare does not take is no reason to try again.
Unauthorized(r) ==
  /\ stage[r] = "trying"
  /\ sentWith[r] \notin Good
  /\ End(r, "exception")
  /\ UNCHANGED <<client, remote, faults>>

\* An error, or a time-out after which the attempt may still be applied.
Error(r) ==
  /\ stage[r] = "trying"
  /\ Fault
  /\ TryAgain(r)
  /\ \/ UNCHANGED <<late, timedOut>>
     \/ /\ sentWith[r] \in Good
        /\ late' = late \cup {r} /\ timedOut' = timedOut \cup {r}
  /\ UNCHANGED <<client, record>>

ApplyLate(r) ==
  /\ r \in late
  /\ late' = late \ {r}
  /\ record' = r
  /\ UNCHANGED <<client, timedOut, stage, status, faults>>

\* The next attempt takes the token the client has now.
Retry(r) ==
  /\ stage[r] = "pause"
  /\ stage' = [stage EXCEPT ![r] = "trying"]
  /\ sentWith' = [sentWith EXCEPT ![r] = apiToken]
  /\ retries' = [retries EXCEPT ![r] = @ + 1]
  /\ UNCHANGED <<apiToken, begun, before, remote, status, faults>>

\* Mutated: the edit is not awaited.
NotAwaited(r) == stage[r] \in {"trying", "pause", "edited"}
Awaited(r) == stage[r] = "edited"

Answer(r) ==
  /\ Awaited(r)
  /\ End(r, "kk")
  /\ UNCHANGED <<client, remote, faults>>

-----------------------------------------------------------------------------
Handle(r) ==
  \/ Refuse(r) \/ Edit(r) \/ Apply(r) \/ Unauthorized(r) \/ Error(r)
  \/ Retry(r) \/ Answer(r)

Next == \E r \in Request : Handle(r) \/ ApplyLate(r)

Spec == Init /\ [][Next]_vars

-----------------------------------------------------------------------------
(* Properties.                                                              *)

\* An attempt is made with the token of the request, or, when it is a retry,
\* with that of one that began later: never with one of an earlier request,
\* and never with one of a request that was refused.
TokenOfOwnOrLater ==
  \A r \in Request : stage[r] \in {"trying", "edited"} =>
    \E i, j \in DOMAIN begun :
      /\ begun[i] = r /\ begun[j].token = sentWith[r]
      /\ i <= j /\ (retries[r] = 0 => i = j)

\* "kk" means that the record is not what a request left there that was over
\* before this one began, unless an attempt of that one had timed out.
RecordIsRegular ==
  \A r \in Request : status[r] = "kk" /\ record \in before[r] =>
    record \in timedOut

\* The inductive invariant.  The client has the token of whoever began last;
TokenInv ==
  /\ begun # <<>> => apiToken = begun[Len(begun)].token
  /\ \A r \in Request : stage[r] \in {"trying", "pause", "edited"} =>
       \E i \in DOMAIN begun : begun[i] = r

\* and what is in the record when an edit has been answered was put there by a
\* request that was not over yet, or by an attempt that had timed out.
RecordInv ==
  /\ late \subseteq timedOut
  /\ \A r \in Request :
       /\ before[r] \subseteq {q \in Request : stage[q] = "over"}
       /\ status[r] = "kk" => stage[r] = "over"
       /\ stage[r] = "edited" /\ record \in before[r] => record \in timedOut

TypeOK ==
  /\ stage \in [Request -> {"new", "trying", "pause", "edited", "over"}]
  /\ status \in [Request -> {"none", "refused", "exception", "kk"}]
  /\ retries \in [Request -> Nat]
  /\ before \in [Request -> SUBSET Request]
  /\ DOMAIN sentWith = Request
  /\ begun \in Seq(Request)

IInv == TypeOK /\ TokenInv /\ TokenOfOwnOrLater /\ RecordInv /\ RecordIsRegular
=============================================================================
