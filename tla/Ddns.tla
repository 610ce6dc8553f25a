-------------------------------- MODULE Ddns --------------------------------
(***************************************************************************)
(* ddns.worker.ts: a loop that asks the UniFi gateway for the address of a  *)
(* WAN and, when it is not the one applied last, writes it to every DNS     *)
(* record at Bunny, all requests at once.  The gateway and Bunny are        *)
(* external: any request may be answered with an error status, and any may  *)
(* reject, for want of a connection or of an answer.                        *)
(***************************************************************************)
EXTENDS DdnsConfig

NotApplied == 0   \* lastAppliedState.wanIP = "", and what records are at first
IP == {Lease[n] : n \in 1..Len(Lease)}

VARIABLES
  turn,     \* which lease the WAN has
  session,  \* whether the gateway takes the cookie it gave out last
  records,  \* records[id] at Bunny
  pc,       \* where the loop is
  cookie,   \* whether the worker holds a cookie
  applied,  \* lastAppliedState.wanIP
  wanIP,    \* the address of this round
  pending,  \* records whose request has not been settled
  failed,   \* anyErrorOccurred
  errors,   \* error answers so far
  rejects   \* rejections so far

gateway == Lease[turn]   \* the WAN's address

roundVars == <<wanIP, pending, failed>>
vars == <<turn, session, records, pc, cookie, applied, roundVars, errors, rejects>>

Init ==
  /\ turn = 1
  /\ session = FALSE
  /\ records = [id \in Id |-> NotApplied]
  /\ pc = "wait"
  /\ cookie = FALSE
  /\ applied = NotApplied
  /\ wanIP = NotApplied
  /\ pending = {}
  /\ failed = FALSE
  /\ errors = 0
  /\ rejects = 0

ErrorAnswer == errors < MaxErrors /\ errors' = errors + 1

-----------------------------------------------------------------------------
\* The next round: log in if there is no cookie.
Poll ==
  /\ pc = "wait"
  /\ pc' = IF cookie THEN "device" ELSE "login"
  /\ UNCHANGED <<turn, session, records, cookie, applied, roundVars, errors, rejects>>

\* A login that is refused leaves the cookie empty; the round goes on.
Login ==
  /\ pc = "login"
  /\ pc' = "device"
  /\ \/ cookie' = TRUE /\ session' = TRUE /\ UNCHANGED errors
     \/ ErrorAnswer /\ UNCHANGED <<cookie, session>>
  /\ UNCHANGED <<turn, records, applied, roundVars, rejects>>

\* Mutated: a 401 is treated like any other status.
KeepCookie == cookie
AfterUnauthorized == FALSE

Unauthorized == ~(cookie /\ session)

\* An error answer ends the round, and so does an address that is applied.
Device ==
  /\ pc = "device"
  /\ \/ /\ Unauthorized
        /\ cookie' = AfterUnauthorized
        /\ pc' = "wait"
        /\ UNCHANGED <<roundVars, errors>>
     \/ /\ ErrorAnswer
        /\ pc' = "wait"
        /\ UNCHANGED <<cookie, roundVars>>
     \/ /\ ~Unauthorized
        /\ wanIP' = gateway
        /\ IF applied = wanIP'
             THEN pc' = "wait" /\ UNCHANGED <<pending, failed>>
             ELSE pc' = "update" /\ pending' = Id /\ failed' = FALSE
        /\ UNCHANGED <<cookie, errors>>
  /\ UNCHANGED <<turn, session, records, applied, rejects>>

\* Mutated: the status of the answer is not looked at.
IgnoreStatus == failed
FailedStatus == TRUE

\* One of the requests is settled; a rejected one may have arrived or not, and
\* Promise.allSettled tells nobody.
Settle(id) ==
  /\ pc = "update"
  /\ id \in pending
  /\ pending' = pending \ {id}
  /\ \/ /\ records' = [records EXCEPT ![id] = wanIP]
        /\ UNCHANGED <<failed, errors, rejects>>
     \/ /\ ErrorAnswer
        /\ failed' = FailedStatus
        /\ UNCHANGED <<records, rejects>>
     \/ /\ rejects < MaxRejects
        /\ rejects' = rejects + 1
        /\ \/ records' = [records EXCEPT ![id] = wanIP]
           \/ UNCHANGED records
        /\ UNCHANGED <<failed, errors>>
  /\ UNCHANGED <<turn, session, pc, cookie, applied, wanIP>>

AllSettled == pending = {}

EndRound ==
  /\ pc = "update"
  /\ AllSettled
  /\ pc' = "wait"
  /\ applied' = IF failed THEN applied ELSE wanIP
  /\ UNCHANGED <<turn, session, records, cookie, roundVars, errors, rejects>>

\* Rejected requests to the gateway, or an answer without the device, are not
\* caught: the process ends, and the container is started again.
Die ==
  /\ pc \in {"login", "device"}
  /\ ErrorAnswer
  /\ pc' = "wait"
  /\ cookie' = FALSE
  /\ applied' = NotApplied
  /\ UNCHANGED <<turn, session, records, roundVars, rejects>>

\* The ISP assigns another address.
Reassign ==
  /\ turn < Len(Lease)
  /\ turn' = turn + 1
  /\ UNCHANGED <<session, records, pc, cookie, applied, roundVars, errors, rejects>>

\* The gateway forgets its sessions.
Logout ==
  /\ session
  /\ ErrorAnswer
  /\ session' = FALSE
  /\ UNCHANGED <<turn, records, pc, cookie, applied, roundVars, rejects>>

-----------------------------------------------------------------------------
Worker == Poll \/ Login \/ Device \/ EndRound \/ \E id \in Id : Settle(id)
Next == Worker \/ Die \/ Reassign \/ Logout

Spec == Init /\ [][Next]_vars

(* The timer fires and requests are settled.                                *)
Fairness == WF_vars(Worker)

-----------------------------------------------------------------------------
(* Properties.                                                              *)

TypeOK ==
  /\ turn \in 1..Len(Lease)
  /\ session \in BOOLEAN
  /\ records \in [Id -> IP \cup {NotApplied}]
  /\ pc \in {"wait", "login", "device", "update"}
  /\ cookie \in BOOLEAN
  /\ applied \in IP \cup {NotApplied}
  /\ wanIP \in IP \cup {NotApplied}
  /\ pending \subseteq Id
  /\ failed \in BOOLEAN
  /\ errors \in 0..MaxErrors
  /\ rejects \in 0..MaxRejects
  /\ pc # "update" => pending = {}

\* A round that finds the address applied may end there, as "continue" has it:
\* every record has that address.
SkipIsSafe ==
  pc # "update" /\ applied = gateway => \A id \in Id : records[id] = gateway

\* The WAN has an address that it had before.
Returned == \E m \in 1..(turn - 1) : Lease[m] = gateway

\* That is so as long as no request has rejected and the address is a new one,
\* whatever rounds that failed half-way have left behind.
SkipOfNewAddressIsSafe == rejects = 0 /\ ~Returned => SkipIsSafe

\* With the same exceptions every record has the address of the WAN.
RecordsAgree ==
  rejects = 0 /\ ~Returned => \A id \in Id : records[id] = gateway

\* The inductive invariant.  What the worker knows are addresses that the WAN
\* has or had; a request that is settled has written the address of the round,
\* unless one failed or rejected; and an address that is new and applied was
\* applied in its own lease, in which no round has written anything since.
KnownInv == {applied, wanIP} \subseteq {NotApplied} \cup {Lease[m] : m \in 1..turn}

RoundInv ==
  pc = "update" /\ rejects = 0 =>
    \A id \in Id \ pending : failed \/ records[id] = wanIP

NewInv ==
  applied = gateway /\ ~Returned =>
    /\ pc # "update"
    /\ rejects = 0 => \A id \in Id : records[id] = gateway

IInv == TypeOK /\ KnownInv /\ RoundInv /\ NewInv
=============================================================================
