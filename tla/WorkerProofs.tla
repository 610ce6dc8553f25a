---------------------------- MODULE WorkerProofs ----------------------------
(* Proofs about the dynamic DNS worker and neckhook, for any records, leases *)
(* and requests, any tokens and any number of errors.                       *)
EXTENDS SmallPrograms, TLAPS

-----------------------------------------------------------------------------
(* Facts about the leases.                                                  *)

\* The WAN always has an address of a lease, and none of them is "".
LEMMA Leases ==
  /\ Len(Lease) \in Nat \ {0}
  /\ \A m \in 1..Len(Lease) : Lease[m] \in Nat /\ Lease[m] # D!NotApplied /\ Lease[m] \in D!IP
<1>1. Lease \in Seq(Nat \ {0}) /\ Lease # <<>>
  BY DdnsAssumption
<1>2. Len(Lease) \in Nat /\ Len(Lease) # 0
  BY <1>1
<1>3. \A m \in 1..Len(Lease) : Lease[m] \in Nat \ {0}
  BY <1>1
<1> QED
  BY <1>2, <1>3 DEF D!IP, D!NotApplied

\* An error answer leaves a number of them within its bound.
LEMMA ErrorStep ==
  ASSUME errors \in 0..MaxErrors, D!ErrorAnswer
  PROVE  errors' \in 0..MaxErrors
<1>1. MaxErrors \in Nat
  BY DdnsAssumption
<1> QED
  BY <1>1 DEF D!ErrorAnswer

-----------------------------------------------------------------------------
(* The inductive invariant, one lemma per action.                           *)

\* At first nothing is applied, and the first address is a new one.
LEMMA DdnsInitial == D!Init => D!IInv
<1> SUFFICES ASSUME D!Init PROVE D!IInv
  OBVIOUS
<1>1. D!TypeOK
  <2>1. 1 \in 1..Len(Lease)
    BY Leases
  <2>2. 0 \in 0..MaxErrors /\ 0 \in 0..MaxRejects
    BY DdnsAssumption
  <2> QED
    BY <2>1, <2>2 DEF D!Init, D!TypeOK
<1>2. applied # D!gateway
  BY Leases DEF D!Init, D!gateway
<1> QED
  BY <1>1, <1>2 DEF D!Init, D!IInv, D!KnownInv, D!RoundInv, D!NewInv

\* A new round, a login and the loss of the sessions touch neither addresses
\* nor records.
LEMMA SessionSteps ==
  ASSUME D!IInv, D!Poll \/ D!Login \/ D!Logout
  PROVE  D!IInv'
<1>1. /\ UNCHANGED <<turn, records, applied, wanIP, pending, anyErrorOccurred, rejects>>
      /\ pc = "update" <=> pc' = "update"
      /\ pc' \in {"wait", "login", "device", "update"}
      /\ cookie' \in BOOLEAN /\ session' \in BOOLEAN
      /\ errors' \in 0..MaxErrors
  BY ErrorStep DEF D!Poll, D!Login, D!Logout, D!IInv, D!TypeOK, D!roundVars
<1>2. D!TypeOK'
  BY <1>1 DEF D!IInv, D!TypeOK
<1>3. D!KnownInv' /\ D!RoundInv'
  BY <1>1 DEF D!IInv, D!KnownInv, D!RoundInv
<1>4. D!NewInv'
  BY <1>1 DEF D!IInv, D!NewInv, D!gateway, D!Returned
<1> QED
  BY <1>2, <1>3, <1>4 DEF D!IInv

\* A round goes on to its updates only if the address is not the one applied.
LEMMA DeviceKeeps ==
  ASSUME D!IInv, D!Device
  PROVE  D!IInv'
<1>1. /\ pc = "device" /\ UNCHANGED <<turn, session, records, applied, rejects>>
      /\ cookie' \in BOOLEAN /\ errors' \in 0..MaxErrors
  BY ErrorStep DEF D!Device, D!AfterUnauthorized, D!IInv, D!TypeOK
<1>2. \/ pc' = "wait" /\ UNCHANGED <<pending, anyErrorOccurred>> /\ wanIP' \in {wanIP, D!gateway}
      \/ /\ pc' = "update" /\ pending' = Id /\ anyErrorOccurred' = FALSE
         /\ wanIP' = D!gateway /\ applied # D!gateway
  BY DEF D!Device, D!roundVars
<1>3. turn \in 1..Len(Lease) /\ D!gateway \in D!IP
  BY Leases DEF D!IInv, D!TypeOK, D!gateway
<1>4. D!TypeOK'
  BY <1>1, <1>2, <1>3 DEF D!IInv, D!TypeOK
<1>5. D!KnownInv'
  <2>1. Len(Lease) \in Nat
    BY Leases
  <2>2. turn \in 1..turn
    BY <1>3, <2>1
  <2>3. D!gateway \in {Lease[m] : m \in 1..turn}
    BY <2>2 DEF D!gateway
  <2>4. {applied', wanIP'} \subseteq {applied, wanIP, D!gateway} /\ turn' = turn
    BY <1>1, <1>2
  <2> QED
    BY <2>3, <2>4 DEF D!IInv, D!KnownInv
<1>6. D!RoundInv'
  BY <1>2 DEF D!RoundInv
<1>7. D!NewInv'
  <2>1. D!gateway' = D!gateway /\ D!Returned' = D!Returned
    BY <1>1 DEF D!gateway, D!Returned
  <2> QED
    BY <1>1, <1>2, <2>1 DEF D!IInv, D!NewInv
<1> QED
  BY <1>4, <1>5, <1>6, <1>7 DEF D!IInv

\* A request that is settled has written the address of the round, failed or
\* rejected; none is under way when the address applied is a new one.
LEMMA SettleKeeps ==
  ASSUME D!IInv, NEW id \in Id, D!Settle(id)
  PROVE  D!IInv'
<1>1. /\ pc = "update" /\ pc' = "update" /\ id \in pending /\ pending' = pending \ {id}
      /\ UNCHANGED <<turn, session, cookie, applied, wanIP>>
  BY DEF D!Settle
<1>2. /\ records' \in {records, [records EXCEPT ![id] = wanIP]}
      /\ errors' \in 0..MaxErrors
      /\ anyErrorOccurred' \in BOOLEAN /\ (anyErrorOccurred => anyErrorOccurred')
  <2>1. records' \in {records, [records EXCEPT ![id] = wanIP]} /\ errors' \in 0..MaxErrors
    BY ErrorStep DEF D!Settle, D!IInv, D!TypeOK
  <2>2. anyErrorOccurred' = anyErrorOccurred \/ anyErrorOccurred' = TRUE
    BY Zenon DEF D!Settle, D!FailedStatus
  <2> QED
    BY <2>1, <2>2 DEF D!IInv, D!TypeOK
<1>3. rejects' \in 0..MaxRejects /\ (rejects' = 0 => rejects = 0)
  <2>1. MaxRejects \in Nat
    BY DdnsAssumption
  <2> QED
    BY <2>1 DEF D!Settle, D!IInv, D!TypeOK
<1>4. rejects' = 0 => anyErrorOccurred' \/ records' = [records EXCEPT ![id] = wanIP]
  BY DEF D!Settle, D!FailedStatus, D!IInv, D!TypeOK
<1>5. D!TypeOK'
  BY <1>1, <1>2, <1>3 DEF D!IInv, D!TypeOK
<1>6. D!KnownInv'
  BY <1>1 DEF D!IInv, D!KnownInv
<1>7. D!RoundInv'
  <2> SUFFICES ASSUME rejects' = 0, ~anyErrorOccurred', NEW e \in Id \ pending'
               PROVE  records'[e] = wanIP
    BY <1>1 DEF D!RoundInv
  <2>1. records' = [records EXCEPT ![id] = wanIP] /\ rejects = 0 /\ ~anyErrorOccurred
    BY <1>2, <1>3, <1>4
  <2>2. e # id => records[e] = wanIP
    BY <1>1, <2>1 DEF D!IInv, D!RoundInv
  <2> QED
    BY <2>1, <2>2 DEF D!IInv, D!TypeOK
<1>8. D!NewInv'
  BY <1>1 DEF D!IInv, D!NewInv, D!gateway, D!Returned
<1> QED
  BY <1>5, <1>6, <1>7, <1>8 DEF D!IInv

\* A round without a failure has written its address to every record.
LEMMA EndRoundKeeps ==
  ASSUME D!IInv, D!EndRound
  PROVE  D!IInv'
<1>1. /\ pc = "update" /\ pending = {} /\ pc' = "wait"
      /\ applied' = (IF anyErrorOccurred THEN applied ELSE wanIP)
      /\ UNCHANGED <<turn, session, records, cookie, wanIP, pending, anyErrorOccurred, errors,
                     rejects>>
  BY DEF D!EndRound, D!AllSettled, D!roundVars
<1>2. D!TypeOK' /\ D!KnownInv' /\ D!RoundInv'
  BY <1>1 DEF D!IInv, D!TypeOK, D!KnownInv, D!RoundInv
<1>3. D!NewInv'
  <2>1. D!gateway' = D!gateway /\ D!Returned' = D!Returned
    BY <1>1 DEF D!gateway, D!Returned
  <2>2. ASSUME anyErrorOccurred
        PROVE  D!NewInv'
    BY <1>1, <2>1, <2>2 DEF D!IInv, D!NewInv
  <2>3. ASSUME ~anyErrorOccurred, rejects = 0
        PROVE  \A id \in Id : records[id] = wanIP
    BY <1>1, <2>3 DEF D!IInv, D!RoundInv
  <2> QED
    BY <1>1, <2>1, <2>2, <2>3 DEF D!NewInv
<1> QED
  BY <1>2, <1>3 DEF D!IInv

\* A worker that starts over has applied nothing.
LEMMA DieKeeps ==
  ASSUME D!IInv, D!Die
  PROVE  D!IInv'
<1>1. /\ pc \in {"login", "device"} /\ pc' = "wait" /\ cookie' = FALSE /\ applied' = D!NotApplied
      /\ UNCHANGED <<turn, session, records, wanIP, pending, anyErrorOccurred, rejects>>
      /\ errors' \in 0..MaxErrors
  BY ErrorStep DEF D!Die, D!IInv, D!TypeOK, D!roundVars
<1>2. D!TypeOK' /\ D!KnownInv' /\ D!RoundInv'
  BY <1>1 DEF D!IInv, D!TypeOK, D!KnownInv, D!RoundInv
<1>3. D!gateway' # D!NotApplied
  BY <1>1, Leases DEF D!IInv, D!TypeOK, D!gateway
<1> QED
  BY <1>1, <1>2, <1>3 DEF D!IInv, D!NewInv

\* What was applied in an earlier lease is no new address.
LEMMA ReassignKeeps ==
  ASSUME D!IInv, D!Reassign
  PROVE  D!IInv'
<1>1. /\ turn < Len(Lease) /\ turn' = turn + 1
      /\ UNCHANGED <<session, records, pc, cookie, applied, wanIP, pending, anyErrorOccurred,
                     errors, rejects>>
  BY DEF D!Reassign, D!roundVars
<1>2. turn \in Nat /\ Len(Lease) \in Nat /\ turn' \in 1..Len(Lease) /\ 1..turn = 1..(turn' - 1)
  BY <1>1, Leases DEF D!IInv, D!TypeOK
<1>3. D!TypeOK'
  BY <1>1, <1>2 DEF D!IInv, D!TypeOK
<1>4. D!KnownInv'
  <2>1. 1..turn \subseteq 1..turn'
    BY <1>1, <1>2
  <2>2. {Lease[m] : m \in 1..turn} \subseteq {Lease[m] : m \in 1..turn'}
    BY <2>1
  <2> QED
    BY <1>1, <2>2 DEF D!IInv, D!KnownInv
<1>5. D!RoundInv'
  BY <1>1 DEF D!IInv, D!RoundInv
<1>6. D!NewInv'
  <2>1. ASSUME applied' = D!gateway'
        PROVE  D!Returned'
    <3>1. D!gateway' = Lease[turn'] /\ D!gateway' # D!NotApplied
      BY <1>2, Leases DEF D!gateway
    <3>2. PICK m \in 1..turn : applied = Lease[m]
      BY <1>1, <2>1, <3>1 DEF D!IInv, D!KnownInv
    <3> QED
      BY <1>1, <1>2, <2>1, <3>2 DEF D!Returned
  <2> QED
    BY <2>1 DEF D!NewInv
<1> QED
  BY <1>3, <1>4, <1>5, <1>6 DEF D!IInv

\* Every step keeps it.
LEMMA DdnsNextKeeps == D!IInv /\ [D!Next]_D!vars => D!IInv'
<1> SUFFICES ASSUME D!IInv, [D!Next]_D!vars PROVE D!IInv'
  OBVIOUS
<1>1. CASE UNCHANGED D!vars
  BY <1>1 DEF D!vars, D!roundVars, D!IInv, D!TypeOK, D!KnownInv, D!RoundInv, D!NewInv, D!gateway,
     D!Returned
<1>2. CASE D!Next
  BY <1>2, SessionSteps, DeviceKeeps, SettleKeeps, EndRoundKeeps, DieKeeps, ReassignKeeps
     DEF D!Next, D!Worker
<1> QED
  BY <1>1, <1>2

-----------------------------------------------------------------------------
\* The inductive invariant of the worker.
THEOREM DdnsInvariance == D!Spec => []D!IInv
<1> QED
  BY DdnsInitial, DdnsNextKeeps, PTL DEF D!Spec

\* As long as no request has rejected, a round that ends because a new address
\* is applied leaves no record with another one.
THEOREM SkipIsRight == D!Spec => []SkipOfNewAddressIsSafe
<1>1. D!IInv => SkipOfNewAddressIsSafe
  BY DEF D!IInv, D!NewInv, SkipOfNewAddressIsSafe, D!SkipOfNewAddressIsSafe, D!SkipIsSafe
<1> QED
  BY <1>1, DdnsInvariance, PTL

-----------------------------------------------------------------------------
(* The inductive invariant, one lemma per action or group of actions.       *)

\* At first nobody has begun.
LEMMA HookInitial == N!Init => N!IInv
  BY DEF N!Init, N!IInv, N!TypeOK, N!TokenInv, N!TokenOfOwnOrLater, N!RecordInv, N!RecordIsRegular

\* The part about the tokens holds on when a request gets no further attempt.
LEMMA TokenKeeps ==
  ASSUME N!TokenInv, N!TokenOfOwnOrLater, UNCHANGED <<apiToken, sentWith, retries, begun>>,
         \A r \in HookRequest :
           /\ hook'[r] \in {"trying", "pause", "edited"} => hook[r] \in {"trying", "pause", "edited"}
           /\ hook'[r] \in {"trying", "edited"} => hook[r] \in {"trying", "edited"}
  PROVE  N!TokenInv' /\ N!TokenOfOwnOrLater'
  BY DEF N!TokenInv, N!TokenOfOwnOrLater

\* What the record says holds on when nobody writes to it: whoever is over stays
\* so, and whoever gets his answer was edited.
LEMMA RecordKeeps ==
  ASSUME N!IInv, UNCHANGED <<record, before>>,
         late' \subseteq timedOut', timedOut \subseteq timedOut',
         \A r \in HookRequest :
           /\ hook[r] = "over" => hook'[r] = "over"
           /\ hook'[r] = "edited" => hook[r] = "edited"
           /\ status'[r] = "kk" => hook'[r] = "over" /\ (status[r] = "kk" \/ hook[r] = "edited")
  PROVE  N!RecordInv' /\ N!RecordIsRegular'
  BY DEF N!IInv, N!TypeOK, N!RecordInv, N!RecordIsRegular

\* A request that is refused leaves the client alone.
LEMMA RefuseKeeps ==
  ASSUME N!IInv, NEW r \in HookRequest, N!Refuse(r)
  PROVE  N!IInv'
<1>1. /\ hook[r] = "new"
      /\ hook' = [hook EXCEPT ![r] = "over"] /\ status' = [status EXCEPT ![r] = "refused"]
      /\ UNCHANGED <<apiToken, sentWith, retries, begun, before, record, late, timedOut>>
  BY DEF N!Refuse, N!End, N!TokenOfRefused, N!remote
<1>2. N!TypeOK'
  BY <1>1 DEF N!IInv, N!TypeOK
<1>3. N!TokenInv' /\ N!TokenOfOwnOrLater'
  BY <1>1, TokenKeeps DEF N!IInv, N!TypeOK
<1>4. N!RecordInv' /\ N!RecordIsRegular'
  BY <1>1, RecordKeeps DEF N!IInv, N!TypeOK, N!RecordInv
<1> QED
  BY <1>2, <1>3, <1>4 DEF N!IInv

\* A request that begins is the last one that has, and whoever is over is over.
LEMMA EditKeeps ==
  ASSUME N!IInv, NEW r \in HookRequest, N!Edit(r)
  PROVE  N!IInv'
<1>1. /\ hook[r] = "new" /\ hook' = [hook EXCEPT ![r] = "trying"]
      /\ apiToken' = r.token /\ sentWith' = [sentWith EXCEPT ![r] = r.token]
      /\ begun' = Append(begun, r)
      /\ before' = [before EXCEPT ![r] = {q \in HookRequest : hook[q] = "over"}]
      /\ UNCHANGED <<retries, record, late, timedOut, status>>
  BY DEF N!Edit, N!remote
<1>2. /\ begun' \in Seq(HookRequest) /\ begun' # <<>> /\ begun'[Len(begun')] = r
      /\ Len(begun') \in DOMAIN begun'
      /\ \A i \in DOMAIN begun : i \in DOMAIN begun' /\ begun'[i] = begun[i]
  BY <1>1 DEF N!IInv, N!TypeOK
<1>3. N!TypeOK'
  BY <1>1, <1>2 DEF N!IInv, N!TypeOK
<1>4. N!TokenInv'
  BY <1>1, <1>2 DEF N!IInv, N!TypeOK, N!TokenInv
<1>5. N!TokenOfOwnOrLater'
  <2> SUFFICES ASSUME NEW q \in HookRequest, hook'[q] \in {"trying", "edited"}
               PROVE  \E i, j \in DOMAIN begun' :
                        /\ begun'[i] = q /\ begun'[j].token = sentWith'[q]
                        /\ i <= j /\ (retries'[q] = 0 => i = j)
    BY DEF N!TokenOfOwnOrLater
  <2>1. CASE q = r
    <3>1. sentWith'[r] = r.token /\ Len(begun') \in Nat
      BY <1>1, <1>2 DEF N!IInv, N!TypeOK
    <3> QED
      BY <1>2, <2>1, <3>1
  <2>2. CASE q # r
    <3>1. hook[q] \in {"trying", "edited"} /\ sentWith'[q] = sentWith[q] /\ retries' = retries
      BY <1>1, <2>2 DEF N!IInv, N!TypeOK
    <3>2. PICK i \in DOMAIN begun, j \in DOMAIN begun :
            /\ begun[i] = q /\ begun[j].token = sentWith[q]
            /\ i <= j /\ (retries[q] = 0 => i = j)
      BY <3>1 DEF N!IInv, N!TokenOfOwnOrLater
    <3> QED
      BY <1>2, <3>1, <3>2
  <2> QED
    BY <2>1, <2>2
<1>6. N!RecordInv' /\ N!RecordIsRegular'
  BY <1>1 DEF N!IInv, N!TypeOK, N!RecordInv, N!RecordIsRegular
<1> QED
  BY <1>3, <1>4, <1>5, <1>6 DEF N!IInv

\* What a failed attempt does to the stage and the status of its request.
LEMMA TryAgainStep ==
  ASSUME N!TypeOK, NEW r \in HookRequest, N!TryAgain(r)
  PROVE  /\ hook' \in {[hook EXCEPT ![r] = "pause"], [hook EXCEPT ![r] = "over"]}
         /\ \/ status' = status
            \/ hook'[r] = "over" /\ status' = [status EXCEPT ![r] = "exception"]
  BY DEF N!TryAgain, N!End, N!TypeOK

\* An edit that is applied now was not over when anybody began.
LEMMA ApplyKeeps ==
  ASSUME N!IInv, NEW r \in HookRequest, N!Apply(r)
  PROVE  N!IInv'
<1>1. /\ hook[r] = "trying" /\ record' = r
      /\ UNCHANGED <<apiToken, sentWith, retries, begun, before, late, timedOut>>
  BY DEF N!Apply, N!client
<1>2. /\ hook' \in {[hook EXCEPT ![r] = s] : s \in {"edited", "pause", "over"}}
      /\ status' = status \/ (hook'[r] = "over" /\ status' = [status EXCEPT ![r] = "exception"])
  <2>1. N!TypeOK
    BY DEF N!IInv
  <2>2. CASE hook' = [hook EXCEPT ![r] = "edited"] /\ UNCHANGED status
    BY <2>2
  <2>3. CASE N!TryAgain(r)
    BY <2>1, <2>3, TryAgainStep
  <2> QED
    BY <2>2, <2>3 DEF N!Apply
<1>3. N!TypeOK'
  BY <1>1, <1>2 DEF N!IInv, N!TypeOK
<1>4. N!TokenInv' /\ N!TokenOfOwnOrLater'
  BY <1>1, <1>2, TokenKeeps DEF N!IInv, N!TypeOK
<1>5. \A q \in HookRequest : record' \notin before'[q]
  BY <1>1 DEF N!IInv, N!RecordInv
<1>6. N!RecordInv' /\ N!RecordIsRegular'
  <2>1. \A q \in HookRequest :
          /\ hook[q] = "over" => hook'[q] = "over"
          /\ status'[q] = "kk" => status[q] = "kk"
    BY <1>1, <1>2 DEF N!IInv, N!TypeOK
  <2>2. \A q \in HookRequest : status'[q] = "kk" => hook'[q] = "over"
    BY <2>1 DEF N!IInv, N!RecordInv
  <2>3. \A q \in HookRequest : before'[q] \subseteq {p \in HookRequest : hook'[p] = "over"}
    BY <1>1, <2>1 DEF N!IInv, N!RecordInv
  <2> QED
    BY <1>1, <1>5, <2>2, <2>3 DEF N!IInv, N!RecordInv, N!RecordIsRegular
<1> QED
  BY <1>3, <1>4, <1>6 DEF N!IInv

\* An attempt that fails writes nothing yet.
LEMMA FailKeeps ==
  ASSUME N!IInv, NEW r \in HookRequest, N!Unauthorized(r) \/ N!Error(r)
  PROVE  N!IInv'
<1>1. /\ hook[r] = "trying"
      /\ UNCHANGED <<apiToken, sentWith, retries, begun, before, record>>
  BY DEF N!Unauthorized, N!Error, N!client, N!remote
<1>2. /\ hook' \in {[hook EXCEPT ![r] = s] : s \in {"pause", "over"}}
      /\ status' = status \/ (hook'[r] = "over" /\ status' = [status EXCEPT ![r] = "exception"])
  <2>1. N!TypeOK
    BY DEF N!IInv
  <2>2. CASE N!Unauthorized(r)
    BY <2>1, <2>2 DEF N!Unauthorized, N!End, N!TypeOK
  <2>3. CASE N!Error(r)
    BY <2>1, <2>3, TryAgainStep DEF N!Error
  <2> QED
    BY <2>2, <2>3
<1>3. timedOut \subseteq timedOut' /\ late' \subseteq timedOut'
  BY DEF N!Unauthorized, N!Error, N!remote, N!IInv, N!RecordInv
<1>4. N!TypeOK'
  BY <1>1, <1>2 DEF N!IInv, N!TypeOK
<1>5. N!TokenInv' /\ N!TokenOfOwnOrLater'
  BY <1>1, <1>2, TokenKeeps DEF N!IInv, N!TypeOK
<1>6. N!RecordInv' /\ N!RecordIsRegular'
  BY <1>1, <1>2, <1>3, RecordKeeps DEF N!IInv, N!TypeOK, N!RecordInv
<1> QED
  BY <1>4, <1>5, <1>6 DEF N!IInv

\* What is applied late has timed out.
LEMMA ApplyLateKeeps ==
  ASSUME N!IInv, NEW r \in HookRequest, N!ApplyLate(r)
  PROVE  N!IInv'
<1>1. /\ r \in late /\ late' = late \ {r} /\ record' = r
      /\ UNCHANGED <<apiToken, sentWith, retries, begun, before, timedOut, hook, status>>
  BY DEF N!ApplyLate, N!client
<1>2. N!TypeOK'
  BY <1>1 DEF N!IInv, N!TypeOK
<1>3. N!TokenInv' /\ N!TokenOfOwnOrLater'
  BY <1>1 DEF N!IInv, N!TokenInv, N!TokenOfOwnOrLater
<1>4. N!RecordInv' /\ N!RecordIsRegular'
  BY <1>1 DEF N!IInv, N!RecordInv, N!RecordIsRegular
<1> QED
  BY <1>2, <1>3, <1>4 DEF N!IInv

\* A retry takes the token of whoever began last.
LEMMA RetryKeeps ==
  ASSUME N!IInv, NEW r \in HookRequest, N!Retry(r)
  PROVE  N!IInv'
<1>1. /\ hook[r] = "pause" /\ hook' = [hook EXCEPT ![r] = "trying"]
      /\ sentWith' = [sentWith EXCEPT ![r] = apiToken]
      /\ retries' = [retries EXCEPT ![r] = @ + 1]
      /\ UNCHANGED <<apiToken, begun, before, record, late, timedOut, status>>
  BY DEF N!Retry, N!remote
<1>2. N!TypeOK'
  BY <1>1 DEF N!IInv, N!TypeOK
<1>3. N!TokenInv'
  BY <1>1 DEF N!IInv, N!TypeOK, N!TokenInv
<1>4. N!TokenOfOwnOrLater'
  <2> SUFFICES ASSUME NEW q \in HookRequest, hook'[q] \in {"trying", "edited"}
               PROVE  \E i, j \in DOMAIN begun :
                        /\ begun[i] = q /\ begun[j].token = sentWith'[q]
                        /\ i <= j /\ (retries'[q] = 0 => i = j)
    BY <1>1 DEF N!TokenOfOwnOrLater
  <2>1. CASE q = r
    <3>1. PICK i \in DOMAIN begun : begun[i] = r
      BY <1>1 DEF N!IInv, N!TokenInv
    <3>2. Len(begun) \in DOMAIN begun /\ i <= Len(begun) /\ begun[Len(begun)].token = apiToken
      BY <3>1 DEF N!IInv, N!TypeOK, N!TokenInv
    <3>3. retries'[r] # 0 /\ sentWith'[r] = apiToken
      BY <1>1 DEF N!IInv, N!TypeOK
    <3> QED
      BY <2>1, <3>1, <3>2, <3>3
  <2>2. CASE q # r
    <3>1. hook[q] \in {"trying", "edited"} /\ sentWith'[q] = sentWith[q] /\ retries'[q] = retries[q]
      BY <1>1, <2>2 DEF N!IInv, N!TypeOK
    <3> QED
      BY <3>1 DEF N!IInv, N!TokenOfOwnOrLater
  <2> QED
    BY <2>1, <2>2
<1>5. N!RecordInv' /\ N!RecordIsRegular'
  BY <1>1, RecordKeeps DEF N!IInv, N!TypeOK, N!RecordInv
<1> QED
  BY <1>2, <1>3, <1>4, <1>5 DEF N!IInv

\* Only an edit that has been answered is answered with "kk".
LEMMA AnswerKeeps ==
  ASSUME N!IInv, NEW r \in HookRequest, N!Answer(r)
  PROVE  N!IInv'
<1>1. /\ hook[r] = "edited"
      /\ hook' = [hook EXCEPT ![r] = "over"] /\ status' = [status EXCEPT ![r] = "kk"]
      /\ UNCHANGED <<apiToken, sentWith, retries, begun, before, record, late, timedOut>>
  BY DEF N!Answer, N!Awaited, N!End, N!client, N!remote
<1>2. N!TypeOK'
  BY <1>1 DEF N!IInv, N!TypeOK
<1>3. N!TokenInv' /\ N!TokenOfOwnOrLater'
  BY <1>1, TokenKeeps DEF N!IInv, N!TypeOK
<1>4. N!RecordInv' /\ N!RecordIsRegular'
  BY <1>1, RecordKeeps DEF N!IInv, N!TypeOK, N!RecordInv
<1> QED
  BY <1>2, <1>3, <1>4 DEF N!IInv

\* Every step keeps it.
LEMMA HookNextKeeps == N!IInv /\ [N!Next]_N!vars => N!IInv'
<1> SUFFICES ASSUME N!IInv, [N!Next]_N!vars PROVE N!IInv'
  OBVIOUS
<1>1. CASE UNCHANGED N!vars
  BY <1>1 DEF N!vars, N!client, N!remote, N!IInv, N!TypeOK, N!TokenInv, N!TokenOfOwnOrLater,
     N!RecordInv, N!RecordIsRegular
<1>2. CASE N!Next
  BY <1>2, RefuseKeeps, EditKeeps, ApplyKeeps, FailKeeps, RetryKeeps, AnswerKeeps, ApplyLateKeeps
     DEF N!Next, N!Handle
<1> QED
  BY <1>1, <1>2

-----------------------------------------------------------------------------
\* The inductive invariant of requests that share a client.
THEOREM HookInvariance == N!Spec => []N!IInv
<1> QED
  BY HookInitial, HookNextKeeps, PTL DEF N!Spec

\* No attempt is made with the token of an earlier request, or of one that was
\* refused.
THEOREM TokenIsRight == N!Spec => []TokenOfOwnOrLater
<1>1. N!IInv => TokenOfOwnOrLater
  BY DEF N!IInv, TokenOfOwnOrLater
<1> QED
  BY <1>1, HookInvariance, PTL

\* "kk" means that the record is not one that an earlier request left there,
\* time-outs apart.
THEOREM KkIsRight == N!Spec => []RecordIsRegular
<1>1. N!IInv => RecordIsRegular
  BY DEF N!IInv, RecordIsRegular
<1> QED
  BY <1>1, HookInvariance, PTL
=============================================================================
