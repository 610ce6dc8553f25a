------------------------- MODULE NtfyWebhookProofs -------------------------
(* Proofs about NtfyWebhook, for any calls, events and numbers of attempts. *)
EXTENDS NtfyWebhook, TLAPS

\* What Respond does to the parts of the invariant that do not mention it.
LEMMA RespondStep ==
  ASSUME IInv, NEW c \in Call, NEW ok \in BOOLEAN, Respond(c, ok),
         stage[c] # "idle", c \notin acked, Fetches(c) = {},
         ok => NoticesOf(c) \subseteq Notices
  PROVE  IInv'
<1>1. TypeOK'
  BY NtfyAssumption DEF IInv, TypeOK, Respond, Fault
<1>2. PostsInv'
  BY DEF IInv, PostsInv, Respond
<1>3. RoundInv'
  <2> SUFFICES ASSUME NEW d \in Call, stage'[d] = "posting"
               PROVE  /\ Accepted(d)
                      /\ \A i \in DOMAIN d.body :
                           failed'[d] \/ <<d, attempts'[d], i>> \in posts' \cup shown'
    BY DEF RoundInv
  <2> stage[d] = "posting"
    BY DEF IInv, TypeOK, Respond
  <2> QED BY DEF IInv, RoundInv, Respond
<1>4. SettledInv'
  <2> SUFFICES ASSUME NEW d \in acked'
               PROVE  /\ stage'[d] = "idle"
                      /\ NoticesOf(d) \subseteq Notices'
                      /\ Fetches(d)' = {}
    BY DEF SettledInv
  <2>1. Notices' = Notices /\ Fetches(d)' = Fetches(d)
    BY DEF Notices, Fetches, Respond
  <2>2. CASE d = c
    <3>1. ok
      BY <2>2 DEF Respond
    <3>2. stage'[c] = "idle"
      BY DEF IInv, TypeOK, Respond
    <3> QED BY <2>1, <2>2, <3>1, <3>2
  <2>3. CASE d # c
    <3>1. d \in acked
      BY <2>3 DEF Respond
    <3>2. d \in Call /\ stage'[d] = stage[d]
      BY <2>3, <3>1 DEF IInv, TypeOK, Respond
    <3> QED BY <2>1, <3>1, <3>2 DEF IInv, SettledInv
  <2> QED BY <2>2, <2>3
<1>5. FreshInv'
  BY DEF IInv, TypeOK, FreshInv, Fetches, Respond
<1>6. CalledInv' /\ DisjointInv'
  BY DEF IInv, TypeOK, CalledInv, DisjointInv, Respond
<1> QED BY <1>1, <1>2, <1>3, <1>4, <1>5, <1>6 DEF IInv

\* The initial states satisfy the invariant.
LEMMA InitIInv == Init => IInv
BY NtfyAssumption
   DEF Init, IInv, TypeOK, PostsInv, RoundInv, SettledInv, FreshInv, Fetches,
     CalledInv, DisjointInv

LEMMA SendStep ==
  ASSUME IInv, NEW c \in Call, Send(c)
  PROVE  IInv'
<1>1. TypeOK'
  BY NtfyAssumption DEF IInv, TypeOK, Send
<1>2. PostsInv'
  <2> SUFFICES ASSUME NEW p \in posts \cup shown
               PROVE  /\ Accepted(p[1])
                      /\ p[3] \in DOMAIN p[1].body
                      /\ p[2] <= attempts'[p[1]]
    BY DEF PostsInv, Send
  <2>1. p[1] \in Call /\ p[2] \in Nat /\ p[2] <= attempts[p[1]]
    BY DEF IInv, TypeOK, PostsInv
  <2>2. attempts[p[1]] \in Nat /\ attempts'[p[1]] >= attempts[p[1]]
    BY <2>1, NtfyAssumption DEF IInv, TypeOK, Send
  <2>3. attempts'[p[1]] \in Nat
    BY <1>1, <2>1 DEF TypeOK
  <2>4. p[2] <= attempts'[p[1]]
    BY <2>1, <2>2, <2>3
  <2> QED BY <2>4 DEF IInv, PostsInv
<1>3. RoundInv'
  <2> SUFFICES ASSUME NEW d \in Call, stage'[d] = "posting"
               PROVE  /\ Accepted(d)
                      /\ \A i \in DOMAIN d.body :
                           failed'[d] \/ <<d, attempts'[d], i>> \in posts' \cup shown'
    BY DEF RoundInv
  <2> d # c /\ stage[d] = "posting" /\ attempts'[d] = attempts[d]
    BY DEF IInv, TypeOK, Send
  <2> QED BY DEF IInv, RoundInv, Send
<1>4. SettledInv'
  <2> SUFFICES ASSUME NEW d \in acked
               PROVE  /\ stage'[d] = "idle"
                      /\ NoticesOf(d) \subseteq Notices'
                      /\ Fetches(d)' = {}
    BY DEF SettledInv, Send
  <2> d \in Call /\ d # c /\ stage'[d] = stage[d] /\ attempts'[d] = attempts[d]
    BY DEF IInv, TypeOK, Send
  <2> QED BY DEF IInv, SettledInv, Notices, Fetches, Send
<1>5. FreshInv'
  <2> SUFFICES ASSUME NEW d \in Call, stage'[d] = "received",
                      NEW p \in posts \cup shown, p[1] = d
               PROVE  p[2] < attempts'[d]
    BY DEF FreshInv, Send
  <2>1. CASE d = c
    <3>1. p[2] \in Nat /\ p[2] <= attempts[c] /\ attempts'[c] = attempts[c] + 1
      BY <2>1 DEF IInv, TypeOK, PostsInv, Send
    <3>2. attempts[c] \in Nat
      BY NtfyAssumption DEF IInv, TypeOK
    <3> QED BY <2>1, <3>1, <3>2
  <2>2. CASE d # c
    BY <2>2 DEF IInv, TypeOK, FreshInv, Send
  <2> QED BY <2>1, <2>2
<1>6. CalledInv'
  <2> SUFFICES ASSUME NEW d \in Call, stage'[d] # "idle" PROVE attempts'[d] # 0
    BY DEF CalledInv
  <2>1. attempts[d] \in Nat
    BY NtfyAssumption DEF IInv, TypeOK
  <2> QED BY <2>1 DEF IInv, TypeOK, CalledInv, Send
<1>7. DisjointInv'
  BY DEF IInv, DisjointInv, Send
<1> QED BY <1>1, <1>2, <1>3, <1>4, <1>5, <1>6, <1>7 DEF IInv

\* No post of an attempt that has just been received is there.
LEMMA FreshFetches ==
  ASSUME IInv, NEW c \in Call, stage[c] = "received"
  PROVE  Fetches(c) = {} /\ \A i : <<c, attempts[c], i>> \notin posts \cup shown
<1>1. attempts[c] \in Nat
  BY NtfyAssumption DEF IInv, TypeOK
<1>2. \A p \in posts \cup shown : p[1] = c => p[2] # attempts[c]
  BY <1>1 DEF IInv, FreshInv
<1> QED BY <1>2 DEF Fetches

\* A handler that answers 200 has seen every notification arrive.
LEMMA AnswerIsShown ==
  ASSUME IInv, NEW c \in Call, Answer(c)
  PROVE  /\ AnyFailed(c) \in BOOLEAN
         /\ ~AnyFailed(c) => NoticesOf(c) \subseteq Notices
<1>1. Fetches(c) = {} /\ stage[c] = "posting"
  BY DEF Answer, AllSettled
<1>2. AnyFailed(c) \in BOOLEAN
  BY DEF AnyFailed, IInv, TypeOK
<1>3. ASSUME ~failed[c], NEW n \in NoticesOf(c)
      PROVE  n \in Notices
  <2>1. PICK i \in DOMAIN c.body : n = <<c, i>>
    BY DEF NoticesOf
  <2>2. <<c, attempts[c], i>> \in posts \cup shown
    BY <1>1, <1>3 DEF IInv, RoundInv
  <2>3. <<c, attempts[c], i>> \notin posts
    BY <1>1 DEF Fetches
  <2> QED BY <2>1, <2>2, <2>3 DEF Notices
<1> QED BY <1>2, <1>3 DEF AnyFailed

LEMMA HandleStep ==
  ASSUME IInv, NEW c \in Call, Handle(c)
  PROVE  IInv'
<1>0. c \notin acked
  BY DEF IInv, SettledInv, Handle, Refuse, Dismiss, Accept, Answer
<1>1. CASE Refuse(c)
  <2> Fetches(c) = {}
    BY <1>1, FreshFetches DEF Refuse
  <2> QED BY <1>0, <1>1, RespondStep DEF Refuse
<1>2. CASE Dismiss(c)
  <2>1. Fetches(c) = {}
    BY <1>2, FreshFetches DEF Dismiss
  <2>2. NoticesOf(c) = {}
    BY <1>2 DEF NoticesOf, Accepted, Dismiss
  <2> QED BY <1>0, <1>2, <2>1, <2>2, RespondStep DEF Dismiss
<1>3. CASE Answer(c)
  <2>1. Fetches(c) = {} /\ stage[c] = "posting"
    BY <1>3 DEF Answer, AllSettled
  <2>2. AnyFailed(c) \in BOOLEAN /\ (~AnyFailed(c) => NoticesOf(c) \subseteq Notices)
    BY <1>3, AnswerIsShown
  <2>4. Respond(c, ~AnyFailed(c))
    BY <1>3 DEF Answer
  <2> QED BY <1>0, <2>1, <2>2, <2>4, RespondStep
<1>4. CASE Accept(c)
  <2>0. /\ stage[c] = "received" /\ stage'[c] = "posting" /\ Accepted(c)
        /\ \A d \in Call : d # c => stage'[d] = stage[d] /\ failed'[d] = failed[d]
        /\ posts \subseteq posts' /\ shown' = shown
        /\ attempts' = attempts /\ acked' = acked
        /\ \A i \in DOMAIN c.body : <<c, attempts[c], i>> \in posts'
        /\ \A p \in posts' \ posts : \E i \in DOMAIN c.body : p = <<c, attempts[c], i>>
    BY <1>4 DEF IInv, TypeOK, Accept
  <2>1. attempts[c] \in 1..MaxAttempts
    <3>1. attempts[c] \in 0..MaxAttempts
      BY DEF IInv, TypeOK
    <3>2. attempts[c] # 0
      BY <2>0 DEF IInv, CalledInv
    <3> QED BY <3>1, <3>2
  <2>2. DOMAIN c.body \subseteq Nat
    BY NtfyAssumption DEF CallType
  <2>3. TypeOK'
    BY <1>4, <2>0, <2>1, <2>2 DEF IInv, TypeOK, Accept
  <2>4. PostsInv'
    <3> SUFFICES ASSUME NEW p \in posts' \cup shown
                 PROVE  /\ Accepted(p[1]) /\ p[3] \in DOMAIN p[1].body
                        /\ p[2] <= attempts[p[1]]
      BY <2>0 DEF PostsInv
    <3>1. CASE p \in posts \cup shown
      BY <3>1 DEF IInv, PostsInv
    <3>2. CASE p \notin posts \cup shown
      BY <2>0, <2>1, <3>2
    <3> QED BY <3>1, <3>2
  <2>5. RoundInv'
    <3> SUFFICES ASSUME NEW d \in Call, stage'[d] = "posting"
                 PROVE  /\ Accepted(d)
                        /\ \A i \in DOMAIN d.body :
                             failed'[d] \/ <<d, attempts[d], i>> \in posts' \cup shown
      BY <2>0 DEF RoundInv
    <3> QED BY <2>0 DEF IInv, RoundInv
  <2>6. SettledInv'
    <3> SUFFICES ASSUME NEW d \in acked
                 PROVE  /\ stage'[d] = "idle" /\ NoticesOf(d) \subseteq Notices'
                        /\ Fetches(d)' = {}
      BY <2>0 DEF SettledInv
    <3> d \in Call /\ d # c
      BY <1>0 DEF IInv, TypeOK
    <3> QED BY <2>0 DEF IInv, SettledInv, Notices, Fetches
  <2>7. FreshInv'
    BY <2>0 DEF IInv, FreshInv, Fetches
  <2>8. CalledInv'
    BY <2>0 DEF IInv, CalledInv
  <2>9. DisjointInv'
    BY <2>0, FreshFetches DEF IInv, DisjointInv
  <2> QED BY <2>3, <2>4, <2>5, <2>6, <2>7, <2>8, <2>9 DEF IInv
<1> QED BY <1>1, <1>2, <1>3, <1>4 DEF Handle

\* ntfy takes a notification or does not.
LEMMA PostStep ==
  ASSUME IInv, NEW p \in posts, Post(p)
  PROVE  IInv'
<1>1. /\ posts' = posts \ {p} /\ shown \subseteq shown' /\ shown' \subseteq shown \cup {p}
      /\ stage' = stage /\ attempts' = attempts /\ acked' = acked
  BY DEF Post, Take, Fail
<1>2. /\ p[1] \in Call /\ p = <<p[1], p[2], p[3]>>
      /\ faults' \in 0..MaxFaults /\ failed' \in [Call -> BOOLEAN]
      /\ \A d \in Call : failed[d] => failed'[d]
  <2>1. p[1] \in Call /\ p = <<p[1], p[2], p[3]>>
    BY DEF IInv, TypeOK
  <2>2. faults' \in 0..MaxFaults
    BY NtfyAssumption DEF IInv, TypeOK, Post, Take, Fail, Fault
  <2>3. failed' = failed \/ failed' = [failed EXCEPT ![p[1]] = TRUE]
    <3>1. \A reason \in {"rejected", "status"} :
            [failed EXCEPT ![p[1]] = @ \/ FailedBy(reason)] = [failed EXCEPT ![p[1]] = TRUE]
      BY DEF FailedBy, IInv, TypeOK
    <3> QED BY <3>1 DEF Post, Take, Fail
  <2> QED BY <2>1, <2>2, <2>3 DEF IInv, TypeOK
<1>3. shown' = shown /\ p \in Fetches(p[1]) => failed'[p[1]]
  <2> SUFFICES ASSUME shown' = shown, p \in Fetches(p[1])
               PROVE  failed'[p[1]]
    OBVIOUS
  <2>1. CASE p \in shown
    BY <2>1 DEF IInv, DisjointInv
  <2>2. CASE Take(p)
    BY <2>2 DEF Take, IInv, DisjointInv
  <2>3. CASE Fail(p)
    <3>1. PICK reason \in {"rejected", "status"} :
            failed' = [failed EXCEPT ![p[1]] = @ \/ FailedBy(reason)]
      BY <2>3 DEF Fail
    <3>2. FailedBy(reason)
      BY DEF FailedBy
    <3> QED BY <1>2, <3>1, <3>2 DEF IInv, TypeOK
  <2> QED BY <2>2, <2>3 DEF Post
<1>4. TypeOK'
  BY <1>1, <1>2 DEF IInv, TypeOK
<1>5. PostsInv'
  BY <1>1 DEF IInv, PostsInv
<1>6. RoundInv'
  <2> SUFFICES ASSUME NEW d \in Call, stage[d] = "posting", NEW i \in DOMAIN d.body,
                      ~failed'[d]
               PROVE  <<d, attempts[d], i>> \in posts' \cup shown'
    BY <1>1 DEF IInv, RoundInv
  <2>1. <<d, attempts[d], i>> \in posts \cup shown
    BY <1>2 DEF IInv, RoundInv
  <2>2. CASE <<d, attempts[d], i>> # p
    BY <1>1, <2>1, <2>2
  <2>3. CASE <<d, attempts[d], i>> = p
    <3>1. p \in Fetches(p[1]) /\ p[1] = d
      BY <2>3 DEF Fetches
    <3>2. shown' # shown
      BY <1>3, <3>1
    <3> QED BY <1>1, <2>3, <3>2
  <2> QED BY <2>2, <2>3
<1>7. SettledInv'
  BY <1>1 DEF IInv, SettledInv, Notices, Fetches
<1>8. FreshInv'
  BY <1>1 DEF IInv, FreshInv, Fetches
<1>9. CalledInv' /\ DisjointInv'
  BY <1>1 DEF IInv, CalledInv, DisjointInv
<1> QED BY <1>4, <1>5, <1>6, <1>7, <1>8, <1>9 DEF IInv

LEMMA HangUpStep ==
  ASSUME IInv, NEW c \in Call, HangUp(c)
  PROVE  IInv'
<1>1. \A d \in Call : stage'[d] = (IF d = c THEN "idle" ELSE stage[d])
  BY DEF IInv, TypeOK, HangUp
<1>2. TypeOK'
  BY NtfyAssumption DEF IInv, TypeOK, HangUp, Fault
<1>3. RoundInv' /\ FreshInv' /\ CalledInv'
  BY <1>1 DEF IInv, RoundInv, FreshInv, CalledInv, Fetches, HangUp
<1>4. SettledInv'
  BY <1>1, <1>2 DEF IInv, TypeOK, SettledInv, Notices, Fetches, HangUp
<1>5. PostsInv' /\ DisjointInv'
  BY DEF IInv, PostsInv, DisjointInv, HangUp
<1> QED BY <1>2, <1>3, <1>4, <1>5 DEF IInv

LEMMA NextIInv == IInv /\ [Next]_vars => IInv'
<1> SUFFICES ASSUME IInv, [Next]_vars PROVE IInv'
  OBVIOUS
<1>1. CASE Next
  BY <1>1, SendStep, HandleStep, PostStep, HangUpStep DEF Next
<1>2. CASE UNCHANGED vars
  BY <1>2 DEF vars, IInv, TypeOK, PostsInv, RoundInv, SettledInv, FreshInv,
    CalledInv, DisjointInv, Notices, Fetches
<1> QED BY <1>1, <1>2

\* The inductive invariant holds in every reachable state.
THEOREM Invariance == Spec => []IInv
BY InitIInv, NextIInv, PTL DEF Spec

\* 200 for a recognised batch means that all of it has been shown.
THEOREM AckedShown == Spec => []AckedIsShown
<1>1. IInv => AckedIsShown
  BY DEF IInv, SettledInv, AckedIsShown
<1> QED BY <1>1, Invariance, PTL

\* After a 200 nothing of the same attempt is shown any more.
THEOREM NoLate == Spec => NoLateNotification
<1>1. IInv /\ [Next]_vars =>
        [\A p \in shown' \ shown : p[1] \in acked => p[2] < attempts[p[1]]]_vars
  <2> SUFFICES ASSUME IInv, Next, NEW p \in shown' \ shown, p[1] \in acked
               PROVE  p[2] < attempts[p[1]]
    BY Zenon
  <2>1. p \in posts
    BY DEF Next, Send, Handle, Refuse, Dismiss, Accept, Answer, Respond, HangUp,
      Post, Take, Fail
  <2>2. p[2] <= attempts[p[1]] /\ p[2] # attempts[p[1]]
    BY <2>1 DEF IInv, PostsInv, SettledInv, Fetches
  <2>3. p[2] \in Nat /\ attempts[p[1]] \in Nat
    BY <2>1 DEF IInv, TypeOK
  <2> QED BY <2>2, <2>3
<1> QED BY <1>1, Invariance, PTL DEF Spec, NoLateNotification

\* The worker implements the relay: calls are settled only when all they have
\* to tell has been shown, and what was shown stays shown.
THEOREM Refinement == Spec => ImplementsRelay
<1>1. Init => Relay!Init
  BY DEF Init, Relay!Init, Notices
<1>2. IInv /\ [Next]_vars => [Relay!Next]_<<Call \ acked, Notices>>
  <2> SUFFICES ASSUME IInv, [Next]_vars
               PROVE  Relay!Next \/ (acked' = acked /\ Notices' = Notices)
    OBVIOUS
  <2>1. ASSUME NEW c \in Call, NEW ok \in BOOLEAN, Respond(c, ok), c \notin acked,
               ok => NoticesOf(c) \subseteq Notices
        PROVE  Relay!Next \/ (acked' = acked /\ Notices' = Notices)
    <3>1. Notices' = Notices /\ acked' \in {acked, acked \cup {c}}
      BY <2>1 DEF Respond, Notices
    <3>2. CASE acked' = acked \cup {c} /\ ok
      BY <2>1, <3>1, <3>2 DEF Relay!Next, Relay!Settle
    <3>3. CASE acked' = acked
      BY <3>1, <3>3
    <3> QED BY <2>1, <3>1, <3>2, <3>3 DEF Respond
  <2>2. ASSUME NEW p \in posts, Post(p)
        PROVE  Relay!Next \/ (acked' = acked /\ Notices' = Notices)
    <3>1. acked' = acked /\ shown' \in {shown, shown \cup {p}}
      BY <2>2 DEF Post, Take, Fail
    <3>2. p[1] \in Call /\ <<p[1], p[3]>> \in NoticesOf(p[1])
      BY DEF IInv, TypeOK, PostsInv, NoticesOf
    <3>3. CASE shown' = shown
      BY <3>1, <3>3 DEF Notices
    <3>4. CASE shown' = shown \cup {p}
      <4>1. Notices' = Notices \cup {<<p[1], p[3]>>}
        BY <3>4 DEF Notices
      <4>2. CASE p[1] \in acked
        BY <3>1, <3>2, <4>1, <4>2 DEF IInv, SettledInv
      <4>3. CASE p[1] \notin acked
        BY <3>1, <3>2, <4>1, <4>3 DEF Relay!Next, Relay!Show
      <4> QED BY <4>2, <4>3
    <3> QED BY <3>1, <3>3, <3>4
  <2>3. ASSUME NEW c \in Call, Handle(c)
        PROVE  Relay!Next \/ (acked' = acked /\ Notices' = Notices)
    <3>1. c \notin acked
      BY <2>3 DEF IInv, SettledInv, Handle, Refuse, Dismiss, Accept, Answer
    <3>2. CASE Accept(c)
      BY <3>2 DEF Accept, Notices
    <3>3. CASE Refuse(c)
      BY <2>1, <3>1, <3>3 DEF Refuse
    <3>4. CASE Dismiss(c)
      BY <2>1, <3>1, <3>4 DEF Dismiss, NoticesOf, Accepted
    <3>5. CASE Answer(c)
      BY <2>1, <3>1, <3>5, AnswerIsShown DEF Answer
    <3> QED BY <2>3, <3>2, <3>3, <3>4, <3>5 DEF Handle
  <2>4. ASSUME NEW c \in Call, Send(c) \/ HangUp(c)
        PROVE  acked' = acked /\ Notices' = Notices
    BY <2>4 DEF Send, HangUp, Notices
  <2>5. CASE UNCHANGED vars
    BY <2>5 DEF vars, Notices
  <2> QED BY <2>2, <2>3, <2>4, <2>5 DEF Next
<1> QED BY <1>1, <1>2, Invariance, PTL DEF Spec, ImplementsRelay, Relay!Spec

-----------------------------------------------------------------------------
\* Without a fault a call that ntfy takes is made once and answered with 200.
OnceInv ==
  faults = 0 => \A c \in Call : Accepted(c) /\ Takeable(c) =>
    /\ ~failed[c]
    /\ attempts[c] <= 1
    /\ attempts[c] = 1 /\ stage[c] = "idle" => c \in acked

LEMMA OnceStep ==
  ASSUME IInv, OnceInv, [Next]_vars
  PROVE  OnceInv'
<1> SUFFICES ASSUME faults' = 0, NEW c \in Call, Accepted(c), Takeable(c)
             PROVE  /\ ~failed'[c] /\ attempts'[c] <= 1
                    /\ attempts'[c] = 1 /\ stage'[c] = "idle" => c \in acked'
  BY DEF OnceInv
<1>1. faults = 0 /\ ~Fault
  BY NtfyAssumption
     DEF IInv, TypeOK, Next, vars, Send, Handle, Refuse, Dismiss, Accept, Answer,
       Respond, HangUp, Post, Take, Fail, Fault
<1>2. /\ ~failed[c] /\ attempts[c] <= 1 /\ attempts[c] \in Nat
      /\ attempts[c] = 1 /\ stage[c] = "idle" => c \in acked
  BY <1>1, NtfyAssumption DEF OnceInv, IInv, TypeOK
<1>3. ASSUME NEW d \in Call, Send(d)
      PROVE  /\ ~failed'[c] /\ attempts'[c] <= 1
             /\ attempts'[c] = 1 /\ stage'[c] = "idle" => c \in acked'
  <2>1. CASE d = c
    <3>1. attempts[c] = 0
      BY <1>2, <1>3, <2>1 DEF Send
    <3> QED BY <1>2, <1>3, <2>1, <3>1 DEF Send, IInv, TypeOK
  <2>2. CASE d # c
    BY <1>2, <1>3, <2>2 DEF Send, IInv, TypeOK
  <2> QED BY <2>1, <2>2
<1>4. ASSUME NEW d \in Call, Handle(d)
      PROVE  /\ ~failed'[c] /\ attempts'[c] <= 1
             /\ attempts'[c] = 1 /\ stage'[c] = "idle" => c \in acked'
  <2>1. CASE d = c
    <3>1. CASE Answer(c)
      BY <1>1, <1>2, <3>1 DEF Answer, AnyFailed, Respond
    <3>2. CASE Accept(c)
      BY <1>1, <1>2, <3>2 DEF Accept, IInv, TypeOK
    <3> QED BY <1>4, <2>1, <3>1, <3>2 DEF Handle, Refuse, Dismiss, Accepted
  <2>2. CASE d # c
    BY <1>2, <1>4, <2>2
       DEF Handle, Refuse, Dismiss, Accept, Answer, Respond, IInv, TypeOK
  <2> QED BY <2>1, <2>2
<1>5. ASSUME NEW p \in posts, Post(p)
      PROVE  /\ ~failed'[c] /\ attempts'[c] <= 1
             /\ attempts'[c] = 1 /\ stage'[c] = "idle" => c \in acked'
  <2>1. stage' = stage /\ attempts' = attempts /\ acked' = acked
    BY <1>5 DEF Post, Take, Fail
  <2>2. CASE Take(p)
    BY <1>1, <1>2, <2>1, <2>2 DEF Take
  <2>3. CASE Fail(p)
    <3>1. p[1] # c
      BY <1>1, <2>3 DEF Fail, Takeable, IInv, PostsInv
    <3> QED BY <1>2, <2>1, <2>3, <3>1 DEF Fail, IInv, TypeOK
  <2> QED BY <1>5, <2>2, <2>3 DEF Post
<1>6. ASSUME NEW d \in Call, HangUp(d)
      PROVE  FALSE
  BY <1>1, <1>6 DEF HangUp
<1>7. CASE UNCHANGED vars
  BY <1>2, <1>7 DEF vars
<1> QED BY <1>3, <1>4, <1>5, <1>6, <1>7 DEF Next

\* Without a fault nothing of a call that ntfy takes is shown twice.
THEOREM Once == Spec => []ShownOnce
<1>1. Init => OnceInv
  BY DEF Init, OnceInv
<1>2. IInv /\ OnceInv => ShownOnce
  <2> SUFFICES ASSUME IInv, OnceInv, faults = 0, NEW c \in Call, Takeable(c),
                      NEW p \in shown, NEW q \in shown,
                      p[1] = c, q[1] = c, p[3] = q[3]
               PROVE  p = q
    BY DEF ShownOnce
  <2>1. /\ p = <<p[1], p[2], p[3]>> /\ q = <<q[1], q[2], q[3]>>
        /\ p[2] \in Nat \ {0} /\ q[2] \in Nat \ {0}
    BY DEF IInv, TypeOK
  <2>2. p[2] <= attempts[c] /\ q[2] <= attempts[c] /\ attempts[c] <= 1
    BY DEF IInv, PostsInv, OnceInv
  <2>3. attempts[c] \in Nat
    BY NtfyAssumption DEF IInv, TypeOK
  <2> QED BY <2>1, <2>2, <2>3
<1> QED BY <1>1, <1>2, OnceStep, Invariance, PTL DEF Spec
=============================================================================
