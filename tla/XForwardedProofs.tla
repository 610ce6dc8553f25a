-------------------------- MODULE XForwardedProofs --------------------------
(* Proofs about XForwarded, for every set of headers, requests and lists.   *)
EXTENDS XForwarded, TLAPS

-----------------------------------------------------------------------------
(* The inductive invariant.                                                 *)

\* Before the request arrives its header is untouched and only the static
\* addresses are trusted.
LEMMA Initial == Init => IInv
  BY DEF Init, IInv, HeaderInv, ListInv, DecisionInv

\* A published set keeps the static addresses, and can only widen what was
\* trusted at some moment and narrow what was trusted throughout.
LEMMA UpdateKeeps ==
  ASSUME IInv, NEW s \in Source, UpdateTrustedIPs(s)
  PROVE  IInv'
<1> DEFINE new == AllIps({sets'[t] : t \in Source})
<1>1. StaticIPs \subseteq new
  BY DEF AllIps
<1>2. trustedIPs' = new /\ ever' = ever \cup new /\ always' = always \cap new
  BY DEF UpdateTrustedIPs, Store
<1>3. UNCHANGED <<stage, req, trusted, out>>
  BY DEF UpdateTrustedIPs
<1> HIDE DEF new
<1>4. ListInv'
  BY <1>1, <1>2 DEF IInv, ListInv
<1>5. HeaderInv'
  BY <1>3 DEF IInv, HeaderInv
<1>6. DecisionInv'
  BY <1>2, <1>3 DEF IInv, DecisionInv
<1> QED
  BY <1>3, <1>4, <1>5, <1>6 DEF IInv

\* The window of a request opens with the list in force.
LEMMA ArriveKeeps ==
  ASSUME IInv, Arrive
  PROVE  IInv'
<1>1. stage = "idle" /\ stage' = "arrived" /\ UNCHANGED <<req, trusted, out, trustedIPs>>
  BY DEF Arrive
<1>2. HeaderInv'
  BY <1>1 DEF IInv, HeaderInv
<1>3. ListInv'
  BY DEF IInv, ListInv, Arrive
<1> QED
  BY <1>1, <1>2, <1>3 DEF IInv, DecisionInv

\* isTrustedIP reads a list between always and ever.
LEMMA CheckKeeps ==
  ASSUME IInv, CheckPeer
  PROVE  IInv'
<1>1. trusted' = IsTrustedIP(req.remote) /\ trusted' \in BOOLEAN
  <2>1. req.remote.zone \in BOOLEAN
    BY RequestAssumption DEF IInv, Peer
  <2> QED
    BY <2>1 DEF CheckPeer, IsTrustedIP
<1>2. stage = "arrived" /\ stage' = "checked" /\ UNCHANGED <<req, trustedIPs, ever, always>>
  BY DEF CheckPeer
<1>3. HeaderInv'
  <2>1. out = req.header
    BY <1>2 DEF IInv, HeaderInv
  <2>2. out' = IF trusted' THEN req.header ELSE DeleteXForwardedHeaders(req.header)
    BY <2>1 DEF CheckPeer
  <2> QED
    BY <1>2, <2>2 DEF HeaderInv
<1>4. ListInv'
  BY <1>2 DEF IInv, ListInv
<1>5. DecisionInv'
  BY <1>1, <1>2 DEF IInv, ListInv, DecisionInv, IsTrustedIP
<1> QED
  BY <1>1, <1>2, <1>3, <1>4, <1>5 DEF IInv

\* rewrite works on what CheckPeer has left of the header.
LEMMA ForwardKeeps ==
  ASSUME IInv, Forward
  PROVE  IInv'
<1>1. stage = "checked" /\ stage' = "forwarded" /\ UNCHANGED <<req, trusted, trustedIPs, ever, always>>
  BY DEF Forward
<1>2. HeaderInv'
  <2>1. out = IF trusted THEN req.header ELSE DeleteXForwardedHeaders(req.header)
    BY <1>1 DEF IInv, HeaderInv
  <2>2. out' = Rewrite(req, out)
    BY DEF Forward
  <2> QED
    BY <1>1, <2>1, <2>2 DEF HeaderInv
<1> QED
  BY <1>1, <1>2 DEF IInv, ListInv, DecisionInv

\* Every step of ServeHTTP and of updateTrustedIPs keeps the invariant.
THEOREM Invariance == Spec => []IInv
<1>1. IInv /\ [Next]_vars => IInv'
  <2> SUFFICES ASSUME IInv, [Next]_vars PROVE IInv'
    OBVIOUS
  <2>1. CASE \E s \in Source : UpdateTrustedIPs(s)
    BY <2>1, UpdateKeeps
  <2>2. CASE Arrive
    BY <2>2, ArriveKeeps
  <2>3. CASE CheckPeer
    BY <2>3, CheckKeeps
  <2>4. CASE Forward
    BY <2>4, ForwardKeeps
  <2>5. CASE UNCHANGED vars
    BY <2>5 DEF vars, IInv, HeaderInv, ListInv, DecisionInv
  <2> QED
    BY <2>1, <2>2, <2>3, <2>4, <2>5 DEF Next
<1> QED
  BY Initial, <1>1, PTL DEF Spec

\* The trust decision is right at some moment of the request.
THEOREM Decision == Spec => []DecisionInWindow
<1>1. IInv => DecisionInWindow
  BY DEF IInv, DecisionInv, DecisionInWindow, Forwarded
<1> QED
  BY Invariance, <1>1, PTL

\* A static proxy is trusted whatever the watches publish.
THEOREM StaticPeer == Spec => []StaticPeerIsTrusted
<1>1. IInv => StaticPeerIsTrusted
  BY DEF IInv, DecisionInv, ListInv, StaticPeerIsTrusted, Forwarded
<1> QED
  BY Invariance, <1>1, PTL

-----------------------------------------------------------------------------
(* What is left of a request that was not trusted.                          *)

\* Assign changes the lines of one key.
LEMMA AssignAt ==
  ASSUME NEW h \in Header, NEW k \in Key, NEW v
  PROVE  \A j \in Key : Assign(h, k, v)[j] = IF j = k THEN <<v>> ELSE h[j]
  BY DEF Assign, Header

\* Assigning a field value leaves a header.
LEMMA AssignType ==
  ASSUME NEW h \in Header, NEW k \in Key, NEW v \in Value
  PROVE  Assign(h, k, v) \in Header
  BY DEF Assign, Header

\* A header that is not there gets the default.
LEMMA DefaultAt ==
  ASSUME NEW h \in Header, NEW k \in Key, NEW v \in Value, h[k] = <<>>
  PROVE  /\ Default(h, k, v) \in Header
         /\ \A j \in Key : Default(h, k, v)[j] = IF j = k THEN <<v>> ELSE h[j]
<1>1. Default(h, k, v) = Assign(h, k, v)
  BY DEF Default, Get
<1> QED
  BY <1>1, AssignAt, AssignType

\* One member makes a field value.
LEMMA OneMember ==
  ASSUME NEW m \in Member
  PROVE  <<m>> \in Value
<1>1. <<m>> \in Seq(Member) /\ Len(<<m>>) = 1
  OBVIOUS
<1>2. <<m>> # <<>>
  BY <1>1
<1> QED
  BY <1>1, <1>2 DEF Value

\* The scheme depends on the handshake's headers and on the connection only.
LEMMA SchemeOf ==
  ASSUME NEW r, NEW g, NEW h, g["Connection"] = h["Connection"], g["Upgrade"] = h["Upgrade"]
  PROVE  Scheme(r, g) = Scheme(r, h)
<1>1. Get(g, "Connection") = Get(h, "Connection") /\ Get(g, "Upgrade") = Get(h, "Upgrade")
  BY DEF Get
<1>2. IsWebsocketRequest(g) = IsWebsocketRequest(h)
  BY <1>1 DEF IsWebsocketRequest, HasMember
<1> QED
  BY <1>2 DEF Scheme

\* A stripped request is completed from its connection alone.
LEMMA StrippedRewrite ==
  ASSUME NEW r \in Request, NEW k \in Key
  PROVE  Rewrite(r, DeleteXForwardedHeaders(r.header))[k] =
           IF Dashed[k] \in XHeadersSet THEN FromConnection(r)[k] ELSE r.header[k]
<1> DEFINE h0 == DeleteXForwardedHeaders(r.header)
           h1 == IF r.remote.port THEN Default(h0, XRealIP, <<r.remote.addr>>) ELSE h0
           h2 == Default(h1, XForwardedProto, <<Scheme(r, h1)>>)
           h3 == Default(h2, XForwardedPort, <<ForwardedPort(r, h2)>>)
           h4 == IF r.host.text # "" THEN Default(h3, XForwardedHost, <<r.host.text>>) ELSE h3
           h5 == JoinFor(h4)
           h6 == IF Hostname # "" THEN Assign(h5, XForwardedServer, <<Hostname>>) ELSE h5
           scheme == Scheme(r, r.header)
           port == IF r.host.port # "" THEN r.host.port ELSE IF r.tls THEN "443" ELSE "80"
<1> USE DEF XRealIP, XForwardedProto, XForwardedPort, XForwardedHost, XForwardedFor, XForwardedServer
<1>r. /\ r.header \in Header
      /\ r.remote.addr \in Member /\ r.remote.port \in BOOLEAN
      /\ r.host.text \in Member /\ r.host.port \in Member /\ r.tls \in BOOLEAN
  BY RequestAssumption, MemberAssumption DEF Peer
<1>k. /\ Rewritten \subseteq Key /\ {"Connection", "Upgrade"} \subseteq Key
      /\ \A j \in Rewritten : Dashed[j] \in XHeadersSet
      /\ Dashed["Connection"] \notin XHeadersSet /\ Dashed["Upgrade"] \notin XHeadersSet
  BY KeyAssumption DEF Rewritten, XHeadersSet
<1>0. /\ h0 \in Header
      /\ \A j \in Key : h0[j] = IF Dashed[j] \in XHeadersSet THEN <<>> ELSE r.header[j]
  BY <1>r DEF DeleteXForwardedHeaders, IsManagedXHeader, Header
<1> HIDE DEF h0
<1>1. /\ h1 \in Header
      /\ \A j \in Key : h1[j] = IF j = XRealIP /\ r.remote.port THEN << <<r.remote.addr>> >> ELSE h0[j]
  <2>1. h0[XRealIP] = <<>> /\ XRealIP \in Key
    BY <1>0, <1>k DEF Rewritten
  <2>2. <<r.remote.addr>> \in Value
    BY <1>r, OneMember
  <2>3. /\ Default(h0, XRealIP, <<r.remote.addr>>) \in Header
        /\ \A j \in Key : Default(h0, XRealIP, <<r.remote.addr>>)[j] =
                           IF j = XRealIP THEN << <<r.remote.addr>> >> ELSE h0[j]
    BY <2>1, <2>2, <1>0, DefaultAt
  <2> QED
    BY <2>3, <1>0, <1>r
<1> HIDE DEF h1
<1>s. Scheme(r, h1) = scheme /\ scheme \in {"http", "https", "ws", "wss"}
      /\ (scheme \in {"https", "wss"} <=> r.tls)
  <2>1. h1["Connection"] = r.header["Connection"] /\ h1["Upgrade"] = r.header["Upgrade"]
    BY <1>0, <1>1, <1>k
  <2>2. Scheme(r, h1) = scheme
    BY <2>1, SchemeOf
  <2> QED
    BY <2>2, <1>r DEF Scheme
<1> HIDE DEF scheme
<1>2. /\ h2 \in Header
      /\ \A j \in Key : h2[j] = IF j = XForwardedProto THEN << <<scheme>> >> ELSE h1[j]
  <2>1. h1[XForwardedProto] = <<>> /\ XForwardedProto \in Key
    BY <1>0, <1>1, <1>k DEF Rewritten
  <2>2. <<scheme>> \in Value
    BY <1>s, MemberAssumption, OneMember
  <2>3. h2 = Default(h1, XForwardedProto, <<scheme>>)
    BY <1>s
  <2> HIDE DEF h2
  <2> QED
    BY <2>1, <2>2, <2>3, <1>1, DefaultAt
<1> HIDE DEF h2
<1>p. ForwardedPort(r, h2) = port /\ port \in Member
  <2>1. h2[XForwardedProto] = << <<scheme>> >>
    BY <1>2, <1>k DEF Rewritten
  <2>2. Get(h2, XForwardedProto) = <<scheme>>
    BY <2>1 DEF Get
  <2>3. Secure(h2) <=> r.tls
    BY <2>2, <1>s DEF Secure
  <2>4. ForwardedPort(r, h2) = port
    BY <2>3, <1>r DEF ForwardedPort
  <2> QED
    BY <2>4, <1>r, MemberAssumption
<1> HIDE DEF port
<1>3. /\ h3 \in Header
      /\ \A j \in Key : h3[j] = IF j = XForwardedPort THEN << <<port>> >> ELSE h2[j]
  <2>1. h2[XForwardedPort] = <<>> /\ XForwardedPort \in Key
    BY <1>0, <1>1, <1>2, <1>k DEF Rewritten
  <2>2. <<port>> \in Value
    BY <1>p, OneMember
  <2>3. h3 = Default(h2, XForwardedPort, <<port>>)
    BY <1>p
  <2> HIDE DEF h3
  <2> QED
    BY <2>1, <2>2, <2>3, <1>2, DefaultAt
<1> HIDE DEF h3
<1>4. /\ h4 \in Header
      /\ \A j \in Key : h4[j] =
           IF j = XForwardedHost /\ r.host.text # "" THEN << <<r.host.text>> >> ELSE h3[j]
  <2>1. h3[XForwardedHost] = <<>> /\ XForwardedHost \in Key
    BY <1>0, <1>1, <1>2, <1>3, <1>k DEF Rewritten
  <2>2. <<r.host.text>> \in Value
    BY <1>r, OneMember
  <2>3. /\ Default(h3, XForwardedHost, <<r.host.text>>) \in Header
        /\ \A j \in Key : Default(h3, XForwardedHost, <<r.host.text>>)[j] =
                           IF j = XForwardedHost THEN << <<r.host.text>> >> ELSE h3[j]
    BY <2>1, <2>2, <1>3, DefaultAt
  <2> QED
    BY <2>3, <1>3
<1> HIDE DEF h4
<1>5. h5 = h4
  <2>1. h4[XForwardedFor] = <<>>
    BY <1>0, <1>1, <1>2, <1>3, <1>4, <1>k DEF Rewritten
  <2> QED
    BY <2>1 DEF JoinFor
<1> HIDE DEF h5
<1>6. \A j \in Key : h6[j] =
        IF j = XForwardedServer /\ Hostname # "" THEN << <<Hostname>> >> ELSE h4[j]
  <2>1. XForwardedServer \in Key
    BY <1>k DEF Rewritten
  <2>2. \A j \in Key : Assign(h4, XForwardedServer, <<Hostname>>)[j] =
                       IF j = XForwardedServer THEN << <<Hostname>> >> ELSE h4[j]
    BY <2>1, <1>4 DEF Assign, Header
  <2> QED
    BY <2>2, <1>5
<1>7. Rewrite(r, h0) = h6
  BY DEF Rewrite, h5, h4, h3, h2, h1
<1> HIDE DEF h6
<1>8. CASE k \in Rewritten
  <2>1. Dashed[k] \in XHeadersSet /\ h0[k] = <<>>
    BY <1>8, <1>0, <1>k
  <2>2. ASSUME k = XRealIP PROVE h6[k] = FromConnection(r)[k]
    <3>1. h6[k] = IF r.remote.port THEN << <<r.remote.addr>> >> ELSE <<>>
      BY <2>1, <2>2, <1>1, <1>2, <1>3, <1>4, <1>6
    <3>2. FromConnection(r)[k] = IF r.remote.port THEN << <<r.remote.addr>> >> ELSE <<>>
      BY <2>2 DEF FromConnection
    <3> QED
      BY <3>1, <3>2
  <2>3. ASSUME k = XForwardedProto PROVE h6[k] = FromConnection(r)[k]
    BY <2>1, <2>3, <1>2, <1>3, <1>4, <1>6 DEF FromConnection, scheme
  <2>4. ASSUME k = XForwardedPort PROVE h6[k] = FromConnection(r)[k]
    BY <2>1, <2>4, <1>3, <1>4, <1>6 DEF FromConnection, port
  <2>5. ASSUME k = XForwardedHost PROVE h6[k] = FromConnection(r)[k]
    BY <2>1, <2>5, <1>1, <1>2, <1>3, <1>4, <1>6 DEF FromConnection
  <2>6. ASSUME k = XForwardedFor PROVE h6[k] = FromConnection(r)[k]
    BY <2>1, <2>6, <1>1, <1>2, <1>3, <1>4, <1>6 DEF FromConnection
  <2>7. ASSUME k = XForwardedServer PROVE h6[k] = FromConnection(r)[k]
    BY <2>1, <2>7, <1>1, <1>2, <1>3, <1>4, <1>6 DEF FromConnection
  <2>8. h6[k] = FromConnection(r)[k]
    BY <1>8, <2>2, <2>3, <2>4, <2>5, <2>6, <2>7 DEF Rewritten
  <2> QED
    BY <2>1, <2>8, <1>7 DEF h0
<1>9. CASE k \notin Rewritten
  <2>1. h6[k] = h0[k]
    BY <1>9, <1>1, <1>2, <1>3, <1>4, <1>6 DEF Rewritten
  <2>2. FromConnection(r)[k] = <<>>
    BY <1>9 DEF FromConnection, Rewritten
  <2> QED
    BY <2>1, <2>2, <1>0, <1>7 DEF h0
<1> QED
  BY <1>8, <1>9

\* Nothing an untrusted peer writes into a managed header, in either spelling,
\* reaches the next handler, and nothing else it writes is lost.
THEOREM UntrustedIgnored == Spec => []UntrustedSaysNothing
<1>1. IInv => UntrustedSaysNothing
  <2> SUFFICES ASSUME IInv, Forwarded, ~trusted, NEW k \in Key
               PROVE  out[k] = IF Dashed[k] \in XHeadersSet THEN FromConnection(req)[k] ELSE req.header[k]
    BY DEF UntrustedSaysNothing
  <2>1. out = Rewrite(req, DeleteXForwardedHeaders(req.header))
    BY DEF IInv, HeaderInv, Forwarded
  <2> QED
    BY <2>1, StrippedRewrite DEF IInv
<1> QED
  BY Invariance, <1>1, PTL
-----------------------------------------------------------------------------
(* What is kept of a request, and of one that has been rewritten before.    *)

\* A header, whatever its field lines are.
Lines(h) == h = [k \in Key |-> h[k]]

\* One field line stays as it is when it is joined.
LEMMA FlattenOne ==
  ASSUME NEW v
  PROVE  FlattenSeq(<<v>>) = v
<1> DEFINE Body(f) == [i \in 1..1 |-> IF i = 1 THEN v ELSE f[i - 1] \o v]
           flatten == CHOOSE f : f = Body(f)
<1>1. \E f : f = Body(f)
  <2>1. [i \in 1..1 |-> v] = Body([i \in 1..1 |-> v])
    OBVIOUS
  <2> QED
    BY <2>1
<1>2. flatten = Body(flatten)
  BY <1>1
<1>3. flatten[1] = v
  BY <1>2
<1> QED
  BY <1>3 DEF FlattenSeq

\* Assign changes the lines of one key, and none if they are those already.
LEMMA AssignLines ==
  ASSUME NEW h, Lines(h), NEW k \in Key, NEW v
  PROVE  /\ Lines(Assign(h, k, v))
         /\ \A j \in Key : Assign(h, k, v)[j] = IF j = k THEN <<v>> ELSE h[j]
         /\ h[k] = <<v>> => Assign(h, k, v) = h
  BY DEF Lines, Assign

\* g is h after a default for k: the header is not empty, and if it was not it
\* is the same.
Filled(g, h, k) ==
  /\ Lines(g)
  /\ \A j \in Key \ {k} : g[j] = h[j]
  /\ Get(h, k) # Empty => g = h
  /\ Get(g, k) # Empty

\* A default fills a header that is absent or empty and leaves any other; after
\* it the header is not empty.
LEMMA DefaultLines ==
  ASSUME NEW h, Lines(h), NEW k \in Key, NEW v, v # Empty
  PROVE  Filled(Default(h, k, v), h, k)
<1>1. CASE Get(h, k) = Empty
  <2>1. Default(h, k, v) = Assign(h, k, v)
    BY <1>1 DEF Default
  <2>2. \A j \in Key : Assign(h, k, v)[j] = IF j = k THEN <<v>> ELSE h[j]
    BY AssignLines
  <2>3. Lines(Assign(h, k, v))
    BY AssignLines
  <2>4. Get(Assign(h, k, v), k) = v
    BY <2>2 DEF Get
  <2> QED
    BY <1>1, <2>1, <2>2, <2>3, <2>4 DEF Filled
<1>2. CASE Get(h, k) # Empty
  BY <1>2 DEF Default, Filled
<1> QED
  BY <1>1, <1>2

\* Joining makes one field line of X-Forwarded-For, and changes none if there
\* is one.
LEMMA JoinLines ==
  ASSUME NEW h, Lines(h), XForwardedFor \in Key
  PROVE  /\ Lines(JoinFor(h))
         /\ \A j \in Key \ {XForwardedFor} : JoinFor(h)[j] = h[j]
         /\ JoinFor(h)[XForwardedFor] =
              IF h[XForwardedFor] = <<>> THEN <<>> ELSE <<FlattenSeq(h[XForwardedFor])>>
         /\ \A v : h[XForwardedFor] = <<v>> => JoinFor(h) = h
<1>1. CASE h[XForwardedFor] = <<>>
  BY <1>1 DEF JoinFor
<1>2. CASE h[XForwardedFor] # <<>>
  <2>1. JoinFor(h) = Assign(h, XForwardedFor, FlattenSeq(h[XForwardedFor]))
    BY <1>2 DEF JoinFor
  <2>2. ASSUME NEW v, h[XForwardedFor] = <<v>> PROVE FlattenSeq(h[XForwardedFor]) = v
    BY <2>2, FlattenOne
  <2>3. \A j \in Key : JoinFor(h)[j] = IF j = XForwardedFor THEN <<FlattenSeq(h[XForwardedFor])>> ELSE h[j]
    BY <2>1, AssignLines
  <2>4. Lines(JoinFor(h))
    <3>1. Lines(Assign(h, XForwardedFor, FlattenSeq(h[XForwardedFor])))
      BY AssignLines
    <3> QED
      BY <2>1, <3>1
  <2>5. ASSUME NEW v, h[XForwardedFor] = <<v>> PROVE JoinFor(h) = h
    BY <2>1, <2>2, <2>5, AssignLines
  <2> QED
    BY <1>2, <2>3, <2>4, <2>5
<1> QED
  BY <1>1, <1>2

\* What a header says after a rewrite.
Complete(r, h) ==
  /\ r.remote.port => Get(h, XRealIP) # Empty
  /\ Get(h, XForwardedProto) # Empty
  /\ Get(h, XForwardedPort) # Empty
  /\ r.host.text # "" => Get(h, XForwardedHost) # Empty
  /\ h[XForwardedFor] = <<>> \/ \E v : h[XForwardedFor] = <<v>>
  /\ Hostname # "" => h[XForwardedServer] = << <<Hostname>> >>

\* A rewrite completes a header, keeps what it says already, and finds nothing
\* to do in one that is complete.
LEMMA RewriteLines ==
  ASSUME NEW r \in Request, NEW h, Lines(h)
  PROVE  /\ Lines(Rewrite(r, h))
         /\ Complete(r, Rewrite(r, h))
         /\ \A k \in Key \ {XForwardedFor, XForwardedServer} :
              Get(h, k) # Empty => Rewrite(r, h)[k] = h[k]
         /\ Rewrite(r, h)[XForwardedFor] =
              IF h[XForwardedFor] = <<>> THEN <<>> ELSE <<FlattenSeq(h[XForwardedFor])>>
         /\ Complete(r, h) => Rewrite(r, h) = h
<1> DEFINE scheme == <<Scheme(r, h)>>
           h1 == IF r.remote.port THEN Default(h, XRealIP, <<r.remote.addr>>) ELSE h
           h2 == Default(h1, XForwardedProto, <<Scheme(r, h1)>>)
           h3 == Default(h2, XForwardedPort, <<ForwardedPort(r, h2)>>)
           h4 == IF r.host.text # "" THEN Default(h3, XForwardedHost, <<r.host.text>>) ELSE h3
           h5 == JoinFor(h4)
           h6 == IF Hostname # "" THEN Assign(h5, XForwardedServer, <<Hostname>>) ELSE h5
<1>r. /\ r.remote.addr # "" /\ r.remote.port \in BOOLEAN
      /\ <<r.remote.addr>> # Empty
      /\ r.host.text # "" => <<r.host.text>> # Empty
      /\ \A g : <<Scheme(r, g)>> # Empty /\ <<ForwardedPort(r, g)>> # Empty
  <2>1. r.remote.addr # "" /\ r.remote.port \in BOOLEAN
    BY RequestAssumption, MemberAssumption DEF Peer
  <2>2. \A g : Scheme(r, g) # "" /\ ForwardedPort(r, g) # ""
    BY DEF Scheme, ForwardedPort
  <2>3. \A m : m # "" => <<m>> # Empty
    BY DEF Empty
  <2> QED
    BY <2>1, <2>2, <2>3
<1>k. Rewritten \subseteq Key
  BY KeyAssumption
<1> USE DEF XRealIP, XForwardedProto, XForwardedPort, XForwardedHost, XForwardedFor, XForwardedServer
<1>1. /\ Lines(h1)
      /\ \A j \in Key \ {XRealIP} : h1[j] = h[j]
      /\ Get(h, XRealIP) # Empty => h1 = h
      /\ r.remote.port => Get(h1, XRealIP) # Empty
      /\ ~r.remote.port => h1 = h
  <2>1. CASE r.remote.port
    <3>1. Filled(Default(h, XRealIP, <<r.remote.addr>>), h, XRealIP)
      BY <1>r, <1>k, DefaultLines DEF Rewritten
    <3> QED
      BY <2>1, <3>1 DEF Filled
  <2> QED
    BY <2>1, <1>r
<1> HIDE DEF h1
<1>2. /\ Lines(h2)
      /\ \A j \in Key \ {XForwardedProto} : h2[j] = h1[j]
      /\ Get(h1, XForwardedProto) # Empty => h2 = h1
      /\ Get(h2, XForwardedProto) # Empty
  <2>1. Filled(Default(h1, XForwardedProto, <<Scheme(r, h1)>>), h1, XForwardedProto)
    BY <1>r, <1>k, <1>1, DefaultLines DEF Rewritten
  <2> QED
    BY <2>1 DEF Filled
<1> HIDE DEF h2
<1>3. /\ Lines(h3)
      /\ \A j \in Key \ {XForwardedPort} : h3[j] = h2[j]
      /\ Get(h2, XForwardedPort) # Empty => h3 = h2
      /\ Get(h3, XForwardedPort) # Empty
  <2>1. Filled(Default(h2, XForwardedPort, <<ForwardedPort(r, h2)>>), h2, XForwardedPort)
    BY <1>r, <1>k, <1>2, DefaultLines DEF Rewritten
  <2> QED
    BY <2>1 DEF Filled
<1> HIDE DEF h3
<1>4. /\ Lines(h4)
      /\ \A j \in Key \ {XForwardedHost} : h4[j] = h3[j]
      /\ Get(h3, XForwardedHost) # Empty => h4 = h3
      /\ r.host.text # "" => Get(h4, XForwardedHost) # Empty
      /\ r.host.text = "" => h4 = h3
  <2>1. CASE r.host.text # ""
    <3>1. Filled(Default(h3, XForwardedHost, <<r.host.text>>), h3, XForwardedHost)
      BY <1>r, <1>k, <1>3, <2>1, DefaultLines DEF Rewritten
    <3> QED
      BY <2>1, <3>1 DEF Filled
  <2> QED
    BY <2>1, <1>3
<1> HIDE DEF h4
<1>5. /\ Lines(h5)
      /\ \A j \in Key \ {XForwardedFor} : h5[j] = h4[j]
      /\ h5[XForwardedFor] = IF h4[XForwardedFor] = <<>> THEN <<>> ELSE <<FlattenSeq(h4[XForwardedFor])>>
      /\ h4[XForwardedFor] = <<>> \/ (\E v : h4[XForwardedFor] = <<v>>) => h5 = h4
  <2>1. h4[XForwardedFor] = <<>> => h5 = h4
    BY DEF JoinFor
  <2> QED
    BY <1>k, <1>4, <2>1, JoinLines DEF Rewritten, Lines
<1> HIDE DEF h5
<1>6. /\ Lines(h6)
      /\ \A j \in Key \ {XForwardedServer} : h6[j] = h5[j]
      /\ Hostname # "" => h6[XForwardedServer] = << <<Hostname>> >>
      /\ h5[XForwardedServer] = << <<Hostname>> >> \/ Hostname = "" => h6 = h5
  <2>1. CASE Hostname # ""
    <3> DEFINE g == Assign(h5, XForwardedServer, <<Hostname>>)
    <3>1. XForwardedServer \in Key
      BY <1>k DEF Rewritten
    <3>2. Lines(g)
      BY <1>5, <3>1, AssignLines
    <3>3. \A j \in Key : g[j] = IF j = XForwardedServer THEN << <<Hostname>> >> ELSE h5[j]
      BY <1>5 DEF Assign, Lines
    <3>4. h5[XForwardedServer] = << <<Hostname>> >> => g = h5
      BY <1>5, <3>1, AssignLines
    <3> QED
      BY <2>1, <3>1, <3>2, <3>3, <3>4
  <2> QED
    BY <2>1, <1>5
<1> HIDE DEF h6
<1>7. Rewrite(r, h) = h6
  BY DEF Rewrite, h6, h5, h4, h3, h2, h1
<1>8. \A f, g : \A k : f[k] = g[k] => Get(f, k) = Get(g, k)
  BY DEF Get
<1>9. h6[XForwardedFor] = IF h[XForwardedFor] = <<>> THEN <<>> ELSE <<FlattenSeq(h[XForwardedFor])>>
  BY <1>k, <1>1, <1>2, <1>3, <1>4, <1>5, <1>6 DEF Rewritten
<1>10. Complete(r, h6)
  <2>1. h6[XRealIP] = h1[XRealIP] /\ h6[XForwardedProto] = h2[XForwardedProto]
        /\ h6[XForwardedPort] = h3[XForwardedPort] /\ h6[XForwardedHost] = h4[XForwardedHost]
    BY <1>k, <1>1, <1>2, <1>3, <1>4, <1>5, <1>6 DEF Rewritten
  <2>2. Get(h6, XRealIP) = Get(h1, XRealIP) /\ Get(h6, XForwardedProto) = Get(h2, XForwardedProto)
        /\ Get(h6, XForwardedPort) = Get(h3, XForwardedPort)
        /\ Get(h6, XForwardedHost) = Get(h4, XForwardedHost)
    BY <2>1, <1>8
  <2> QED
    BY <2>2, <1>1, <1>2, <1>3, <1>4, <1>6, <1>9 DEF Complete
<1>11. ASSUME NEW k \in Key \ {XForwardedFor, XForwardedServer}, Get(h, k) # Empty
       PROVE  h6[k] = h[k]
  <2>1. h1[k] = h[k]
    BY <1>11, <1>1
  <2>2. h2[k] = h1[k]
    BY <1>11, <1>2, <2>1, <1>8
  <2>3. h3[k] = h2[k]
    BY <1>11, <1>3, <2>1, <2>2, <1>8
  <2>4. h4[k] = h3[k]
    <3>1. Get(h3, k) # Empty
      BY <1>11, <1>8, <2>1, <2>2, <2>3
    <3> QED
      BY <1>11, <1>4, <3>1
  <2> QED
    BY <1>11, <1>5, <1>6, <2>1, <2>2, <2>3, <2>4
<1>12. ASSUME Complete(r, h) PROVE h6 = h
  <2>1. h1 = h
    BY <1>12, <1>1 DEF Complete
  <2>2. h2 = h
    BY <1>12, <1>2, <2>1 DEF Complete
  <2>3. h3 = h
    BY <1>12, <1>3, <2>2 DEF Complete
  <2>4. h4 = h
    BY <1>12, <1>4, <2>3 DEF Complete
  <2>5. h5 = h
    BY <1>12, <1>5, <2>4 DEF Complete
  <2> QED
    BY <1>12, <1>6, <2>5 DEF Complete
<1> QED
  BY <1>6, <1>7, <1>9, <1>10, <1>11, <1>12

\* The header that rewrite gets is one, trusted or stripped.
LEMMA CheckedLines ==
  ASSUME NEW r \in Request
  PROVE  Lines(r.header) /\ Lines(DeleteXForwardedHeaders(r.header))
<1>1. r.header \in Header
  BY RequestAssumption
<1> QED
  BY <1>1 DEF Lines, Header, DeleteXForwardedHeaders

\* What a trusted peer says of the client reaches the next handler: its lines
\* stay, and X-Forwarded-For names the same addresses in the same order.
THEOREM TrustedKept == Spec => []TrustedIsPassedOn
<1>1. IInv => TrustedIsPassedOn
  <2> SUFFICES ASSUME IInv, Forwarded, trusted, NEW k \in Key \ {XForwardedServer},
                      Get(req.header, k) # Empty
               PROVE  IF k = XForwardedFor THEN FlattenSeq(out[k]) = FlattenSeq(req.header[k])
                                           ELSE out[k] = req.header[k]
    BY DEF TrustedIsPassedOn
  <2>1. req \in Request /\ out = Rewrite(req, req.header)
    BY DEF IInv, HeaderInv, Forwarded
  <2>2. Lines(req.header)
    BY <2>1, CheckedLines
  <2>3. /\ \A j \in Key \ {XForwardedFor, XForwardedServer} :
             Get(req.header, j) # Empty => Rewrite(req, req.header)[j] = req.header[j]
        /\ Rewrite(req, req.header)[XForwardedFor] =
              IF req.header[XForwardedFor] = <<>> THEN <<>> ELSE <<FlattenSeq(req.header[XForwardedFor])>>
    BY <2>1, <2>2, RewriteLines
  <2>4. CASE k = XForwardedFor
    <3>1. CASE req.header[k] = <<>>
      BY <2>1, <2>4, <2>3, <3>1
    <3>2. CASE req.header[k] # <<>>
      <4>1. out[k] = <<FlattenSeq(req.header[k])>>
        BY <2>1, <2>4, <2>3, <3>2
      <4> QED
        BY <2>4, <4>1, FlattenOne
    <3> QED
      BY <3>1, <3>2
  <2>5. CASE k # XForwardedFor
    BY <2>1, <2>5, <2>3
  <2> QED
    BY <2>4, <2>5
<1> QED
  BY Invariance, <1>1, PTL

\* A second instance that trusts the peer finds nothing to change.
THEOREM SecondAgrees == Spec => []SecondInstanceAgrees
<1>1. IInv => SecondInstanceAgrees
  <2> SUFFICES ASSUME IInv, Forwarded PROVE Rewrite(req, out) = out
    BY DEF SecondInstanceAgrees
  <2>1. PICK h : Lines(h) /\ out = Rewrite(req, h) /\ req \in Request
    BY CheckedLines DEF IInv, HeaderInv, Forwarded
  <2>2. Lines(out) /\ Complete(req, out)
    BY <2>1, RewriteLines
  <2> QED
    BY <2>1, <2>2, RewriteLines
<1> QED
  BY Invariance, <1>1, PTL
=============================================================================
