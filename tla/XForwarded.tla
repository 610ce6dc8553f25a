----------------------------- MODULE XForwarded -----------------------------
(***************************************************************************)
(* What the trusted-IPs plugin does to a request: the headers that name the *)
(* client are deleted unless the peer is trusted, and then completed from   *)
(* the connection.  The trusted IPs change under the requests: a goroutine  *)
(* stores a new list whenever a watch publishes a set (updateTrustedIPs).   *)
(*                                                                          *)
(* Requests share nothing but that list, which they only read, so that one  *)
(* request in flight among changing lists stands for all of them.  A field  *)
(* value is the sequence of its comma-separated members, a header maps each *)
(* key to its field lines in order (none: the key is not there).            *)
(***************************************************************************)
EXTENDS Naturals, Sequences, SequencesExt

CONSTANTS
  Key,       \* header keys as Go's server keeps them
  Dashed,    \* Dashed[k]: canonical form of k with each "_" read as "-"
  Member,    \* members of a field value, "" for an empty one
  Addr,      \* IP addresses
  Request,   \* the requests Traefik passes on
  Hostname,  \* os.Hostname(), or "localhost"
  StaticIPs, \* addresses in the configured staticTrustedCIDRs
  Source,    \* keys of the published sets: the watched paths
  Dynamic    \* addresses a watch may publish

XRealIP          == "X-Real-Ip"
XForwardedProto  == "X-Forwarded-Proto"
XForwardedPort   == "X-Forwarded-Port"
XForwardedHost   == "X-Forwarded-Host"
XForwardedFor    == "X-Forwarded-For"
XForwardedServer == "X-Forwarded-Server"

XHeadersSet ==
  {XRealIP, XForwardedProto, XForwardedPort, XForwardedHost, XForwardedFor,
   XForwardedServer, "X-Forwarded-Scheme", "X-Forwarded-Uri", "X-Forwarded-Method",
   "X-Forwarded-Prefix", "X-Forwarded-Tls-Client-Cert",
   "X-Forwarded-Tls-Client-Cert-Info", "X-Scheme"}

Rewritten == {XRealIP, XForwardedProto, XForwardedPort, XForwardedHost, XForwardedFor, XForwardedServer}

Value == Seq(Member) \ {<<>>}
Header == [Key -> Seq(Value)]
Peer == [addr : Addr, zone : BOOLEAN, port : BOOLEAN]

ASSUME KeyAssumption ==
  /\ Rewritten \cup {"Connection", "Upgrade"} \subseteq Key
  /\ DOMAIN Dashed = Key
  /\ \A k \in Key \cap (XHeadersSet \cup {"Connection", "Upgrade"}) : Dashed[k] = k

\* host.port is what SplitHostPort finds in host.text, "" when there is none.
ASSUME RequestAssumption ==
  \A r \in Request :
    /\ DOMAIN r = {"remote", "host", "tls", "header"}
    /\ r.remote \in Peer
    /\ DOMAIN r.host = {"text", "port"} /\ r.host.text \in Member /\ r.host.port \in Member
    /\ r.tls \in BOOLEAN
    /\ r.header \in Header

ASSUME MemberAssumption ==
  /\ {"", "http", "https", "ws", "wss", "80", "443", "upgrade", "websocket"} \subseteq Member
  /\ Addr \subseteq Member \ {""}
  /\ Hostname \in Member
  /\ StaticIPs \subseteq Addr
  /\ Dynamic \subseteq Addr

VARIABLES
  sets,        \* what each watch published last, in updateTrustedIPs
  trustedIPs,  \* the stored list
  stage,       \* where ServeHTTP is
  req,         \* the request as it arrived
  trusted,     \* isTrustedIP, as ServeHTTP saw it
  out,         \* r.Header as it is now
  ever,        \* addresses trusted at some moment since the request arrived
  always       \* addresses trusted at every moment since then

vars == <<sets, trustedIPs, stage, req, trusted, out, ever, always>>

Init ==
  /\ sets = [s \in Source |-> {}]
  /\ trustedIPs = StaticIPs
  /\ stage = "idle"
  /\ req \in Request
  /\ trusted = FALSE
  /\ out = req.header
  /\ ever = StaticIPs
  /\ always = StaticIPs

-----------------------------------------------------------------------------
(* updateTrustedIPs: one published set replaces the last one of its watch;  *)
(* the list is put together anew and stored.                                *)

\* Mutated: the list starts empty.
WithoutStaticIPs(all) == UNION all
AllIps(all) == StaticIPs \cup UNION all

Store(ips) ==
  /\ trustedIPs' = ips
  /\ ever' = ever \cup ips
  /\ always' = always \cap ips

UpdateTrustedIPs(s) ==
  /\ \E ips \in SUBSET Dynamic : sets' = [sets EXCEPT ![s] = ips]
  /\ Store(AllIps({sets'[t] : t \in Source}))
  /\ UNCHANGED <<stage, req, trusted, out>>

-----------------------------------------------------------------------------
(* Headers.                                                                 *)

Empty == <<"">>
Get(h, k) == IF h[k] = <<>> THEN Empty ELSE h[k][1]
Assign(h, k, v) == [h EXCEPT ![k] = <<v>>]
\* Mutated: a default is added (Header.Add) where the first line is empty.
DefaultAdded(h, k, v) == IF Get(h, k) = Empty THEN [h EXCEPT ![k] = Append(@, v)] ELSE h
Default(h, k, v) == IF Get(h, k) = Empty THEN Assign(h, k, v) ELSE h

\* Mutated: the underscore variants are forgotten.
IsCanonicalXHeader(k) == k \in XHeadersSet
IsManagedXHeader(k) == Dashed[k] \in XHeadersSet

DeleteXForwardedHeaders(h) ==
  [k \in Key |-> IF IsManagedXHeader(k) THEN <<>> ELSE h[k]]

\* Mutated: the list is the one New stored first.
IsStaticIP(p) == ~p.zone /\ p.addr \in StaticIPs
\* net.ParseIP parses no address with a zone.
IsTrustedIP(p) == ~p.zone /\ p.addr \in trustedIPs

HasMember(h, k, m) == \E n \in 1..Len(Get(h, k)) : Get(h, k)[n] = m
IsWebsocketRequest(h) == HasMember(h, "Connection", "upgrade") /\ HasMember(h, "Upgrade", "websocket")

Scheme(r, h) ==
  IF IsWebsocketRequest(h) THEN IF r.tls THEN "wss" ELSE "ws"
                           ELSE IF r.tls THEN "https" ELSE "http"

Secure(h) == Get(h, XForwardedProto) \in {<<"https">>, <<"wss">>}
ForwardedPort(r, h) ==
  IF r.host.port # "" THEN r.host.port
  ELSE IF Secure(h) \/ r.tls THEN "443" ELSE "80"

\* Mutated: only the first field line is kept, as Get would return it.
JoinFirst(h) == IF h[XForwardedFor] = <<>> THEN h ELSE Assign(h, XForwardedFor, h[XForwardedFor][1])
\* strings.Join(xffs, ", ") makes one field line of all of them.
JoinFor(h) == IF h[XForwardedFor] = <<>> THEN h ELSE Assign(h, XForwardedFor, FlattenSeq(h[XForwardedFor]))

Rewrite(r, h) ==
  LET h1 == IF r.remote.port THEN Default(h, XRealIP, <<r.remote.addr>>) ELSE h
      h2 == Default(h1, XForwardedProto, <<Scheme(r, h1)>>)
      h3 == Default(h2, XForwardedPort, <<ForwardedPort(r, h2)>>)
      h4 == IF r.host.text # "" THEN Default(h3, XForwardedHost, <<r.host.text>>) ELSE h3
      h5 == JoinFor(h4)
  IN  IF Hostname # "" THEN Assign(h5, XForwardedServer, <<Hostname>>) ELSE h5

-----------------------------------------------------------------------------
(* ServeHTTP, up to the call of the next handler.                           *)

\* The request arrives, at any time in the life of the list.
Arrive ==
  /\ stage = "idle"
  /\ stage' = "arrived"
  /\ ever' = trustedIPs
  /\ always' = trustedIPs
  /\ UNCHANGED <<sets, trustedIPs, req, trusted, out>>

\* isTrustedIP loads the list once; the headers are deleted by what it says.
CheckPeer ==
  /\ stage = "arrived"
  /\ stage' = "checked"
  /\ trusted' = IsTrustedIP(req.remote)
  /\ out' = IF trusted' THEN out ELSE DeleteXForwardedHeaders(out)
  /\ UNCHANGED <<sets, trustedIPs, req, ever, always>>

Forward ==
  /\ stage = "checked"
  /\ stage' = "forwarded"
  /\ out' = Rewrite(req, out)
  /\ UNCHANGED <<sets, trustedIPs, req, trusted, ever, always>>

Next ==
  \/ \E s \in Source : UpdateTrustedIPs(s)
  \/ Arrive
  \/ CheckPeer
  \/ Forward

Spec == Init /\ [][Next]_vars

-----------------------------------------------------------------------------
(* Properties.                                                              *)

Forwarded == stage = "forwarded"

\* The managed headers of a request that says nothing of its client itself:
\* what the connection, the Host header and the upgrade tell.
FromConnection(r) ==
  LET scheme == Scheme(r, r.header)
      one(v) == << <<v>> >>
  IN  [k \in Key |->
         CASE k = XRealIP /\ r.remote.port -> one(r.remote.addr)
           [] k = XForwardedProto -> one(scheme)
           [] k = XForwardedPort ->
                one(IF r.host.port # "" THEN r.host.port
                    ELSE IF r.tls THEN "443" ELSE "80")
           [] k = XForwardedHost /\ r.host.text # "" -> one(r.host.text)
           [] k = XForwardedServer /\ Hostname # "" -> one(Hostname)
           [] OTHER -> <<>>]

\* Whatever an untrusted peer writes into a managed header, in either
\* spelling, makes no difference to what the next handler sees, and no other
\* header of it is touched.
UntrustedSaysNothing ==
  Forwarded /\ ~trusted =>
    \A k \in Key : out[k] = IF Dashed[k] \in XHeadersSet THEN FromConnection(req)[k] ELSE req.header[k]

\* What a trusted peer says of the client is passed on: its field lines stay,
\* and X-Forwarded-For names the same addresses in the same order.
TrustedIsPassedOn ==
  Forwarded /\ trusted =>
    \A k \in Key \ {XForwardedServer} : Get(req.header, k) # Empty =>
      IF k = XForwardedFor THEN FlattenSeq(out[k]) = FlattenSeq(req.header[k])
                           ELSE out[k] = req.header[k]

\* The decision is one that was right at some moment while the request was
\* served, whatever sets were published meanwhile.
DecisionInWindow ==
  Forwarded =>
    /\ trusted => ~req.remote.zone /\ req.remote.addr \in ever
    /\ ~trusted => req.remote.zone \/ req.remote.addr \notin always

\* No published set takes the trust of a static address away.
StaticPeerIsTrusted ==
  Forwarded /\ ~req.remote.zone /\ req.remote.addr \in StaticIPs => trusted

\* Two routers' middlewares in a row do what one does: a second instance that
\* trusts the peer finds nothing to change.
SecondInstanceAgrees == Forwarded => Rewrite(req, out) = out

\* The inductive invariant: what r.Header is at each stage, and how the
\* decision and the list it was taken from lie in the request's window.
HeaderInv ==
  LET checked == IF trusted THEN req.header ELSE DeleteXForwardedHeaders(req.header)
  IN  /\ stage \in {"idle", "arrived"} => out = req.header
      /\ stage = "checked" => out = checked
      /\ stage = "forwarded" => out = Rewrite(req, checked)

ListInv ==
  /\ StaticIPs \subseteq always
  /\ always \subseteq trustedIPs
  /\ trustedIPs \subseteq ever

DecisionInv ==
  stage \in {"checked", "forwarded"} =>
    /\ trusted => ~req.remote.zone /\ req.remote.addr \in ever
    /\ ~trusted => req.remote.zone \/ req.remote.addr \notin always

IInv ==
  /\ req \in Request
  /\ stage \in {"idle", "arrived", "checked", "forwarded"}
  /\ trusted \in BOOLEAN
  /\ HeaderInv
  /\ ListInv
  /\ DecisionInv
=============================================================================
