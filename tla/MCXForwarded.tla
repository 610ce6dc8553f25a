---------------------------- MODULE MCXForwarded ----------------------------
(* Headers that may be absent, empty, given once or twice, or written with  *)
(* an underscore; a static proxy, one that a watch publishes, and a peer    *)
(* with an IPv6 zone or without a port.                                     *)
EXTENDS XForwarded

MCMember ==
  {"", "http", "https", "ws", "wss", "80", "443", "upgrade", "websocket",
   "keep-alive", "static", "node", "client", "a", "b", "c", "x", "y", "h", "h:8443",
   "8080", "8443", "traefik"}
MCAddr == {"static", "node", "client"}
MCStaticIPs == {"static"}
MCDynamic == {"node"}
MCSource == {"nodes", "groups"}

Underscored == "X_Forwarded_Proto"
MCKey == Rewritten \cup {"X-Forwarded-Uri", Underscored, "Connection", "Upgrade"}
MCDashed == [k \in MCKey |-> IF k = Underscored THEN XForwardedProto ELSE k]

Line(m) == << <<m>> >>
MaybeLine(m) == {<<>>, Line(m)}

\* The lines of each header vary on their own, but for a handshake, which is
\* complete, has only one of its two headers, or is absent.
Headers ==
  {[k \in MCKey |->
      CASE k = XForwardedProto -> proto
        [] k = XForwardedFor -> for
        [] k = XForwardedHost -> host
        [] k = XRealIP -> ip
        [] k = XForwardedPort -> port
        [] k \in {"X-Forwarded-Uri", Underscored} -> rest
        [] k = "Connection" -> ws[1]
        [] k = "Upgrade" -> ws[2]
        [] OTHER -> <<>>] :
    proto \in MaybeLine("") \cup MaybeLine("https"),
    for \in {<<>>, << <<"a">>, <<"b", "c">> >>},
    host \in {<<>>, << <<"">>, <<"x">> >>, Line("y")},
    ip \in MaybeLine("a"),
    port \in MaybeLine("8080"),
    rest \in MaybeLine("ws"),
    ws \in { <<a, b>> : a \in {<<>>, << <<"keep-alive", "upgrade">> >>}, b \in MaybeLine("websocket") }}

Hosts == {[text |-> "", port |-> ""], [text |-> "h", port |-> ""], [text |-> "h:8443", port |-> "8443"]}

Peers ==
  {[addr |-> a, zone |-> FALSE, port |-> TRUE] : a \in MCAddr}
    \cup {[addr |-> "node", zone |-> TRUE, port |-> TRUE], [addr |-> "node", zone |-> FALSE, port |-> FALSE]}

MCRequest == [remote : Peers, host : Hosts, tls : BOOLEAN, header : Headers]
=============================================================================
