------------------------------ MODULE MCSmall ------------------------------
(* Five small programs that share a run: the ntfy webhook, the dynamic DNS  *)
(* worker, neckhook, the Pi-hole gravity job and the sync of a pull zone.   *)
(* The initial state says which of them runs, and the variables of the      *)
(* others stay as they are.                                                 *)
EXTENDS NtfyWebhook, SmallPrograms

VARIABLE which

-----------------------------------------------------------------------------
\* NtfyWebhook: batches of two events, one of them with an event that ntfy never
\* takes and one with an event that the schema does not know, and a call without
\* a token.
MCEvent(kind, downtime, apdex) ==
  [event |-> kind, downtime |-> downtime, apdex_dropped |-> apdex,
   common |-> TRUE]
Down == MCEvent("check.down", TRUE, FALSE)
Up == MCEvent("check.up", TRUE, FALSE)
Slow == MCEvent("check.performance_drop", FALSE, TRUE)
Unknown == MCEvent("other", FALSE, FALSE)

MCCall(body) ==
  [post |-> TRUE, trigger |-> TRUE, token |-> TRUE, json |-> TRUE,
   body |-> body]

Events == {Down, Up, Slow, Unknown}
NeverTaken == {Slow}
Calls == {
  MCCall(<<Down, Up>>),
  MCCall(<<Slow, Down>>),
  MCCall(<<Down, Unknown>>),
  [MCCall(<<Up>>) EXCEPT !.token = FALSE]}

\* Ddns: two records, so that one can be written while the other is not.  The
\* WAN gets back the address it had before, and then a new one.
CONSTANTS r1, r2
TwoIds == {r1, r2}
Leases == <<1, 2, 1, 3>>

\* Neckhook: three requests that are served, with tokens of which one is good,
\* and one that is refused although it brings a token.
CONSTANTS good, bad, ip1, ip2
HookRequests == {
  [post |-> TRUE, trigger |-> TRUE, client_ip |-> ip1, token |-> good],
  [post |-> TRUE, trigger |-> TRUE, client_ip |-> ip2, token |-> good],
  [post |-> TRUE, trigger |-> FALSE, client_ip |-> ip1, token |-> bad],
  [post |-> TRUE, trigger |-> TRUE, client_ip |-> None, token |-> bad]}
GoodTokens == {good}

\* PiholeGravity: the two instances, and a list that comes back.
Published == <<"a", "b", "a">>
TwoInstances == <<"nomos", "necros">>

\* BunnySync: of two host names that are wanted one is there; one is not wanted,
\* and one is Bunny's own.
Hosts == {"old", "old2", "new", "own"}
TwoNames == <<"new", "old">>
OwnHosts == {"own"}
HostsAtFirst == {"old", "old2", "own"}

-----------------------------------------------------------------------------
MCInit ==
  /\ which \in {"ntfy", "ddns", "neckhook", "gravity", "sync"}
  /\ Init /\ D!Init /\ N!Init /\ G!Init /\ B!Init

MCNext ==
  /\ UNCHANGED which
  /\ \/ which = "ntfy" /\ Next /\ UNCHANGED <<dnsVars, hookVars, jobVars, zoneVars>>
     \/ which = "ddns" /\ D!Next /\ UNCHANGED <<vars, hookVars, jobVars, zoneVars>>
     \/ which = "neckhook" /\ N!Next /\ UNCHANGED <<vars, dnsVars, jobVars, zoneVars>>
     \/ which = "gravity" /\ G!Next /\ UNCHANGED <<vars, dnsVars, hookVars, zoneVars>>
     \/ which = "sync" /\ B!Next /\ UNCHANGED <<vars, dnsVars, hookVars, jobVars>>

allVars == <<which, vars, dnsVars, hookVars, jobVars, zoneVars>>

\* The fairness of each module, for the one that runs.
MCSpec ==
  /\ MCInit /\ [][MCNext]_allVars
  /\ \A c \in Call : /\ WF_vars(which = "ntfy" /\ Send(c))
                      /\ WF_vars(which = "ntfy" /\ Handle(c))
  /\ WF_vars(which = "ntfy" /\ \E p \in posts : Post(p))
  /\ WF_dnsVars(which = "ddns" /\ D!Worker)
  /\ WF_jobVars(which = "gravity" /\ G!Job)
  /\ \A i \in G!Instance :
       WF_jobVars(which = "gravity" /\ i \in due /\ G!InstanceStarts(i))
  /\ WF_zoneVars(which = "sync" /\ B!Job)

\* The job alone.
JobSpec == MCInit /\ which = "gravity" /\ [][MCNext]_allVars

-----------------------------------------------------------------------------
(* The properties, of the program that runs; see the modules.               *)

\* NtfyWebhook: every event of a recognised batch is shown in the end, next to
\* events that ntfy never takes, if the sender makes more attempts than there
\* are faults.
AlertsAreShown ==
  \A c \in Call : \A n \in NoticesOf(c) :
    c.body[n[2]] \notin Refused => <>(which # "ntfy" \/ n \in Notices)

\* Ddns: the records are made equal again, to the address the WAN has in the
\* end, whatever sessions and answers get lost.
RecordsFollow == <>[](which # "ddns" \/ D!RecordsAgree)

\* PiholeGravity: every instance gets the list that is published last, and it
\* alone, although attempts append to what others have left.
ListsReach == <>[](which # "gravity" \/ G!ListsAgree)

\* BunnySync: once others have stopped, the zone gets there and stays so, with
\* the last certificate, through renewals between the two reads of it and changes
\* between the answer and the requests made by it.
ZoneGetsSynced == <>[](which # "sync" \/ B!ZoneSynced)
=============================================================================
