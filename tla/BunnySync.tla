----------------------------- MODULE BunnySync -----------------------------
(***************************************************************************)
(* traefik/config/bunny-sync.sh, a daily job: it reads the certificate of   *)
(* the gateway and the host names of a pull zone at Bunny, removes the host *)
(* names that are not wanted, adds those that are missing, and gives each   *)
(* the certificate and ForceSSL.  Bunny, the kubelet, which puts a renewed  *)
(* certificate into the volume, and whoever else edits the zone are         *)
(* external.                                                                *)
(***************************************************************************)
EXTENDS Naturals, Sequences

CONSTANTS
  Host,       \* the host names
  Wanted,     \* those of DNS_NAMES, in their order, at least one
  Managed,    \* those that Bunny gives out itself, b-cdn.net and bunny.run
  FirstHosts, \* what the zone has at first
  MaxEdits,   \* bound on the changes that others make
  MaxRenewals,
  MaxFaults   \* bound on failed requests and jobs

NoCert == 0

VARIABLES
  volume,   \* the certificate in the volume, by its number
  hosts,    \* the zone: its host names,
  cert,     \* cert[h]: their certificates,
  ssl,      \* ssl[h]: whether ForceSSL is set
  pc,       \* the command that is next
  crt, key, \* what the script has read of the certificate
  pzHosts,  \* /tmp/pz.json: .Hostnames[].Value
  pzSsl,    \* those of them with .ForceSSL
  todo,     \* host names the first loop has still to look at
  line,     \* the line of sans.txt that the second loop has come to
  disturbed, \* whether the job has given up, or somebody else has changed the
             \* zone, since the answer (history)
  edits, faults

zone == <<hosts, cert, ssl>>
pz == <<pzHosts, pzSsl>>
others == <<disturbed, edits>>
vars == <<volume, zone, pc, crt, key, pz, todo, line, others, faults>>

WantedHosts == {Wanted[n] : n \in DOMAIN Wanted}

Init ==
  /\ volume = 1
  /\ hosts = FirstHosts
  /\ cert = [h \in Host |-> NoCert]
  /\ ssl = [h \in Host |-> FALSE]
  /\ pc = "none"
  /\ crt = NoCert /\ key = NoCert
  /\ pzHosts = {} /\ pzSsl = {}
  /\ todo = {} /\ line = 1
  /\ disturbed = TRUE /\ edits = 0 /\ faults = 0

Fault == faults < MaxFaults /\ faults' = faults + 1

-----------------------------------------------------------------------------
(* What Bunny does with a request.                                          *)

Remove(h) ==
  /\ hosts' = hosts \ {h}
  /\ cert' = [cert EXCEPT ![h] = NoCert]
  /\ ssl' = [ssl EXCEPT ![h] = FALSE]

Add(h) == hosts' = hosts \cup {h} /\ UNCHANGED <<cert, ssl>>

SetCert(h) == cert' = [cert EXCEPT ![h] = crt] /\ UNCHANGED <<hosts, ssl>>
SetSsl(h) == ssl' = [ssl EXCEPT ![h] = TRUE] /\ UNCHANGED <<hosts, cert>>

\* set -e and restartPolicy: OnFailure start the script again.
StartOver == pc' = "crt" /\ UNCHANGED <<todo, line>>

\* A request that Bunny refuses, or that fails for another reason after it has
\* been carried out or before.
Fails(refused, Effect) ==
  /\ StartOver
  /\ \/ refused /\ UNCHANGED <<zone, faults>>
     \/ ~refused /\ Fault /\ Effect
     \/ Fault /\ UNCHANGED zone

-----------------------------------------------------------------------------
(* The script.                                                              *)

\* A pod with an empty volume (concurrencyPolicy: Forbid).
Schedule ==
  /\ pc = "none"
  /\ pc' = "crt"
  /\ pzHosts' = {} /\ pzSsl' = {}
  /\ UNCHANGED <<volume, zone, crt, key, todo, line, others, faults>>

ReadCrt ==
  /\ pc = "crt"
  /\ crt' = volume
  /\ pc' = "key"
  /\ UNCHANGED <<volume, zone, key, pz, todo, line, others, faults>>

ReadKey ==
  /\ pc = "key"
  /\ key' = volume
  /\ pc' = "get"
  /\ UNCHANGED <<volume, zone, crt, pz, todo, line, others, faults>>

\* Mutated: what an attempt before has fetched is used again.
KeptAnswer == IF pzHosts = {} THEN hosts ELSE pzHosts
FreshAnswer == hosts

\* The answer to the first request is what both loops compare with.
Get ==
  /\ pc = "get"
  /\ \/ /\ pzHosts' = FreshAnswer
        /\ pzSsl' = {h \in pzHosts' : ssl[h]}
        /\ todo' = pzHosts' \ Managed
        /\ line' = 1
        /\ pc' = "remove"
        /\ disturbed' = FALSE
        /\ UNCHANGED faults
     \/ StartOver /\ Fault /\ UNCHANGED <<pz, disturbed>>
  /\ UNCHANGED <<volume, zone, crt, key, edits>>

RemoveHost(h) ==
  /\ pc = "remove"
  /\ h \in todo \ WantedHosts
  /\ \/ h \in hosts /\ Remove(h) /\ todo' = todo \ {h} /\ UNCHANGED <<pc, line, faults>>
     \/ Fails(h \notin hosts, Remove(h))
  /\ UNCHANGED <<volume, crt, key, pz, others>>

RemoveEnd ==
  /\ pc = "remove"
  /\ todo \subseteq WantedHosts
  /\ pc' = "add"
  /\ UNCHANGED <<volume, zone, crt, key, pz, todo, line, others, faults>>

AddHost ==
  /\ pc = "add"
  /\ LET h == Wanted[line]
     IN  \/ h \in pzHosts /\ pc' = "cert" /\ UNCHANGED <<zone, todo, line, faults>>
         \/ /\ h \notin pzHosts
            /\ \/ h \notin hosts /\ Add(h) /\ pc' = "cert" /\ UNCHANGED <<todo, line, faults>>
               \/ Fails(h \in hosts, Add(h))
  /\ UNCHANGED <<volume, crt, key, pz, others>>

\* Bunny does not take a certificate with the key of another one.
AddCertificate ==
  /\ pc = "cert"
  /\ LET h == Wanted[line]
         refused == h \notin hosts \/ crt # key
     IN  \/ ~refused /\ SetCert(h) /\ pc' = "ssl" /\ UNCHANGED <<todo, line, faults>>
         \/ Fails(refused, SetCert(h))
  /\ UNCHANGED <<volume, crt, key, pz, others>>

NextLine ==
  IF line < Len(Wanted)
    THEN line' = line + 1 /\ pc' = "add"
    ELSE pc' = "none" /\ UNCHANGED line

\* Mutated: a host name that the answer lacks does not count as one without.
KnownWithoutSsl(h) == h \in pzHosts \ pzSsl
WithoutSsl(h) == h \notin pzSsl

SetForceSsl ==
  /\ pc = "ssl"
  /\ LET h == Wanted[line]
     IN  \/ ~WithoutSsl(h) /\ NextLine /\ UNCHANGED <<zone, todo, faults>>
         \/ /\ WithoutSsl(h)
            /\ \/ h \in hosts /\ SetSsl(h) /\ NextLine /\ UNCHANGED <<todo, faults>>
               \/ Fails(h \notin hosts, SetSsl(h))
  /\ UNCHANGED <<volume, crt, key, pz, others>>

-----------------------------------------------------------------------------
(* Others.                                                                  *)

\* The job has failed as often as it may, or its pod is lost.
GiveUp ==
  /\ pc # "none"
  /\ Fault
  /\ pc' = "none"
  /\ disturbed' = TRUE
  /\ UNCHANGED <<volume, zone, crt, key, pz, todo, line, edits>>

Edit(h) ==
  /\ edits < MaxEdits
  /\ edits' = edits + 1
  /\ disturbed' = TRUE
  /\ IF h \in hosts THEN Remove(h) ELSE Add(h)
  /\ UNCHANGED <<volume, pc, crt, key, pz, todo, line, faults>>

Renew ==
  /\ volume <= MaxRenewals
  /\ volume' = volume + 1
  /\ UNCHANGED <<zone, pc, crt, key, pz, todo, line, others, faults>>

-----------------------------------------------------------------------------
Job ==
  \/ Schedule \/ ReadCrt \/ ReadKey \/ Get
  \/ RemoveEnd \/ AddHost \/ AddCertificate \/ SetForceSsl
  \/ \E h \in Host : RemoveHost(h)

Next == Job \/ GiveUp \/ Renew \/ \E h \in Host \ Managed : Edit(h)

Spec == Init /\ [][Next]_vars

(* The schedule comes round and requests end.                               *)
Fairness == WF_vars(Job)

-----------------------------------------------------------------------------
(* Properties.                                                              *)

\* The zone has the host names that are wanted, and Bunny's own, all of them
\* with ForceSSL and with certificate c.
Synced(c) ==
  /\ hosts \ Managed = WantedHosts
  /\ \A h \in WantedHosts : ssl[h] /\ cert[h] = c

\* A job that is complete leaves the zone as it is wanted, whatever attempts
\* before it were cut short after, and whatever the answer it compares with does
\* not show any more, unless somebody else has changed the zone since that answer.
CompleteIsSynced == pc = "none" /\ ~disturbed => crt = key /\ Synced(crt)

\* So it is with the last certificate.
ZoneSynced == Synced(volume)

TypeOK ==
  /\ volume \in Nat /\ crt \in Nat /\ key \in Nat
  /\ hosts \subseteq Host /\ pzHosts \subseteq Host /\ pzSsl \subseteq Host /\ todo \subseteq Host
  /\ cert \in [Host -> Nat]
  /\ ssl \in [Host -> BOOLEAN]
  /\ pc \in {"none", "crt", "key", "get", "remove", "add", "cert", "ssl"}
  /\ line \in 1..Len(Wanted)
  /\ disturbed \in BOOLEAN
  /\ edits \in Nat /\ faults \in Nat

\* The inductive invariant, of a job that nobody has disturbed since the answer.
\* What the answer shows of a host name that is wanted is still so;
AnswerInv ==
  pc \in {"remove", "add", "cert", "ssl"} /\ ~disturbed =>
    \A h \in WantedHosts : (h \in pzHosts => h \in hosts) /\ (h \in pzSsl => ssl[h])

\* the first loop has still to look at all there is,
RemoveInv == pc = "remove" => line = 1 /\ (~disturbed => hosts \ Managed = todo)

\* and the second has made the lines it has passed as they are wanted.
LinesInv ==
  pc \in {"add", "cert", "ssl"} /\ ~disturbed =>
    /\ hosts \ Managed \subseteq WantedHosts
    /\ \A m \in 1..(line - 1) : LET h == Wanted[m] IN h \in hosts /\ ssl[h] /\ cert[h] = crt
    /\ line > 1 \/ pc = "ssl" => crt = key
    /\ pc \in {"cert", "ssl"} => Wanted[line] \in hosts
    /\ pc = "ssl" => cert[Wanted[line]] = crt

IInv == TypeOK /\ AnswerInv /\ RemoveInv /\ LinesInv /\ CompleteIsSynced
=============================================================================
