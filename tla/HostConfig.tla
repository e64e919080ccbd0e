----------------------------- MODULE HostConfig -----------------------------
(***************************************************************************)
(* The configuration file of a host (host/config.ts): the Agent, its       *)
(* renewal loop and the commands of the owner each change one part of it,  *)
(* reading and replacing the whole file under the coordination lock          *)
(* "host-config" (module StateLock).                                       *)
(***************************************************************************)
EXTENDS Naturals

CONSTANTS Writers,    \* the Agent and the command lines
          MaxUpdates, \* bound on the updates asked for
          MaxFaults   \* bound on killed processes and failed writes

ASSUME WritersAssumption == "nobody" \notin Writers

VARIABLES file,       \* config.json, NoFile when there is none
          holder,       \* the holder of the lock, Nobody when it is free
          proc,       \* where each writer is
          last,       \* ghost: what was published last, part by part
          updates, faults

configVars == <<file, holder, proc, last, updates, faults>>

Nobody == "nobody"
Unset == 0
Unconfigured == [mode |-> "unconfigured"]
NoRelay == [route |-> Unset, capability |-> Unset]

\* DirectTransportConfig is the number of the update that wrote it.
directTransport(t) == IF t.mode \in {"direct", "hybrid"} THEN t.direct ELSE Unset

relayTransport(t) == IF t.mode \in {"relay", "hybrid"} THEN t.relay ELSE NoRelay

withDirectTransport(t, d) ==
  IF relayTransport(t) # NoRelay
  THEN [mode |-> "hybrid", direct |-> d, relay |-> relayTransport(t)]
  ELSE [mode |-> "direct", direct |-> d]

MutWithRelayTransport(t, r) == [mode |-> "relay", relay |-> r]

withRelayTransport(t, r) ==
  IF directTransport(t) # Unset
  THEN [mode |-> "hybrid", direct |-> directTransport(t), relay |-> r]
  ELSE [mode |-> "relay", relay |-> r]

createHostConfig(id) ==
  [nodeId |-> id, transport |-> Unconfigured, webAuthn |-> Unset, network |-> Unset]

NoFile == createHostConfig(Unset)
Idle == [at |-> "idle", kind |-> "none", n |-> Unset, expected |-> Unset, config |-> NoFile]

Kinds == {"initialize", "direct", "relay", "grant", "renew", "webAuthn", "network"}

----------------------------------------------------------------------------
\* applyRelayCapabilityRenewal refuses a capability it did not renew.
Refused(p, c) ==
  p.kind = "renew" /\ (\/ relayTransport(c.transport) = NoRelay
                       \/ relayTransport(c.transport).capability # p.expected)

\* The updaters; n stands for the values an update brings.
\* ce transport direct, ce transport relay.
TransportDirect(c, n) == [c EXCEPT !.transport = withDirectTransport(@, n)]

TransportRelay(c, n) ==
  [c EXCEPT !.transport = withRelayTransport(@, [route |-> n, capability |-> n])]

\* applySelfProvisioningGrant keeps a network that was chosen.
Grant(c, n) ==
  [TransportRelay(c, n) EXCEPT !.webAuthn = n, !.network = IF @ = Unset THEN n ELSE @]

\* applyRelayCapabilityRenewal.
Renew(c, n) ==
  [c EXCEPT !.transport =
     withRelayTransport(@, [relayTransport(@) EXCEPT !.capability = n])]

\* ce auth configure.
Origin(c, n) == [c EXCEPT !.webAuthn = n]

\* setup/network/configure.
Network(c, n) == [c EXCEPT !.network = n]

Update(p, c) ==
  CASE p.kind = "initialize" -> c
    [] p.kind = "direct" -> TransportDirect(c, p.n)
    [] p.kind = "relay" -> TransportRelay(c, p.n)
    [] p.kind = "grant" -> Grant(c, p.n)
    [] p.kind = "renew" -> Renew(c, p.n)
    [] p.kind = "webAuthn" -> Origin(c, p.n)
    [] p.kind = "network" -> Network(c, p.n)

\* A command, setup/network/configure, a grant or a renewal begins.  The
\* renewal loop has read, without the lock, the capability it renews.
BeginUpdate(w) ==
  /\ proc[w].at = "idle" /\ updates < MaxUpdates
  /\ updates' = updates + 1
  /\ \E kind \in Kinds :
       /\ kind = "renew" => relayTransport(file.transport) # NoRelay
       /\ proc' = [proc EXCEPT ![w] =
                     [Idle EXCEPT !.at = "waiting", !.kind = kind, !.n = updates + 1,
                        !.expected = relayTransport(file.transport).capability]]
  /\ UNCHANGED <<file, holder, last, faults>>

MutAcquireLock(w) ==
  /\ proc[w].at = "waiting"
  /\ proc' = [proc EXCEPT ![w].at = "locked"]
  /\ UNCHANGED <<file, holder, last, updates, faults>>

AcquireLock(w) ==
  /\ proc[w].at = "waiting" /\ holder = Nobody
  /\ holder' = w
  /\ proc' = [proc EXCEPT ![w].at = "locked"]
  /\ UNCHANGED <<file, last, updates, faults>>

\* readHostConfig, or createHostConfig when there is no file.
ReadConfig(w) ==
  /\ proc[w].at = "locked"
  /\ proc' = [proc EXCEPT ![w] = [@ EXCEPT
                !.at = "read", !.config = IF file = NoFile THEN createHostConfig(proc[w].n) ELSE file]]
  /\ UNCHANGED <<file, holder, last, updates, faults>>

\* The updater throws, changes nothing, or its result is written to a
\* temporary file.
Apply(w) ==
  LET p == proc[w] IN
  /\ p.at = "read"
  /\ proc' = [proc EXCEPT ![w] =
       IF Refused(p, p.config) \/ (file # NoFile /\ Update(p, p.config) = p.config)
       THEN [p EXCEPT !.at = "leaving"]
       ELSE [p EXCEPT !.at = "written", !.config = Update(p, p.config)]]
  /\ UNCHANGED <<file, holder, last, updates, faults>>

\* Ghost: the parts an update is about.  A renewal is about the capability it
\* read, and about nothing once that was replaced.
Published(p) ==
  [nodeId |-> IF last.nodeId = Unset THEN p.config.nodeId ELSE last.nodeId,
   direct |-> IF p.kind = "direct" THEN p.n ELSE last.direct,
   relay |-> CASE p.kind \in {"relay", "grant"} -> [route |-> p.n, capability |-> p.n]
               [] p.kind = "renew" /\ last.relay.capability = p.expected ->
                    [last.relay EXCEPT !.capability = p.n]
               [] OTHER -> last.relay,
   webAuthn |-> IF p.kind \in {"webAuthn", "grant"} THEN p.n ELSE last.webAuthn,
   network |-> IF p.kind = "network" \/ (p.kind = "grant" /\ last.network = Unset)
               THEN p.n ELSE last.network]

\* rename.
Rename(w) ==
  LET p == proc[w] IN
  /\ p.at = "written"
  /\ file' = p.config
  /\ last' = Published(p)
  /\ proc' = [proc EXCEPT ![w].at = "leaving"]
  /\ UNCHANGED <<holder, updates, faults>>

\* The temporary file cannot be written or renamed.
WriteFails(w) ==
  /\ proc[w].at = "written" /\ faults < MaxFaults
  /\ faults' = faults + 1
  /\ proc' = [proc EXCEPT ![w].at = "leaving"]
  /\ UNCHANGED <<file, holder, last, updates>>

Unlocked(w) == IF holder = w THEN Nobody ELSE holder

ReleaseLock(w) ==
  /\ proc[w].at = "leaving"
  /\ holder' = Unlocked(w)
  /\ proc' = [proc EXCEPT ![w] = Idle]
  /\ UNCHANGED <<file, last, updates, faults>>

\* A writer is killed; StateLock lets the next one take its lock over.
WriterCrash(w) ==
  /\ proc[w].at # "idle" /\ faults < MaxFaults
  /\ faults' = faults + 1
  /\ holder' = Unlocked(w)
  /\ proc' = [proc EXCEPT ![w] = Idle]
  /\ UNCHANGED <<file, last, updates>>

----------------------------------------------------------------------------
ConfigInit ==
  /\ file = NoFile /\ holder = Nobody
  /\ last = [nodeId |-> Unset, direct |-> Unset, relay |-> NoRelay, webAuthn |-> Unset,
             network |-> Unset]
  /\ proc = [w \in Writers |-> Idle]
  /\ updates = 0 /\ faults = 0

ConfigNext ==
  \E w \in Writers :
    \/ BeginUpdate(w) \/ AcquireLock(w) \/ ReadConfig(w) \/ Apply(w)
    \/ Rename(w) \/ WriteFails(w) \/ ReleaseLock(w) \/ WriterCrash(w)

ConfigSpec == ConfigInit /\ [][ConfigNext]_configVars

----------------------------------------------------------------------------
(* Properties.                                                             *)

\* Whoever writes the file, and whoever is killed, it holds every part as it
\* was published last: the node id of the first writer, both transports when
\* both were configured, the origin and the network, and a renewed capability
\* only in place of the one that was renewed (updateHostConfigWithCoordination,
\* withDirectTransport, withRelayTransport, applyRelayCapabilityRenewal).
UpdatesKept ==
  last = [nodeId |-> file.nodeId,
          direct |-> directTransport(file.transport),
          relay |-> relayTransport(file.transport),
          webAuthn |-> file.webAuthn, network |-> file.network]

\* The configurations that readHostConfig accepts; every update has a number.
Relays == [route : Nat \ {0}, capability : Nat \ {0}]
Transports ==
  {Unconfigured} \cup [mode : {"direct"}, direct : Nat \ {0}]
                 \cup [mode : {"relay"}, relay : Relays]
                 \cup [mode : {"hybrid"}, direct : Nat \ {0}, relay : Relays]
Configs == [nodeId : Nat \ {0}, transport : Transports, webAuthn : Nat, network : Nat]

ConfigTypeOK ==
  /\ file \in Configs \cup {NoFile}
  /\ holder \in Writers \cup {Nobody}
  /\ proc \in [Writers -> [at : {"idle", "waiting", "locked", "read", "written", "leaving"},
                           kind : Kinds \cup {"none"}, n : Nat, expected : Nat,
                           config : Configs \cup {NoFile}]]
  /\ updates \in Nat

\* Who has got past the lock holds it.
LockHeld ==
  \A w \in Writers :
    proc[w].at \in {"locked", "read", "written", "leaving"} <=> holder = w

\* What a writer computes from: the file as it is, not as it was.
Base(p) == IF file = NoFile THEN createHostConfig(p.n) ELSE file

WorkIsCurrent ==
  \A w \in Writers : LET p == proc[w] IN
    /\ p.at # "idle" => p.kind \in Kinds /\ p.n # 0
    /\ p.at = "read" => p.config = Base(p)
    /\ p.at = "written" => p.config = Update(p, Base(p)) /\ ~Refused(p, Base(p))

\* The inductive invariant: whoever is about to replace the file does so with an
\* update of what the file holds (updateHostConfigWithCoordination under the lock).
ConfigInv == ConfigTypeOK /\ LockHeld /\ WorkIsCurrent /\ UpdatesKept
=============================================================================
