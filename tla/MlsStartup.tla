----------------------------- MODULE MlsStartup -----------------------------
(***************************************************************************)
(* The start of an encrypted channel: MlsChannelRuntime.synchronize        *)
(* (client/lib/data/mls_channel_runtime.dart) on a device of the owner,    *)
(* against the delivery service, from a channel that was just created to   *)
(* the first membership reconciliation.  The runtime's lock lets one call  *)
(* run at a time on a device; a call ends where the server answers with an *)
(* error.                                                                  *)
(***************************************************************************)
EXTENDS Integers, FiniteSets

CONSTANTS
    Devices,        \* the devices that open the channel
    Users, UserOf, Owner,
    None

VARIABLES
    founder, epoch, nextSequence, deliveries,   \* the server (MlsDelivery)
    attachments, cursors, revoked, banned,
    group,      \* the devices whose protected state holds the MLS group
    joined,     \* the devices whose receive cursor says joined
    step        \* where each device's call of synchronize stands

server == <<founder, epoch, nextSequence, deliveries, attachments, cursors, revoked, banned>>
vars == <<server, group, joined, step>>

Server == INSTANCE MlsDelivery
    WITH Enrolled <- Devices, Readers <- Devices, Operations <- {}, EventIds <- {},
         Kinds <- {}, Attachments <- {}, Limits <- {}, MaxEpoch <- 0, MaxSequence <- 0

Init ==
    /\ Server!Init
    /\ group = {}
    /\ joined = {}
    /\ step = [d \in Devices |-> "idle"]

Goto(d, s) == step' = [step EXCEPT ![d] = s]

(***************************************************************************)
(* synchronize begins: a device without the group first looks for a        *)
(* Welcome, any other one goes on to receive.                              *)
(***************************************************************************)
Synchronize(d) ==
    /\ step[d] \in {"idle", "reconciled"}
    /\ Server!Active(d)
    /\ Goto(d, IF d \in group THEN "receive" ELSE "probe")
    /\ UNCHANGED <<server, group, joined>>

(***************************************************************************)
(* The first receive.synchronize.  The GET of a channel without MLS state  *)
(* answers 409, an exception that ends the call; the log of a channel      *)
(* nobody has reconciled is empty.                                         *)
(***************************************************************************)
Probe(d) ==
    /\ step[d] = "probe"
    /\ Goto(d, IF founder = None THEN "idle"
               ELSE IF UserOf[d] = Owner THEN "initialize" ELSE "idle")
    /\ UNCHANGED <<server, group, joined>>

(***************************************************************************)
(* POST /mls/initialize; only the caller that is told created: true goes   *)
(* on, the others wait for a Welcome.                                      *)
(***************************************************************************)
InitializeChannel(d) ==
    /\ step[d] = "initialize"
    /\ IF founder = None
       THEN Server!Initialize(d) /\ Goto(d, "create")
       ELSE Goto(d, "idle") /\ UNCHANGED server
    /\ UNCHANGED <<group, joined>>

CreateGroup(d) ==
    /\ step[d] = "create"
    /\ group' = group \cup {d}
    /\ Goto(d, "mark")
    /\ UNCHANGED <<server, joined>>

MarkLocalFounder(d) ==
    /\ step[d] = "mark"
    /\ joined' = joined \cup {d}
    /\ Goto(d, "receive")
    /\ UNCHANGED <<server, group>>

(***************************************************************************)
(* The second receive.synchronize: an empty batch, which a joined device   *)
(* acknowledges.  The server refuses (409) to acknowledge without a cursor *)
(* row, and only a batch that is not empty makes one.                      *)
(***************************************************************************)
ReceiveNothing(d) ==
    /\ step[d] = "receive"
    /\ IF d \notin joined \/ Server!Acceptable(d, 0, 0)
       THEN Goto(d, "reconciled") ELSE Goto(d, "idle")
    /\ UNCHANGED <<server, group, joined>>

Progress(d) ==
    \/ Synchronize(d) \/ Probe(d) \/ InitializeChannel(d) \/ CreateGroup(d)
    \/ MarkLocalFounder(d) \/ ReceiveNothing(d)

Next == \E d \in Devices : Progress(d)

(***************************************************************************)
(* No request fails and every user opens the channel again and again: what *)
(* does not happen under this fairness does not happen at all.             *)
(***************************************************************************)
Spec == Init /\ [][Next]_vars /\ \A d \in Devices : WF_vars(Progress(d))

(***************************************************************************)
(* docs/security/MESSAGING_E2EE.md: "Startup replenishes KeyPackages,      *)
(* replays delivery, and returns one of three explicit states".  So a      *)
(* device of the owner gets a new channel as far as its reconciliation.    *)
(***************************************************************************)
StartupReconciles == <>(\E d \in Devices : step[d] = "reconciled")
==============================================================================
