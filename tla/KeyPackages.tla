---------------------------- MODULE KeyPackages ----------------------------
(***************************************************************************)
(* The MLS KeyPackages: the inventory that server/src/server.js keeps for  *)
(* every device, and its replenishment by                                  *)
(* client/lib/data/mls_key_package_service.dart.                           *)
(*                                                                         *)
(* A server handler is one step.  A run of replenish awaits the inventory, *)
(* the local state and every upload; a device that opens several channels  *)
(* runs it several times at once, and an answer may be lost.  A KeyPackage *)
(* stands for itself, its hash and its id.  Signatures verify; what only   *)
(* refuses a request (its form, rate limits) may happen at any time.  The  *)
(* parts of the specification have names of their own, for a module that   *)
(* extends MlsDelivery as well.                                            *)
(***************************************************************************)
EXTENDS Integers, FiniteSets, MlsDevices

CONSTANTS
    Packages,
    Runs,            \* runs of replenish
    Life,            \* the life of a KeyPackage
    Target, PerRun,  \* targetInventory, maxGeneratedPerRun
    MaxAvailable, MaxHistory, MaxCredentials,        \* the server's limits
    MaxTime, MaxResets       \* bounds of the clock and of the keys of a device

ASSUME LimitsAssumption ==
    /\ {Life, Target, PerRun, MaxAvailable, MaxHistory, MaxCredentials} \subseteq Nat
    /\ IsFiniteSet(Packages)

VARIABLES
    now,             \* the server's clock
    rows,            \* mls_key_packages
    credentials,     \* mls_device_credentials
    inactive,        \* devices that are revoked, or of a banned account
    key, private,    \* the number of its signature key, and the private KeyPackages,
                     \* of a device
    runs,            \* the runs of replenish in progress
    handed           \* whom the server handed each KeyPackage

inventoryVars == <<now, rows, credentials, inactive, key, private, runs, handed>>

------------------------------------------------------------------------------
Rows == [device : Devices, key : Nat, expires : Nat, bytes : BOOLEAN, claimed : BOOLEAN]

(***************************************************************************)
(* A run: its device, how many packages it still has to register, and      *)
(* those it has saved and is about to upload.                              *)
(***************************************************************************)
RunStates == [device : Devices, needed : Nat, batch : SUBSET Packages]

ASSUME NoneAssumption == None \notin Rows \cup RunStates

Smaller(a, b) == IF a < b THEN a ELSE b

Of(d) == {p \in Packages : rows[p] # None /\ rows[p].device = d}

\* claimed_at IS NULL AND expires_at > ?
Available(d) == {p \in Of(d) : ~rows[p].claimed /\ rows[p].expires > now}

(***************************************************************************)
(* compactExpiredMlsKeyPackages.                                           *)
(***************************************************************************)
\* Mutant of Compacted: an expired package is not marked as claimed.
CompactedUnmarked ==
    [p \in Packages |->
        IF rows[p] # None /\ rows[p].expires <= now
        THEN [rows[p] EXCEPT !.bytes = FALSE] ELSE rows[p]]

Compacted ==
    [p \in Packages |->
        IF rows[p] # None /\ rows[p].expires <= now
        THEN [rows[p] EXCEPT !.bytes = FALSE, !.claimed = TRUE] ELSE rows[p]]

InventoryInit ==
    /\ now = 0
    /\ rows = [p \in Packages |-> None]
    /\ credentials = {}
    /\ inactive = {}
    /\ key = [d \in Devices |-> 0]
    /\ private = [d \in Devices |-> {}]
    /\ runs = [r \in Runs |-> None]
    /\ handed = [p \in Packages |-> {}]

------------------------------------------------------------------------------
(***************************************************************************)
(* replenish reads the inventory (GET /api/mls/key-packages).              *)
(***************************************************************************)
ReadInventory(r, d) ==
    /\ runs[r] = None /\ d \notin inactive
    /\ rows' = Compacted
    /\ LET needed == Smaller(Target - Cardinality(Available(d)), PerRun)
       IN  IF needed > 0
           THEN runs' = [runs EXCEPT ![r] = [device |-> d, needed |-> needed, batch |-> {}]]
           ELSE UNCHANGED runs
    /\ UNCHANGED <<now, credentials, inactive, key, private, handed>>

(***************************************************************************)
(* One or two KeyPackages are generated and saved with their private part. *)
(***************************************************************************)
Ungenerated(p) ==
    /\ rows[p] = None
    /\ \A d \in Devices : p \notin private[d]
    /\ \A r \in Runs : runs[r] # None => p \notin runs[r].batch

Batches(n) == {B \in SUBSET {p \in Packages : Ungenerated(p)} : Cardinality(B) = Smaller(n, 2)}

\* Mutant of Saved: the private parts are not saved before the upload.
SavedLater(d, B) == private

Saved(d, B) == [private EXCEPT ![d] = @ \cup B]

Generate(r) ==
    /\ runs[r] # None /\ runs[r].batch = {}
    /\ \E B \in Batches(runs[r].needed) :
         /\ private' = Saved(runs[r].device, B)
         /\ runs' = [runs EXCEPT ![r].batch = B]
    /\ UNCHANGED <<now, rows, credentials, inactive, key, handed>>

(***************************************************************************)
(* POST /api/mls/key-packages, with the signature key the run has read.    *)
(* The credential is recorded with the first KeyPackage that carries it.   *)
(***************************************************************************)
CredentialsOf(d) == {c \in credentials : c[1] = d}

\* GET /api/mls/device-credentials, by which clients recognise a member.  It also
\* lists devices that are inactive, and says so; its LIMIT is not reached here.
Directory ==
    {[device |-> c[1], key |-> c[2], active |-> c[1] \notin inactive] : c \in credentials}

Registrable(d, B) ==
    /\ Cardinality(Available(d)) + Cardinality(B) <= MaxAvailable
    /\ Cardinality(Of(d)) + Cardinality(B) <= MaxHistory
    /\ Cardinality(CredentialsOf(d) \cup {<<d, key[d]>>}) <= MaxCredentials

Registered(d, B) ==
    [p \in Packages |->
        IF p \in B THEN [device |-> d, key |-> key[d], expires |-> now + Life,
                         bytes |-> TRUE, claimed |-> FALSE]
        ELSE Compacted[p]]

\* The run goes on with what is left, or it ends; also when no answer comes.
After(r) ==
    LET left == runs[r].needed - Cardinality(runs[r].batch)
    IN  runs' = [runs EXCEPT ![r] =
            IF left > 0 THEN [device |-> runs[r].device, needed |-> left, batch |-> {}]
            ELSE None]

Register(r) ==
    LET d == runs[r].device
        B == runs[r].batch
    IN  /\ runs[r] # None /\ B # {}
        /\ d \notin inactive
        /\ \/ /\ Registrable(d, B)
              /\ rows' = Registered(d, B)
              /\ credentials' = credentials \cup {<<d, key[d]>>}
              /\ After(r) \/ runs' = [runs EXCEPT ![r] = None]
           \/ /\ ~Registrable(d, B)
              /\ rows' = Compacted
              /\ runs' = [runs EXCEPT ![r] = None]
              /\ UNCHANGED credentials
        /\ UNCHANGED <<now, inactive, key, private, handed>>

\* The application ends, the request fails, or the session is refused.
Abandon(r) ==
    /\ runs[r] # None
    /\ runs' = [runs EXCEPT ![r] = None]
    /\ UNCHANGED <<now, rows, credentials, inactive, key, private, handed>>

(***************************************************************************)
(* The local state of a device is gone with its wrapping key: it starts    *)
(* with another signature key.                                             *)
(***************************************************************************)
Reset(d) ==
    /\ key[d] < MaxResets
    /\ key' = [key EXCEPT ![d] = @ + 1]
    /\ private' = [private EXCEPT ![d] = {}]
    /\ runs' = [r \in Runs |-> IF runs[r] # None /\ runs[r].device = d THEN None ELSE runs[r]]
    /\ UNCHANGED <<now, rows, credentials, inactive, handed>>

------------------------------------------------------------------------------
(***************************************************************************)
(* POST /api/mls/key-packages/claim: the KeyPackage of device t that       *)
(* expires first goes to device c; its row keeps no bytes.                 *)
(***************************************************************************)
First(t, p) ==
    /\ p \in Available(t)
    /\ \A q \in Available(t) : rows[p].expires <= rows[q].expires

\* Mutant of Claimed: the row is not marked.
ClaimedTwice(p) == Compacted

Claimed(p) == [Compacted EXCEPT ![p].claimed = TRUE, ![p].bytes = FALSE]

Claim(c, t) ==
    /\ c \notin inactive /\ t \notin inactive
    /\ \/ \E p \in Packages :
            /\ First(t, p)
            /\ rows' = Claimed(p)
            /\ handed' = [handed EXCEPT ![p] = @ \cup {c}]
       \/ /\ Available(t) = {}
          /\ rows' = Compacted
          /\ UNCHANGED handed
    /\ UNCHANGED <<now, credentials, inactive, key, private, runs>>

------------------------------------------------------------------------------
\* Revocation of a device, a ban of its account.
Deactivate(d) ==
    /\ inactive' = inactive \cup {d}
    /\ UNCHANGED <<now, rows, credentials, key, private, runs, handed>>

\* The ban is lifted.
Reactivate(d) ==
    /\ inactive' = inactive \ {d}
    /\ UNCHANGED <<now, rows, credentials, key, private, runs, handed>>

Tick ==
    /\ now < MaxTime
    /\ now' = now + 1
    /\ UNCHANGED <<rows, credentials, inactive, key, private, runs, handed>>

InventoryNext ==
    \/ \E r \in Runs :
         \/ \E d \in Devices : ReadInventory(r, d)
         \/ Generate(r)
         \/ Register(r)
         \/ Abandon(r)
    \/ \E d \in Devices : Deactivate(d) \/ Reactivate(d) \/ Reset(d)
    \/ \E c, t \in Devices : Claim(c, t)
    \/ Tick

InventorySpec == InventoryInit /\ [][InventoryNext]_inventoryVars

------------------------------------------------------------------------------
(***************************************************************************)
(* The type invariant; a package that is still offered has its bytes.      *)
(***************************************************************************)
InventoryTypeOK ==
    /\ now \in Nat
    /\ rows \in [Packages -> Rows \cup {None}]
    /\ \A p \in Packages : rows[p] # None => rows[p].bytes = ~rows[p].claimed
    /\ credentials \subseteq Devices \X Nat
    /\ inactive \subseteq Devices
    /\ key \in [Devices -> Nat] /\ private \in [Devices -> SUBSET Packages]
    /\ runs \in [Runs -> RunStates \cup {None}]
    /\ handed \in [Packages -> SUBSET Devices]

(***************************************************************************)
(* "the reverse order could leave a claimed package with no private key"   *)
(* (mls_key_package_service.dart): whoever a KeyPackage was handed to, its *)
(* device can open what is sealed with it, unless the device lost its      *)
(* local state since; although uploads fail, answers are lost, the         *)
(* application ends in between and several runs overlap.                   *)
(***************************************************************************)
HandedCanBeOpened ==
    \A p \in Packages :
        handed[p] # {} /\ rows[p].key = key[rows[p].device] => p \in private[rows[p].device]

(***************************************************************************)
(* A KeyPackage is used once: it is handed to one device, is no longer     *)
(* offered, and belongs to a credential the directory lists, by which the  *)
(* others will recognise the member it adds.                               *)
(***************************************************************************)
HandedOnce ==
    \A p \in Packages :
        handed[p] # {} =>
            /\ \E c \in Devices : handed[p] = {c}
            /\ rows[p].claimed
            /\ \E entry \in Directory :
                 entry.device = rows[p].device /\ entry.key = rows[p].key
=============================================================================
