---------------------------- MODULE DeviceRegistry ----------------------------
(***************************************************************************)
(* The tables that say where a user's notifications go: devices and        *)
(* device_push_tokens, as registerPushToken (src/src/api/push-token.ts) and *)
(* deleteDevice (src/src/api/devices.ts) change them.                      *)
(*                                                                         *)
(* Neither handler uses a transaction: each awaits one D1 statement after   *)
(* another, and each statement is one action.  Requests of several isolates *)
(* interleave between their statements, and any statement may throw, which  *)
(* ends the request with what it has written so far.                       *)
(*                                                                         *)
(* device_identifier is a hash of the user and the device_info, so a device *)
(* is looked up by these two.  No statement of the repository ever makes a  *)
(* token inactive: a row of device_push_tokens is an active token.         *)
(***************************************************************************)
EXTENDS Integers

CONSTANTS
    None,
    Users,
    Admins,      \* the administrators among them
    Infos,       \* device_info strings
    Tokens,      \* push tokens
    Requests,    \* slots for requests in progress
    MaxDevices,  \* bound of the model: ids the AUTOINCREMENT column gives out
    DeletesRace  \* whether an administrator's delete may overlap other requests

DeviceIds == 1 .. MaxDevices
Rows      == [user : Users, info : Infos, active : BOOLEAN]

ASSUME RegistryAssumption ==
    /\ Admins \subseteq Users
    /\ MaxDevices \in Nat
    /\ DeletesRace \in BOOLEAN
    /\ None \notin DeviceIds /\ None \notin Rows

VARIABLES
    devices,  \* rows of devices by id, None when not yet inserted
    tokens,   \* per push token: the device_id of its row, or None
    pc,       \* per request: the statement it awaits next
    user,     \* per request: who is authenticated
    info,     \* per register request: device_info
    token,    \* per request: the push token it is about
    device,   \* per request: the device id it works on, None when unknown
    found     \* per register request: device_id of the row it found, or None

payloadVars == <<user, info, token>>
vars        == <<devices, tokens, pc, payloadVars, device, found>>

RegisterSteps == {"lookup", "device", "token", "save", "verify"}
DeleteSteps   == {"drop", "count", "deactivate"}

TypeOK ==
    /\ devices \in [DeviceIds -> Rows \cup {None}]
    /\ tokens \in [Tokens -> DeviceIds \cup {None}]
    /\ pc \in [Requests -> {"idle", "forbidden"} \cup RegisterSteps \cup DeleteSteps]
    /\ user \in [Requests -> Users \cup {None}]
    /\ info \in [Requests -> Infos \cup {None}]
    /\ token \in [Requests -> Tokens \cup {None}]
    /\ device \in [Requests -> DeviceIds \cup {None}]
    /\ found \in [Requests -> DeviceIds \cup {None}]
    /\ \A r \in Requests :
          /\ pc[r] # "idle" => user[r] \in Users /\ token[r] \in Tokens
          /\ pc[r] \in RegisterSteps => info[r] \in Infos

Init ==
    /\ devices = [d \in DeviceIds |-> None]
    /\ tokens = [t \in Tokens |-> None]
    /\ pc = [r \in Requests |-> "idle"]
    /\ user = [r \in Requests |-> None]
    /\ info = [r \in Requests |-> None]
    /\ token = [r \in Requests |-> None]
    /\ device = [r \in Requests |-> None]
    /\ found = [r \in Requests |-> None]

-----------------------------------------------------------------------------
Deleting(r) == pc[r] \in DeleteSteps

MayStart == DeletesRace \/ \A r \in Requests : ~Deleting(r)

Matches(u, i) ==
    {d \in DeviceIds : devices[d] # None /\ devices[d].user = u /\ devices[d].info = i}

Holds(d) == {t \in Tokens : tokens[t] = d}

(* What the alert cron selects for the owner of a token.                    *)
Reaches(u, t) ==
    /\ tokens[t] # None
    /\ devices[tokens[t]] # None
    /\ devices[tokens[t]].user = u
    /\ devices[tokens[t]].active

GoTo(r, where) == pc' = [pc EXCEPT ![r] = where]

(* A request ends, and its local variables with it.                         *)
Done(r) ==
    /\ GoTo(r, "idle")
    /\ user' = [user EXCEPT ![r] = None]
    /\ info' = [info EXCEPT ![r] = None]
    /\ token' = [token EXCEPT ![r] = None]
    /\ device' = [device EXCEPT ![r] = None]
    /\ found' = [found EXCEPT ![r] = None]

(* A statement throws: the handler answers 500.                             *)
Fail(r) ==
    /\ pc[r] # "idle"
    /\ Done(r)
    /\ UNCHANGED <<devices, tokens>>

-----------------------------------------------------------------------------
(* registerPushToken                                                        *)

Register(r, u, i, t) ==
    /\ pc[r] = "idle"
    /\ MayStart
    /\ GoTo(r, "lookup")
    /\ user' = [user EXCEPT ![r] = u]
    /\ info' = [info EXCEPT ![r] = i]
    /\ token' = [token EXCEPT ![r] = t]
    /\ UNCHANGED <<devices, tokens, device, found>>

(* The device by its identifier: the first of the rows, or none.            *)
FindDevice(r) ==
    /\ pc[r] = "lookup"
    /\ GoTo(r, "device")
    /\ IF Matches(user[r], info[r]) = {}
       THEN device' = device
       ELSE \E d \in Matches(user[r], info[r]) : device' = [device EXCEPT ![r] = d]
    /\ UNCHANGED <<devices, tokens, payloadVars, found>>

(* Mutant: the update does not set is_active.                               *)
TouchDevice(r) ==
    /\ pc[r] = "device"
    /\ device[r] # None
    /\ GoTo(r, "token")
    /\ UNCHANGED <<devices, tokens, payloadVars, device, found>>

ReviveDevice(r) ==
    /\ pc[r] = "device"
    /\ device[r] # None
    /\ devices' = [devices EXCEPT ![device[r]].active = TRUE]
    /\ GoTo(r, "token")
    /\ UNCHANGED <<tokens, payloadVars, device, found>>

InsertDevice(r) ==
    /\ pc[r] = "device"
    /\ device[r] = None
    /\ \E d \in DeviceIds :
          /\ devices[d] = None
          /\ \A e \in DeviceIds : e < d => devices[e] # None
          /\ devices' = [devices EXCEPT
                           ![d] = [user |-> user[r], info |-> info[r], active |-> TRUE]]
          /\ device' = [device EXCEPT ![r] = d]
    /\ GoTo(r, "token")
    /\ UNCHANGED <<tokens, payloadVars, found>>

FindToken(r) ==
    /\ pc[r] = "token"
    /\ found' = [found EXCEPT ![r] = tokens[token[r]]]
    /\ GoTo(r, "save")
    /\ UNCHANGED <<devices, tokens, payloadVars, device>>

(* Mutant: the arguments of the update are bound in the wrong order.        *)
UpdateTokenSwapped(r) ==
    /\ pc[r] = "save"
    /\ found[r] # None
    /\ IF found[r] # device[r] /\ tokens[token[r]] # None
       THEN tokens' = [tokens EXCEPT ![token[r]] = token[r]]
       ELSE UNCHANGED tokens
    /\ GoTo(r, "verify")
    /\ UNCHANGED <<devices, payloadVars, device, found>>

(* The row was found: it is reassigned, or refreshed when it is of this     *)
(* device.  When it is gone by now the update changes no row.               *)
UpdateToken(r) ==
    /\ pc[r] = "save"
    /\ found[r] # None
    /\ IF found[r] # device[r] /\ tokens[token[r]] # None
       THEN tokens' = [tokens EXCEPT ![token[r]] = device[r]]
       ELSE UNCHANGED tokens
    /\ GoTo(r, "verify")
    /\ UNCHANGED <<devices, payloadVars, device, found>>

(* No row was found: it is inserted; push_token is UNIQUE.                  *)
InsertToken(r) ==
    /\ pc[r] = "save"
    /\ found[r] = None
    /\ tokens[token[r]] = None
    /\ tokens' = [tokens EXCEPT ![token[r]] = device[r]]
    /\ GoTo(r, "verify")
    /\ UNCHANGED <<devices, payloadVars, device, found>>

(* Mutant: nothing is read back.                                            *)
VerifiedUnread(r) == pc[r] = "verify"

(* The row read back belongs to a device of the user: the request succeeds. *)
Verified(r) ==
    /\ pc[r] = "verify"
    /\ tokens[token[r]] # None
    /\ devices[tokens[token[r]]].user = user[r]

Verify(r) ==
    /\ pc[r] = "verify"
    /\ Done(r)
    /\ UNCHANGED <<devices, tokens>>

-----------------------------------------------------------------------------
(* deleteDevice                                                             *)

(* The owner of the device is compared with auth.userId, a field that       *)
(* authenticateRequestWithAdmin never returns: only an administrator, known *)
(* by username, passes.                                                     *)
MayDelete(u) == u \in Admins

(* The token's row is read with its device and the device's owner.          *)
Delete(r, u, t) ==
    /\ pc[r] = "idle"
    /\ MayStart
    /\ tokens[t] # None
    /\ \/ /\ MayDelete(u)
          /\ DeletesRace \/ \A q \in Requests : pc[q] = "idle"
          /\ GoTo(r, "drop")
       \/ /\ ~MayDelete(u)
          /\ GoTo(r, "forbidden")
    /\ user' = [user EXCEPT ![r] = u]
    /\ token' = [token EXCEPT ![r] = t]
    /\ device' = [device EXCEPT ![r] = tokens[t]]
    /\ UNCHANGED <<devices, tokens, info, found>>

(* 403: "Device does not belong to authenticated user".                     *)
Forbidden(r) ==
    /\ pc[r] = "forbidden"
    /\ Done(r)
    /\ UNCHANGED <<devices, tokens>>

DropToken(r) ==
    /\ pc[r] = "drop"
    /\ tokens' = [tokens EXCEPT ![token[r]] = None]
    /\ GoTo(r, "count")
    /\ UNCHANGED <<devices, payloadVars, device, found>>

CountTokens(r) ==
    /\ pc[r] = "count"
    /\ \/ /\ Holds(device[r]) = {}
          /\ GoTo(r, "deactivate")
          /\ UNCHANGED <<payloadVars, device, found>>
       \/ Holds(device[r]) # {} /\ Done(r)
    /\ UNCHANGED <<devices, tokens>>

Deactivate(r) ==
    /\ pc[r] = "deactivate"
    /\ devices' = [devices EXCEPT ![device[r]].active = FALSE]
    /\ Done(r)
    /\ UNCHANGED tokens

-----------------------------------------------------------------------------
RegisterStep(r) ==
    \/ FindDevice(r) \/ ReviveDevice(r) \/ InsertDevice(r)
    \/ FindToken(r) \/ UpdateToken(r) \/ InsertToken(r) \/ Verify(r)

DeleteStep(r) == DropToken(r) \/ CountTokens(r) \/ Deactivate(r)

Next ==
    \E r \in Requests :
        \/ RegisterStep(r)
        \/ DeleteStep(r)
        \/ Forbidden(r)
        \/ Fail(r)
        \/ \E u \in Users, t \in Tokens :
              Delete(r, u, t) \/ \E i \in Infos : Register(r, u, i, t)

Spec == Init /\ [][Next]_vars

-----------------------------------------------------------------------------
(* Properties.                                                             *)

(* The device of every token is active: a token that is stored is selected  *)
(* when an alert of its user is notified.                                   *)
TokensOnActiveDevices ==
    \A t \in Tokens : tokens[t] # None => /\ devices[tokens[t]] # None
                                          /\ devices[tokens[t]].active

(* A registration that is answered with success leaves the user reachable   *)
(* through the token, whatever other registrations (of the same token by    *)
(* another user, of the same device twice) run at the same time.            *)
RegisteredIsReachable ==
    \A r \in Requests : Verified(r) => Reaches(user[r], token[r])

(* "If no active tokens remain, mark device as inactive" (deleteDevice): a  *)
(* device is marked inactive only while it holds no token.                  *)
MarkedInactiveOnlyWhenEmpty ==
    [][\A d \in DeviceIds :
         /\ devices[d] # None
         /\ devices[d].active
         /\ ~devices'[d].active
         => Holds(d) = {}]_vars

(* The rows that requests and tokens refer to exist.                        *)
RowsExist ==
    /\ \A t \in Tokens : tokens[t] # None => devices[tokens[t]] # None
    /\ \A r \in Requests :
          /\ device[r] # None => devices[device[r]] # None
          /\ pc[r] \in {"token", "save", "verify"} \cup DeleteSteps => device[r] # None

(* A register request past its device statement works on an active device.  *)
RegistersOnActiveDevice ==
    \A r \in Requests :
        pc[r] \in {"token", "save", "verify"} => devices[device[r]].active

(* A delete is alone, and about to mark a device inactive only when that    *)
(* device holds no token.                                                   *)
DeletesAlone ==
    \A r \in Requests :
        /\ Deleting(r) => \A q \in Requests : q # r => pc[q] = "idle"
        /\ pc[r] = "deactivate" => Holds(device[r]) = {}

(* What makes TokensOnActiveDevices inductive when no delete overlaps        *)
(* another request.                                                         *)
RegistryInv ==
    /\ RowsExist
    /\ TokensOnActiveDevices
    /\ RegistersOnActiveDevice
    /\ DeletesAlone
=============================================================================
