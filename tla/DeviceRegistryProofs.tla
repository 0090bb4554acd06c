------------------------ MODULE DeviceRegistryProofs ------------------------
(***************************************************************************)
(* Theorems about DeviceRegistry for any number of users, devices, tokens  *)
(* and requests: the types, and, when no delete overlaps another request,  *)
(* that every stored token is on an active device and that a registration  *)
(* answered with success leaves its user reachable.                        *)
(***************************************************************************)
EXTENDS DeviceRegistry, TLAPS

(* Every step keeps the types and the rows referred to, races or not.       *)
LEMMA TypeStep ==
    ASSUME TypeOK, RowsExist, [Next]_vars
    PROVE  TypeOK' /\ RowsExist'
<1> USE DEF TypeOK, RowsExist, GoTo, Done, payloadVars, RegisterSteps, DeleteSteps
<1>1. CASE UNCHANGED vars
  BY <1>1 DEF vars
<1>2. ASSUME NEW r \in Requests, FindDevice(r) PROVE TypeOK' /\ RowsExist'
  <2>1. CASE Matches(user[r], info[r]) = {}
    BY <1>2, <2>1 DEF FindDevice
  <2>2. CASE Matches(user[r], info[r]) # {}
    BY <1>2, <2>2 DEF FindDevice, Matches
  <2>3. QED
    BY <2>1, <2>2
<1>3. ASSUME NEW r \in Requests, ReviveDevice(r) PROVE TypeOK' /\ RowsExist'
  <2>1. device[r] \in DeviceIds /\ devices[device[r]] \in Rows
    BY <1>3 DEF ReviveDevice
  <2>2. [devices[device[r]] EXCEPT !.active = TRUE] \in Rows
    BY <2>1 DEF Rows
  <2>3. devices' = [devices EXCEPT ![device[r]] = [devices[device[r]] EXCEPT !.active = TRUE]]
    BY <1>3 DEF ReviveDevice
  <2>4. /\ devices' \in [DeviceIds -> Rows \cup {None}]
        /\ \A d \in DeviceIds : devices[d] # None => devices'[d] # None
    BY <2>1, <2>2, <2>3, RegistryAssumption DEF DeviceIds
  <2>5. QED
    BY <1>3, <2>1, <2>4 DEF ReviveDevice
<1>4. ASSUME NEW r \in Requests, InsertDevice(r) PROVE TypeOK' /\ RowsExist'
  <2>1. PICK d \in DeviceIds :
          /\ devices' = [devices EXCEPT
                           ![d] = [user |-> user[r], info |-> info[r], active |-> TRUE]]
          /\ device' = [device EXCEPT ![r] = d]
    BY <1>4 DEF InsertDevice
  <2>2. [user |-> user[r], info |-> info[r], active |-> TRUE] \in Rows
    BY <1>4 DEF InsertDevice, Rows
  <2>3. /\ devices' \in [DeviceIds -> Rows \cup {None}]
        /\ \A e \in DeviceIds : devices[e] # None => devices'[e] # None
        /\ devices'[d] # None
    BY <2>1, <2>2, RegistryAssumption
  <2>4. TypeOK'
    BY <1>4, <2>1, <2>3 DEF InsertDevice
  <2>5. \A t \in Tokens : tokens'[t] # None => devices'[tokens'[t]] # None
    BY <1>4, <2>3 DEF InsertDevice
  <2>6. ASSUME NEW q \in Requests
        PROVE  /\ device'[q] # None => devices'[device'[q]] # None
               /\ pc'[q] \in {"token", "save", "verify"} \cup DeleteSteps => device'[q] # None
    <3>1. CASE q = r
      BY <1>4, <2>1, <2>3, <3>1, RegistryAssumption DEF InsertDevice
    <3>2. CASE q # r
      BY <1>4, <2>1, <2>3, <3>2 DEF InsertDevice
    <3>3. QED
      BY <3>1, <3>2
  <2>7. QED
    BY <2>4, <2>5, <2>6
<1>5. ASSUME NEW r \in Requests, FindToken(r) \/ UpdateToken(r) \/ InsertToken(r) \/ Verify(r)
      PROVE  TypeOK' /\ RowsExist'
  BY <1>5 DEF FindToken, UpdateToken, InsertToken, Verify
<1>6. ASSUME NEW r \in Requests, DropToken(r) \/ CountTokens(r) \/ Fail(r)
      PROVE  TypeOK' /\ RowsExist'
  BY <1>6 DEF DropToken, CountTokens, Fail
<1>7. ASSUME NEW r \in Requests, Deactivate(r) PROVE TypeOK' /\ RowsExist'
  <2>1. device[r] \in DeviceIds /\ devices[device[r]] \in Rows
    BY <1>7 DEF Deactivate
  <2>2. [devices[device[r]] EXCEPT !.active = FALSE] \in Rows
    BY <2>1 DEF Rows
  <2>3. devices' = [devices EXCEPT ![device[r]] = [devices[device[r]] EXCEPT !.active = FALSE]]
    BY <1>7 DEF Deactivate
  <2>4. /\ devices' \in [DeviceIds -> Rows \cup {None}]
        /\ \A d \in DeviceIds : devices[d] # None => devices'[d] # None
    BY <2>1, <2>2, <2>3, RegistryAssumption DEF DeviceIds
  <2>5. QED
    BY <1>7, <2>1, <2>4 DEF Deactivate
<1>8. ASSUME NEW r \in Requests, NEW u \in Users, NEW t \in Tokens, Delete(r, u, t)
      PROVE  TypeOK' /\ RowsExist'
  BY <1>8 DEF Delete
<1>9. ASSUME NEW r \in Requests, NEW u \in Users, NEW i \in Infos, NEW t \in Tokens,
             Register(r, u, i, t)
      PROVE  TypeOK' /\ RowsExist'
  BY <1>9 DEF Register
<1>10. ASSUME NEW r \in Requests, Forbidden(r) PROVE TypeOK' /\ RowsExist'
  BY <1>10 DEF Forbidden
<1>11. QED
  BY <1>1, <1>2, <1>3, <1>4, <1>5, <1>6, <1>7, <1>8, <1>9, <1>10
     DEF Next, RegisterStep, DeleteStep

(* Every variable keeps its type, and no request or token ever refers to a  *)
(* device row that does not exist.                                          *)
THEOREM TypeCorrect == Spec => []TypeOK /\ []RowsExist
<1>1. Init => TypeOK /\ RowsExist
  BY DEF Init, TypeOK, RowsExist, RegisterSteps, DeleteSteps
<1>2. TypeOK /\ RowsExist /\ [Next]_vars => TypeOK' /\ RowsExist'
  BY TypeStep
<1>3. QED
  BY <1>1, <1>2, PTL DEF Spec

-----------------------------------------------------------------------------
(* No delete overlaps another request: every step keeps RegistryInv.        *)
LEMMA RegistryStep ==
    ASSUME ~DeletesRace, TypeOK, RegistryInv, [Next]_vars
    PROVE  RegistryInv'
<1> USE DEF TypeOK, RegistryInv, RowsExist, TokensOnActiveDevices, RegistersOnActiveDevice,
            DeletesAlone, Deleting, Holds, GoTo, Done, payloadVars, RegisterSteps, DeleteSteps
<1>0. RowsExist'
  BY TypeStep DEF RegistryInv
<1> DEFINE Kept == TokensOnActiveDevices' /\ RegistersOnActiveDevice' /\ DeletesAlone'
<1>1. CASE UNCHANGED vars
  BY <1>1 DEF vars
<1>2. ASSUME NEW r \in Requests, FindDevice(r) PROVE Kept
  <2>1. /\ UNCHANGED <<devices, tokens>>
        /\ pc' = [pc EXCEPT ![r] = "device"]
        /\ \A q \in Requests : q # r => device'[q] = device[q]
    BY <1>2 DEF FindDevice
  <2>2. pc[r] = "lookup"
    BY <1>2 DEF FindDevice
  <2>3. QED
    BY <2>1, <2>2
<1>3. ASSUME NEW r \in Requests, ReviveDevice(r) PROVE Kept
  <2>1. device[r] \in DeviceIds /\ devices[device[r]] \in Rows
    BY <1>3 DEF ReviveDevice
  <2>2. /\ devices'[device[r]] # None
        /\ devices'[device[r]].active
        /\ \A d \in DeviceIds : d # device[r] => devices'[d] = devices[d]
    BY <1>3, <2>1, <1>0 DEF ReviveDevice, Rows
  <2>3. QED
    BY <1>3, <2>1, <2>2 DEF ReviveDevice
<1>4. ASSUME NEW r \in Requests, InsertDevice(r) PROVE Kept
  <2>1. PICK d \in DeviceIds :
          /\ devices[d] = None
          /\ devices' = [devices EXCEPT
                           ![d] = [user |-> user[r], info |-> info[r], active |-> TRUE]]
          /\ device' = [device EXCEPT ![r] = d]
    BY <1>4 DEF InsertDevice
  <2>2. devices'[d].active /\ \A e \in DeviceIds : devices[e] # None => devices'[e] = devices[e]
    BY <2>1
  <2>3. TokensOnActiveDevices'
    BY <1>4, <1>0, <2>2 DEF InsertDevice
  <2>4. ASSUME NEW q \in Requests, pc'[q] \in {"token", "save", "verify"}
        PROVE  devices'[device'[q]].active
    <3>1. CASE q = r
      BY <2>1, <2>2, <3>1
    <3>2. CASE q # r
      BY <1>4, <2>1, <2>2, <2>4, <3>2 DEF InsertDevice
    <3>3. QED
      BY <3>1, <3>2
  <2>5. DeletesAlone'
    BY <1>4 DEF InsertDevice
  <2>6. QED
    BY <2>3, <2>4, <2>5
<1>5. ASSUME NEW r \in Requests, FindToken(r) \/ Verify(r) \/ Fail(r) PROVE Kept
  BY <1>5 DEF FindToken, Verify, Fail
<1>6. ASSUME NEW r \in Requests, UpdateToken(r) \/ InsertToken(r) PROVE Kept
  <2>1. /\ devices[device[r]] # None /\ devices[device[r]].active
        /\ pc[r] = "save"
        /\ pc' = [pc EXCEPT ![r] = "verify"]
        /\ UNCHANGED <<devices, device>>
    BY <1>6 DEF UpdateToken, InsertToken
  <2>2. \A t \in Tokens : tokens'[t] = tokens[t] \/ tokens'[t] = device[r]
    BY <1>6 DEF UpdateToken, InsertToken
  <2>3. TokensOnActiveDevices'
    BY <2>1, <2>2
  <2>4. RegistersOnActiveDevice' /\ DeletesAlone'
    BY <2>1
  <2>5. QED
    BY <2>3, <2>4
<1>7. ASSUME NEW r \in Requests, DropToken(r) \/ CountTokens(r) PROVE Kept
  BY <1>7 DEF DropToken, CountTokens
<1>8. ASSUME NEW r \in Requests, Deactivate(r) PROVE Kept
  <2>1. \A q \in Requests : pc'[q] = "idle"
    BY <1>8 DEF Deactivate
  <2>2. \A d \in DeviceIds : d # device[r] => devices'[d] = devices[d]
    BY <1>8 DEF Deactivate
  <2>3. \A t \in Tokens : tokens'[t] = tokens[t] /\ tokens[t] # device[r]
    BY <1>8 DEF Deactivate
  <2>4. QED
    BY <2>1, <2>2, <2>3
<1>9. ASSUME NEW r \in Requests, NEW u \in Users, NEW t \in Tokens, Delete(r, u, t)
      PROVE  Kept
  BY <1>9 DEF Delete, MayStart
<1>10. ASSUME NEW r \in Requests, NEW u \in Users, NEW i \in Infos, NEW t \in Tokens,
              Register(r, u, i, t)
       PROVE  Kept
  BY <1>10 DEF Register, MayStart
<1>11. ASSUME NEW r \in Requests, Forbidden(r) PROVE Kept
  BY <1>11 DEF Forbidden
<1>12. Kept
  BY <1>1, <1>2, <1>3, <1>4, <1>5, <1>6, <1>7, <1>8, <1>9, <1>10, <1>11
     DEF Next, RegisterStep, DeleteStep
<1>13. QED
  BY <1>0, <1>12

(* No delete overlaps another request: whatever registrations overlap, and  *)
(* wherever a request fails, every stored token is on an active device.     *)
THEOREM RegistryInvariant == ASSUME ~DeletesRace PROVE Spec => []RegistryInv
<1>1. Init => TypeOK /\ RegistryInv
  BY DEF Init, TypeOK, RegistryInv, RowsExist, TokensOnActiveDevices, RegistersOnActiveDevice,
         DeletesAlone, Deleting, RegisterSteps, DeleteSteps
<1>2. TypeOK /\ RegistryInv /\ [Next]_vars => TypeOK' /\ RegistryInv'
  <2>1. RegistryInv => RowsExist
    BY DEF RegistryInv
  <2>2. QED
    BY <2>1, TypeStep, RegistryStep
<1>3. QED
  BY <1>1, <1>2, PTL DEF Spec

(* A registration answered with success leaves the user reachable through   *)
(* the token when no delete overlaps another request.                       *)
THEOREM RegisteredStaysReachable == ASSUME ~DeletesRace PROVE Spec => []RegisteredIsReachable
<1>1. TypeOK /\ RegistryInv => RegisteredIsReachable
  BY DEF TypeOK, RegistryInv, TokensOnActiveDevices, RegisteredIsReachable, Verified, Reaches
<1>2. QED
  BY <1>1, TypeCorrect, RegistryInvariant, PTL
=============================================================================
