----------------------------- MODULE AccessProofs -----------------------------
(***************************************************************************)
(* Uploads and logins, for any number of devices, tokens, records, calls   *)
(* and browsers: what a device was authorized for stays its own, the       *)
(* limiter limits, and a password change kicks the other sessions.         *)
(***************************************************************************)
EXTENDS Sessions, Devices, FiniteSetTheorems, TLAPS

(* A device nobody registered is bound to nothing, and a call under way    *)
(* carries a token and names a record.                                     *)
Registered == \A d \in Clients : ~device[d].known => device[d] = Unknown
Carried == \A q \in Calls : call[q].pc # "none" => call[q].token \in Tokens
                                                   /\ call[q].record \in Records

DevicesInv == DevicesTypeOK /\ Registered /\ Carried /\ OwnersKnown /\ AuthorizedStays

-----------------------------------------------------------------------------
LEMMA DeviceConstants ==
    /\ Null \notin Clients /\ Null \notin Tokens
    /\ Absent \notin Clients /\ Absent # Null
    /\ MaxCalls \in Nat /\ MaxAdmin \in Nat
BY DevicesAssumption DEF DevicesAssumption

LEMMA DevicesInitInv == DevicesInit => DevicesInv
<1> SUFFICES ASSUME DevicesInit PROVE DevicesInv
  OBVIOUS
<1> USE DeviceConstants DEF DevicesInit
<1>1. Unknown \in [known : BOOLEAN, token : Tokens \cup {Null}, revoked : BOOLEAN]
      /\ [Unknown EXCEPT !.known = TRUE]
             \in [known : BOOLEAN, token : Tokens \cup {Null}, revoked : BOOLEAN]
      /\ [Unknown EXCEPT !.known = TRUE].known
      /\ ~Unknown.known
  BY DEF Unknown
<1>2. DevicesTypeOK
  <2>1. device \in [Clients -> [known : BOOLEAN, token : Tokens \cup {Null}, revoked : BOOLEAN]]
    BY <1>1
  <2>2. call \in [Calls -> [pc : {"none", "body", "image"}, kind : Kinds,
                            client : Clients \cup {Null}, token : Tokens \cup {Null},
                            record : Records \cup {Null}]]
    BY DEF NoCall, Kinds
  <2> QED
    BY <2>1, <2>2 DEF DevicesTypeOK
<1>3. Registered /\ OwnersKnown
  BY <1>1 DEF Registered, OwnersKnown
<1>4. Carried /\ AuthorizedStays
  BY DEF Carried, AuthorizedStays, NoCall
<1> QED
  BY <1>2, <1>3, <1>4 DEF DevicesInv

(* What no step may do to devices and owners.                              *)
Stay ==
    /\ \A r \in Records : owner[r] \in Clients => owner'[r] = owner[r]
    /\ \A d \in Clients : device[d].token # Null => device'[d].token = device[d].token
    /\ \A d \in Clients, r \in Records :
          device[d].revoked /\ owner'[r] = d => owner[r] = d

(* An upload that the transaction accepts: the device it binds was unbound *)
(* or bound to the same token, the record had no other owner.              *)
LEMMA AcceptedFromDevice ==
    ASSUME DevicesInv, NEW q \in Calls, AcceptFromDevice(q)
    PROVE  DevicesInv' /\ Stay
<1> USE DeviceConstants
<1> DEFINE d == call[q].client
           t == call[q].token
           r == call[q].record
<1>1. d \in Clients /\ t \in Tokens /\ r \in Records /\ call[q].pc = "body"
  BY DEF AcceptFromDevice, DevicesInv, DevicesTypeOK, Carried
<1>2. /\ device' = [device EXCEPT ![d] = [known |-> TRUE, token |-> t, revoked |-> FALSE]]
      /\ owner' = [owner EXCEPT ![r] = d]
      /\ UNCHANGED <<valid, file, minted, gone, calls, commands>>
  BY DEF AcceptFromDevice, Bound
<1>3. /\ device[d].token \in {Null, t} /\ ~device[d].revoked
      /\ owner[r] \in {d, Null, Absent}
  BY <1>1 DEF AcceptFromDevice, Authorized, Claimable, DevicesInv, Registered, Unknown
<1>4. \/ call' = [call EXCEPT ![q].pc = "image"]
      \/ call' = [call EXCEPT ![q] = NoCall]
  BY DEF AcceptFromDevice, Accept, Finish
<1>5. DevicesTypeOK'
  <2>1. /\ device' \in [Clients -> [known : BOOLEAN, token : Tokens \cup {Null}, revoked : BOOLEAN]]
        /\ owner' \in [Records -> Clients \cup {Null, Absent}]
    BY <1>1, <1>2 DEF DevicesInv, DevicesTypeOK
  <2>2. call' \in [Calls -> [pc : {"none", "body", "image"}, kind : Kinds,
                            client : Clients \cup {Null}, token : Tokens \cup {Null},
                            record : Records \cup {Null}]]
    <3>1. CASE call' = [call EXCEPT ![q].pc = "image"]
      BY <3>1 DEF DevicesInv, DevicesTypeOK
    <3>2. CASE call' = [call EXCEPT ![q] = NoCall]
      BY <3>2 DEF DevicesInv, DevicesTypeOK, NoCall, Kinds
    <3> QED
      BY <1>4, <3>1, <3>2
  <2> QED
    BY <1>2, <2>1, <2>2 DEF DevicesInv, DevicesTypeOK, Torn
<1>6. \A p \in Calls : call'[p].pc # "none" =>
          /\ call[p].pc # "none" /\ call'[p].client = call[p].client
          /\ call'[p].token = call[p].token /\ call'[p].record = call[p].record
          /\ p # q => call'[p].pc = call[p].pc
  BY <1>1, <1>4 DEF DevicesInv, DevicesTypeOK, NoCall
<1>7. Registered' /\ Carried' /\ OwnersKnown'
  <2>1. Registered'
    BY <1>1, <1>2 DEF DevicesInv, DevicesTypeOK, Registered, Unknown
  <2>2. Carried'
    BY <1>6 DEF DevicesInv, Carried
  <2>3. OwnersKnown'
    BY <1>1, <1>2 DEF DevicesInv, DevicesTypeOK, OwnersKnown
  <2> QED
    BY <2>1, <2>2, <2>3
<1>8. Stay
  BY <1>1, <1>2, <1>3 DEF Stay, DevicesInv, DevicesTypeOK
<1>9. AuthorizedStays'
  <2> SUFFICES ASSUME NEW p \in Calls, call'[p].pc = "image", call'[p].client # Null
               PROVE  /\ owner'[call'[p].record] = call'[p].client
                      /\ device'[call'[p].client].token = call'[p].token
    BY DEF AuthorizedStays
  <2>1. CASE p = q
    BY <1>1, <1>2, <1>6, <2>1 DEF DevicesInv, DevicesTypeOK
  <2>2. CASE p # q
    <3>1. /\ call[p].pc = "image" /\ call[p].record \in Records
          /\ call[p].client \in Clients /\ call[p].token # Null
      BY <1>6, <2>2 DEF DevicesInv, DevicesTypeOK, Carried
    <3>2. /\ owner[call[p].record] = call[p].client
          /\ device[call[p].client].token = call[p].token
      BY <3>1 DEF DevicesInv, AuthorizedStays
    <3> QED
      BY <1>6, <1>8, <3>1, <3>2 DEF Stay
  <2> QED
    BY <2>1, <2>2
<1> QED
  BY <1>5, <1>7, <1>8, <1>9 DEF DevicesInv

(* The other steps of an upload.                                           *)
LEMMA UploadStep ==
    ASSUME DevicesInv, NEW q \in Calls,
           \/ \E kind \in Kinds, d \in Clients \cup {Null}, t \in valid, r \in Records :
                  Arrive(q, kind, d, t, r)
           \/ AcceptFromNobody(q) \/ Refuse(q) \/ StoreImage(q)
    PROVE  DevicesInv' /\ Stay
<1> USE DeviceConstants DEF DevicesInv
<1>1. CASE \E kind \in Kinds, d \in Clients \cup {Null}, t \in valid, r \in Records :
              Arrive(q, kind, d, t, r)
  <2>1. PICK kind \in Kinds, d \in Clients \cup {Null}, t \in valid, r \in Records :
            Arrive(q, kind, d, t, r)
    BY <1>1
  <2>2. t \in Tokens
    BY DEF DevicesTypeOK
  <2>3. call' = [call EXCEPT ![q] = [pc |-> "body", kind |-> kind, client |-> d,
                                     token |-> t, record |-> r]]
        /\ UNCHANGED <<valid, file, minted, device, owner, gone, commands>>
    BY <2>1 DEF Arrive
  <2>4. DevicesTypeOK'
    <3>1. calls' \in 0 .. MaxCalls
      BY <2>1 DEF Arrive, DevicesTypeOK
    <3> QED
      BY <2>2, <2>3, <3>1 DEF DevicesTypeOK
  <2>5. Registered' /\ OwnersKnown' /\ Carried' /\ AuthorizedStays'
    BY <2>2, <2>3 DEF DevicesTypeOK, Registered, OwnersKnown, Carried, AuthorizedStays
  <2>6. Stay
    BY <2>3 DEF Stay
  <2> QED
    BY <2>4, <2>5, <2>6
<1>2. CASE AcceptFromNobody(q)
  <2> DEFINE r == call[q].record
  <2>1. /\ r \in Records /\ call[q].client = Null /\ call[q].pc = "body"
        /\ owner[r] \in {Null, Absent} /\ owner' = [owner EXCEPT ![r] = Null]
        /\ UNCHANGED <<valid, file, minted, device, gone, calls, commands>>
        /\ call' = [call EXCEPT ![q].pc = "image"] \/ call' = [call EXCEPT ![q] = NoCall]
    BY <1>2 DEF AcceptFromNobody, Carried, Accept, Finish
  <2>2. DevicesTypeOK'
    BY <2>1 DEF DevicesTypeOK, NoCall, Kinds
  <2>3. Registered' /\ OwnersKnown' /\ Carried' /\ Stay
    BY <2>1 DEF DevicesTypeOK, Registered, OwnersKnown, Carried, Stay, NoCall
  <2>4. AuthorizedStays'
    <3> SUFFICES ASSUME NEW p \in Calls, call'[p].pc = "image", call'[p].client # Null
                 PROVE  /\ owner'[call'[p].record] = call'[p].client
                        /\ device'[call'[p].client].token = call'[p].token
      BY DEF AuthorizedStays
    <3>1. p # q /\ call'[p] = call[p]
      BY <2>1 DEF DevicesTypeOK, NoCall
    <3>2. owner[call[p].record] = call[p].client /\ call[p].client \in Clients
          /\ call[p].record \in Records /\ device[call[p].client].token = call[p].token
      BY <3>1 DEF AuthorizedStays, DevicesTypeOK, Carried
    <3> QED
      BY <2>1, <3>1, <3>2 DEF DevicesTypeOK
  <2> QED
    BY <2>2, <2>3, <2>4
<1>3. CASE Refuse(q) \/ StoreImage(q)
  <2>1. call' = [call EXCEPT ![q] = NoCall]
        /\ UNCHANGED <<valid, file, minted, device, owner, gone, calls, commands>>
    BY <1>3 DEF Refuse, StoreImage, Finish
  <2>2. DevicesTypeOK'
    BY <2>1 DEF DevicesTypeOK, NoCall, Kinds
  <2>3. Registered' /\ OwnersKnown' /\ Carried' /\ AuthorizedStays' /\ Stay
    BY <2>1 DEF DevicesTypeOK, Registered, OwnersKnown, Carried, AuthorizedStays, Stay, NoCall
  <2> QED
    BY <2>2, <2>3
<1> QED
  BY <1>1, <1>2, <1>3

-----------------------------------------------------------------------------
(* The administrator and a restart.                                        *)
LEMMA AdminStep ==
    ASSUME DevicesInv,
           \/ \E d \in Clients : RevokeDevice(d)
           \/ \E t \in Tokens : AddToken(t) \/ RevokeToken(t) \/ CliAddToken(t)
                               \/ CliRevokeToken(t)
           \/ RestartServer \/ RemoveTornFile \/ UNCHANGED deviceVars
    PROVE  DevicesInv' /\ Stay
<1> USE DeviceConstants DEF DevicesInv
<1>1. ASSUME NEW d \in Clients, RevokeDevice(d)
      PROVE  DevicesInv' /\ Stay
  <2>1. /\ device[d].known /\ device' = [device EXCEPT ![d].revoked = TRUE]
        /\ UNCHANGED <<valid, file, minted, owner, call, gone, calls>>
        /\ commands' \in 0 .. MaxAdmin
    BY <1>1 DEF RevokeDevice, Command, DevicesTypeOK
  <2>2. DevicesTypeOK'
    <3>1. device \in [Clients -> [known : BOOLEAN, token : Tokens \cup {Null}, revoked : BOOLEAN]]
      BY DEF DevicesTypeOK
    <3>2. [device[d] EXCEPT !.revoked = TRUE] \in
              [known : BOOLEAN, token : Tokens \cup {Null}, revoked : BOOLEAN]
      BY <3>1
    <3>3. device' \in [Clients -> [known : BOOLEAN, token : Tokens \cup {Null}, revoked : BOOLEAN]]
      BY <2>1, <3>1, <3>2
    <3>4. /\ valid' \subseteq minted' /\ minted' \subseteq Tokens /\ gone' \subseteq minted'
          /\ file' \subseteq minted' \/ file' = Torn'
      BY <2>1 DEF DevicesTypeOK, Torn
    <3>5. /\ owner' \in [Records -> Clients \cup {Null, Absent}]
          /\ call' \in [Calls -> [pc : {"none", "body", "image"}, kind : Kinds,
                                  client : Clients \cup {Null}, token : Tokens \cup {Null},
                                  record : Records \cup {Null}]]
          /\ calls' \in 0 .. MaxCalls
      BY <2>1 DEF DevicesTypeOK
    <3> QED
      BY <2>1, <3>3, <3>4, <3>5 DEF DevicesTypeOK
  <2>3. \A e \in Clients : device'[e].token = device[e].token
                           /\ device'[e].known = device[e].known
                           /\ e # d => device'[e] = device[e]
    BY <2>1 DEF DevicesTypeOK
  <2>4. Registered' /\ OwnersKnown' /\ Carried' /\ AuthorizedStays' /\ Stay
    BY <2>1, <2>3 DEF DevicesTypeOK, Registered, OwnersKnown, Carried, AuthorizedStays, Stay
  <2> QED
    BY <2>2, <2>4
<1>2. ASSUME NEW t \in Tokens, AddToken(t) \/ RevokeToken(t) \/ CliAddToken(t)
                               \/ CliRevokeToken(t)
      PROVE  DevicesInv' /\ Stay
  <2>1. UNCHANGED <<device, owner, call, calls>> /\ commands' \in 0 .. MaxAdmin
    BY <1>2 DEF AddToken, RevokeToken, CliAddToken, CliRevokeToken, Command, DevicesTypeOK
  <2>2. /\ valid' \subseteq minted' /\ minted' \subseteq Tokens /\ minted \subseteq minted'
        /\ gone' \subseteq minted'
    <3>1. t \in file => file \subseteq minted
      BY DEF DevicesTypeOK, Torn
    <3> QED
      BY <1>2, <3>1 DEF AddToken, RevokeToken, CliAddToken, CliRevokeToken, DevicesTypeOK
  <2>5. file' \subseteq minted' \/ file' = Torn'
    <3>1. Torn' = Torn
      BY DEF Torn
    <3>2. CASE AddToken(t) \/ RevokeToken(t)
      BY <2>2, <3>1, <3>2 DEF AddToken, RevokeToken, Persist, DevicesTypeOK
    <3>3. CASE CliAddToken(t)
      <4>1. file \subseteq minted /\ t \in minted' /\ file' \in {file \cup {t}, file, Torn}
        BY <3>3 DEF CliAddToken, Persist, DevicesTypeOK
      <4> QED
        BY <2>2, <3>1, <4>1
    <3>4. CASE CliRevokeToken(t)
      <4>1. file' \in {file \ {t}, file, Torn} /\ t \in file /\ t # Null
        BY <3>4 DEF CliRevokeToken, Persist
      <4>2. file \subseteq minted
        BY <4>1 DEF DevicesTypeOK, Torn
      <4> QED
        BY <2>2, <3>1, <4>1, <4>2
    <3> QED
      BY <1>2, <3>2, <3>3, <3>4
  <2>3. DevicesTypeOK'
    BY <2>1, <2>2, <2>5 DEF DevicesTypeOK
  <2>4. Registered' /\ OwnersKnown' /\ Carried' /\ AuthorizedStays' /\ Stay
    BY <2>1 DEF Registered, OwnersKnown, Carried, AuthorizedStays, Stay
  <2> QED
    BY <2>3, <2>4
<1>3. CASE RestartServer
  <2>1. UNCHANGED <<device, owner, gone, calls, commands>>
        /\ call' = [q \in Calls |-> NoCall]
        /\ valid' \subseteq minted' /\ file' \subseteq minted' /\ minted \subseteq minted'
        /\ minted' \subseteq Tokens
    BY <1>3 DEF RestartServer, DevicesTypeOK
  <2>2. DevicesTypeOK'
    <3>1. call' \in [Calls -> [pc : {"none", "body", "image"}, kind : Kinds,
                              client : Clients \cup {Null}, token : Tokens \cup {Null},
                              record : Records \cup {Null}]]
      BY <2>1 DEF NoCall, Kinds
    <3> QED
      BY <2>1, <3>1 DEF DevicesTypeOK
  <2>3. Registered' /\ OwnersKnown' /\ Carried' /\ AuthorizedStays' /\ Stay
    BY <2>1 DEF Registered, OwnersKnown, Carried, AuthorizedStays, Stay, NoCall
  <2> QED
    BY <2>2, <2>3
<1>4. CASE UNCHANGED deviceVars
  BY <1>4 DEF deviceVars, DevicesTypeOK, Registered, OwnersKnown, Carried, AuthorizedStays, Stay
<1>5. CASE RemoveTornFile
  <2>1. UNCHANGED <<valid, minted, device, owner, call, gone, calls>> /\ file' = {}
        /\ commands' \in 0 .. MaxAdmin
    BY <1>5 DEF RemoveTornFile, Command, DevicesTypeOK
  <2>2. DevicesTypeOK'
    BY <2>1 DEF DevicesTypeOK
  <2>3. Registered' /\ OwnersKnown' /\ Carried' /\ AuthorizedStays' /\ Stay
    BY <2>1 DEF Registered, OwnersKnown, Carried, AuthorizedStays, Stay
  <2> QED
    BY <2>2, <2>3
<1> QED
  BY <1>1, <1>2, <1>3, <1>4, <1>5

LEMMA DevicesStepInv ==
    ASSUME DevicesInv, [DevicesNext]_deviceVars
    PROVE  DevicesInv' /\ Stay
<1>1. ASSUME NEW q \in Calls,
             \/ \E kind \in Kinds, d \in Clients \cup {Null}, t \in valid, r \in Records :
                    Arrive(q, kind, d, t, r)
             \/ AcceptFromDevice(q) \/ AcceptFromNobody(q) \/ Refuse(q) \/ StoreImage(q)
      PROVE  DevicesInv' /\ Stay
  BY <1>1, AcceptedFromDevice, UploadStep
<1> QED
  BY <1>1, AdminStep DEF DevicesNext

LEMMA DevicesInvariant == DevicesSpec => []DevicesInv
<1>1. DevicesInit => DevicesInv
  BY DevicesInitInv
<1>2. DevicesInv /\ [DevicesNext]_deviceVars => DevicesInv'
  BY DevicesStepInv
<1> QED
  BY <1>1, <1>2, PTL DEF DevicesSpec

(* What an upload was authorized for still holds in its later sections     *)
(* (ingest_record after ingest_device_or_get_record).                      *)
THEOREM UploadsStayAuthorized == DevicesSpec => []AuthorizedStays
<1>1. DevicesInv => AuthorizedStays
  BY DEF DevicesInv
<1> QED
  BY <1>1, DevicesInvariant, PTL

(* Owners and bindings never change, and a revoked device gets no further  *)
(* record (_validate_or_register_device_locked, close_device_record).      *)
THEOREM OwnersNeverChange == DevicesSpec => OwnersStay
<1>1. ASSUME DevicesInv, [DevicesNext]_deviceVars
      PROVE  [/\ \A r \in Records : owner[r] \in Clients => owner'[r] = owner[r]
              /\ \A d \in Clients : device[d].token # Null => device'[d].token = device[d].token
              /\ \A d \in Clients, r \in Records :
                    device[d].revoked /\ owner'[r] = d => owner[r] = d]_deviceVars
  BY <1>1, DevicesStepInv DEF Stay
<1> QED
  BY <1>1, DevicesInvariant, PTL DEF DevicesSpec, OwnersStay

(* Every owner is a registered device, and the types hold.                 *)
THEOREM OwnersAreRegistered == DevicesSpec => [](DevicesTypeOK /\ OwnersKnown)
<1>1. DevicesInv => DevicesTypeOK /\ OwnersKnown
  BY DEF DevicesInv
<1> QED
  BY <1>1, DevicesInvariant, PTL

-----------------------------------------------------------------------------
(* Logins.  A login that verified an older password is marked, and whoever *)
(* changes the password has a session.                                     *)
LoginsInv ==
    /\ SessionsTypeOK
    /\ \A l \in Logins : login[l].pc = "insert" => login[l].pw = password \/ login[l].late
    /\ \A c \in Changers : change[c].pc # "idle" => change[c].keep \in 1 .. made
    /\ KickedUnlessSpared

LEMMA SessionConstants ==
    /\ IsFiniteSet(Logins) /\ IpOf \in [Logins -> Ips]
    /\ Threshold \in Nat /\ Threshold > 0 /\ Cap \in Nat
BY SessionsAssumption DEF SessionsAssumption

LEMMA AtIsFinite ==
    ASSUME NEW pc
    PROVE  Cardinality(At(pc)) \in Nat
<1>1. At(pc) \in SUBSET Logins
  BY DEF At
<1> QED
  BY <1>1, SessionConstants, FS_Subset, FS_CardinalityType

LEMMA LoginsInitInv == SessionsInit => LoginsInv
<1> SUFFICES ASSUME SessionsInit PROVE LoginsInv
  OBVIOUS
<1>1. NoLogin \in [pc : {"idle", "check", "insert", "prune"}, pw : 0 .. password, late : BOOLEAN]
      /\ NoChange \in [pc : {"idle", "verify", "update", "kick"}, keep : 0 .. made]
  BY DEF SessionsInit, NoLogin, NoChange
<1>2. SessionsTypeOK
  BY <1>1 DEF SessionsInit, SessionsTypeOK
<1> QED
  BY <1>2 DEF SessionsInit, LoginsInv, KickedUnlessSpared, NoLogin, NoChange

LEMMA LoginStep ==
    ASSUME LoginsInv, NEW l \in Logins,
           CheckLimit(l) \/ WrongPassword(l) \/ RightPassword(l)
           \/ InsertSession(l) \/ PruneSessions(l)
    PROVE  LoginsInv'
<1> USE DEF LoginsInv, SessionsTypeOK
<1>0. IpOf[l] \in Ips
  BY SessionConstants
<1>1. CASE CheckLimit(l)
  BY <1>1 DEF CheckLimit, KickedUnlessSpared
<1>2. CASE WrongPassword(l) \/ RightPassword(l)
  <2>1. CASE WrongPassword(l)
    BY <1>0, <2>1 DEF WrongPassword, KickedUnlessSpared, NoLogin
  <2>2. CASE RightPassword(l)
    BY <1>0, <2>2 DEF RightPassword, KickedUnlessSpared
  <2> QED
    BY <1>2, <2>1, <2>2
<1>3. CASE InsertSession(l)
  <2> DEFINE s == [id |-> made + 1, pw |-> login[l].pw, late |-> login[l].late]
  <2>1. /\ login[l].pc = "insert" /\ made' = made + 1 /\ sessions' = sessions \cup {s}
        /\ login' = [login EXCEPT ![l].pc = "prune"]
        /\ UNCHANGED <<password, change, fails, spared, unpruned, restarts>>
    BY <1>3 DEF InsertSession
  <2>2. /\ s \in [id : 1 .. made', pw : 0 .. password, late : BOOLEAN]
        /\ 0 .. made \subseteq 0 .. made' /\ 1 .. made \subseteq 1 .. made'
    BY <2>1
  <2>3. SessionsTypeOK'
    <3>1. sessions' \in SUBSET [id : 1 .. made', pw : 0 .. password', late : BOOLEAN]
      BY <2>1, <2>2
    <3>2. change' \in [Changers -> [pc : {"idle", "verify", "update", "kick"}, keep : 0 .. made']]
      BY <2>1, <2>2
    <3> QED
      BY <2>1, <2>2, <3>1, <3>2
  <2>4. KickedUnlessSpared'
    BY <2>1 DEF KickedUnlessSpared
  <2> QED
    BY <2>1, <2>2, <2>3, <2>4
<1>4. CASE PruneSessions(l)
  BY <1>4 DEF PruneSessions, Pruned, KickedUnlessSpared, NoLogin
<1> QED
  BY <1>1, <1>2, <1>3, <1>4

LEMMA ChangeStep ==
    ASSUME LoginsInv, NEW c \in Changers,
           \/ \E s \in sessions : StartChange(c, s)
           \/ RefuseChange(c) \/ VerifyOld(c) \/ UpdatePassword(c) \/ KickOthers(c)
    PROVE  LoginsInv'
<1> USE DEF LoginsInv, SessionsTypeOK
<1>1. ASSUME NEW s \in sessions, StartChange(c, s)
      PROVE  LoginsInv'
  BY <1>1 DEF StartChange, KickedUnlessSpared
<1>2. CASE RefuseChange(c) \/ VerifyOld(c)
  BY <1>2 DEF RefuseChange, VerifyOld, KickedUnlessSpared, NoChange
<1>3. CASE UpdatePassword(c)
  <2>1. /\ change[c].pc = "update" /\ password' = password + 1
        /\ change' = [change EXCEPT ![c].pc = "kick"]
        /\ login' = [l \in Logins |-> IF login[l].pc = "insert"
                                      THEN [login[l] EXCEPT !.late = TRUE] ELSE login[l]]
        /\ UNCHANGED <<sessions, made, fails, spared, unpruned, restarts>>
    BY <1>3 DEF UpdatePassword
  <2>2. 0 .. password \subseteq 0 .. password'
    BY <2>1
  <2>3. SessionsTypeOK'
    <3>1. sessions' \in SUBSET [id : 1 .. made', pw : 0 .. password', late : BOOLEAN]
      BY <2>1, <2>2
    <3>2. ASSUME NEW l \in Logins
          PROVE  /\ login[l] \in [pc : {"idle", "check", "insert", "prune"},
                                  pw : 0 .. password', late : BOOLEAN]
                 /\ [login[l] EXCEPT !.late = TRUE]
                        \in [pc : {"idle", "check", "insert", "prune"},
                            pw : 0 .. password', late : BOOLEAN]
      <4>1. login[l] \in [pc : {"idle", "check", "insert", "prune"},
                          pw : 0 .. password, late : BOOLEAN]
        OBVIOUS
      <4> QED
        BY <2>2, <4>1
    <3>3. login' \in [Logins -> [pc : {"idle", "check", "insert", "prune"},
                                pw : 0 .. password', late : BOOLEAN]]
      BY <2>1, <3>2
    <3> QED
      BY <2>1, <3>1, <3>3
  <2>4. \A l \in Logins : login'[l].pc = "insert" => login'[l].late
    BY <2>1
  <2>5. KickedUnlessSpared'
    BY <2>1 DEF KickedUnlessSpared
  <2>6. \A d \in Changers : change'[d].pc # "idle" => change'[d].keep \in 1 .. made'
    BY <2>1
  <2> QED
    BY <2>3, <2>4, <2>5, <2>6
<1>4. CASE KickOthers(c)
  <2>1. /\ change[c].keep \in 1 .. made
        /\ sessions' = {s \in sessions : s.id = change[c].keep}
        /\ spared' = spared \cup {change[c].keep}
        /\ change' = [change EXCEPT ![c] = NoChange]
        /\ UNCHANGED <<password, made, login, fails, unpruned, restarts>>
    BY <1>4 DEF KickOthers
  <2>2. SessionsTypeOK'
    <3>1. sessions' \subseteq sessions /\ spared' \subseteq 1 .. made
      BY <2>1
    <3>2. change' \in [Changers -> [pc : {"idle", "verify", "update", "kick"}, keep : 0 .. made]]
      BY <2>1 DEF NoChange
    <3> QED
      BY <2>1, <3>1, <3>2
  <2>3. KickedUnlessSpared'
    BY <2>1 DEF KickedUnlessSpared
  <2>4. \A d \in Changers : change'[d].pc # "idle" => change'[d].keep \in 1 .. made'
    BY <2>1 DEF NoChange
  <2> QED
    BY <2>1, <2>2, <2>3, <2>4
<1> QED
  BY <1>1, <1>2, <1>3, <1>4

LEMMA SessionsStepInv ==
    ASSUME LoginsInv, [SessionsNext]_sessionVars
    PROVE  LoginsInv'
<1> USE DEF LoginsInv, SessionsTypeOK
<1>1. ASSUME NEW i \in Ips, FailureAges(i)
      PROVE  LoginsInv'
  BY <1>1 DEF FailureAges, KickedUnlessSpared
<1>2. ASSUME NEW s \in sessions, EndSession(s)
      PROVE  LoginsInv'
  BY <1>2 DEF EndSession, KickedUnlessSpared
<1>3. CASE Restart
  <2>1. /\ login' = [l \in Logins |-> NoLogin] /\ change' = [c \in Changers |-> NoChange]
        /\ fails' = [i \in Ips |-> 0]
        /\ UNCHANGED <<password, sessions, made>>
    BY <1>3 DEF Restart
  <2>2. \A s \in sessions : s.id \in 1 .. made
    <3>1. sessions \subseteq [id : 1 .. made, pw : 0 .. password, late : BOOLEAN]
      OBVIOUS
    <3> QED
      BY <3>1
  <2>3. spared' \subseteq 1 .. made /\ spared \subseteq spared'
    <3>1. Ids(sessions) \subseteq 1 .. made
      BY <2>2 DEF Ids
    <3>2. spared' \in {spared, spared \cup Ids(sessions)}
      BY <1>3 DEF Restart
    <3> QED
      BY <3>1, <3>2
  <2>4. unpruned' \in Nat /\ restarts' \in Nat
    BY <1>3, AtIsFinite DEF Restart
  <2>5. SessionsTypeOK'
    BY <2>1, <2>3, <2>4 DEF NoLogin, NoChange
  <2>6. KickedUnlessSpared'
    <3>1. CASE \E c \in Changers : change[c].pc = "kick"
      BY <1>3, <2>1, <3>1 DEF Restart, Ids, KickedUnlessSpared
    <3>2. CASE ~(\E c \in Changers : change[c].pc = "kick")
      BY <2>1, <2>3, <3>2 DEF KickedUnlessSpared
    <3> QED
      BY <3>1, <3>2
  <2> QED
    BY <2>1, <2>5, <2>6 DEF NoLogin, NoChange
<1>4. CASE UNCHANGED sessionVars
  BY <1>4 DEF sessionVars, KickedUnlessSpared
<1> QED
  BY <1>1, <1>2, <1>3, <1>4, LoginStep, ChangeStep DEF SessionsNext

LEMMA SessionsInvariant == SessionsSpec => []LoginsInv
<1>1. SessionsInit => LoginsInv
  BY LoginsInitInv
<1>2. LoginsInv /\ [SessionsNext]_sessionVars => LoginsInv'
  BY SessionsStepInv
<1> QED
  BY <1>1, <1>2, PTL DEF SessionsSpec

(* A password change kicks every session that does not know it, but for    *)
(* those of late logins and of changes (change_password,                   *)
(* delete_sessions_except).                                                *)
THEOREM OthersAreKicked == SessionsSpec => []KickedUnlessSpared
<1>1. LoginsInv => KickedUnlessSpared
  BY DEF LoginsInv
<1> QED
  BY <1>1, SessionsInvariant, PTL

-----------------------------------------------------------------------------
(* The logins of an address that passed the check and count no failure yet *)
Verifying(i) == At("check") \cap From(i)

LEMMA VerifyingCount ==
    ASSUME NEW i \in Ips
    PROVE  /\ IsFiniteSet(Verifying(i)) /\ Cardinality(Verifying(i)) \in Nat
           /\ Cardinality(From(i)) \in Nat
           /\ Cardinality(Verifying(i)) <= Cardinality(From(i))
<1>1. From(i) \in SUBSET Logins /\ Verifying(i) \in SUBSET From(i)
  BY DEF From, Verifying
<1>2. IsFiniteSet(From(i)) /\ Cardinality(From(i)) \in Nat
  BY <1>1, SessionConstants, FS_Subset, FS_CardinalityType
<1> QED
  BY <1>1, <1>2, FS_Subset, FS_CardinalityType

LEMMA StepLimited ==
    ASSUME SessionsTypeOK, SessionsTypeOK', AttemptsLimited, [SessionsNext]_sessionVars
    PROVE  AttemptsLimited'
<1> SUFFICES ASSUME NEW i \in Ips
             PROVE  fails'[i] + Cardinality(Verifying(i)')
                        <= Threshold - 1 + Cardinality(From(i))
  BY DEF AttemptsLimited, Verifying, From
<1>1. /\ IsFiniteSet(Verifying(i)) /\ Cardinality(Verifying(i)) \in Nat
      /\ Cardinality(From(i)) \in Nat /\ Cardinality(Verifying(i)) <= Cardinality(From(i))
  BY VerifyingCount
<1>2. Cardinality(Verifying(i)') \in Nat /\ Cardinality(Verifying(i)') <= Cardinality(From(i))
  <2>1. Verifying(i)' \in SUBSET From(i) /\ From(i) \in SUBSET Logins
    BY DEF Verifying, From
  <2> QED
    BY <2>1, SessionConstants, FS_Subset, FS_CardinalityType
<1>3. fails[i] + Cardinality(Verifying(i)) <= Threshold - 1 + Cardinality(From(i))
  BY DEF AttemptsLimited, Verifying
<1>4. fails[i] \in Nat /\ fails'[i] \in Nat /\ Threshold \in Nat /\ Threshold > 0
  BY SessionConstants DEF SessionsTypeOK
<1>5. ASSUME NEW l \in Logins, CheckLimit(l)
      PROVE  fails'[i] + Cardinality(Verifying(i)') <= Threshold - 1 + Cardinality(From(i))
  <2>1. CASE IpOf[l] = i
    <3>1. fails'[i] <= Threshold - 1
      BY <1>4, <1>5, <2>1 DEF CheckLimit
    <3> QED
      BY <1>1, <1>2, <1>4, <3>1
  <2>2. CASE IpOf[l] # i
    <3>1. Verifying(i)' = Verifying(i) /\ fails'[i] = fails[i]
      BY <1>5, <2>2 DEF CheckLimit, Verifying, At, From, SessionsTypeOK
    <3> QED
      BY <1>3, <3>1
  <2> QED
    BY <2>1, <2>2
<1>6. ASSUME NEW l \in Logins, WrongPassword(l)
      PROVE  fails'[i] + Cardinality(Verifying(i)') <= Threshold - 1 + Cardinality(From(i))
  <2>1. CASE IpOf[l] = i
    <3>1. Verifying(i)' = Verifying(i) \ {l} /\ l \in Verifying(i)
      BY <1>6, <2>1 DEF WrongPassword, Verifying, At, From, SessionsTypeOK, NoLogin
    <3>2. fails'[i] = fails[i] + 1
      BY <1>6, <2>1 DEF WrongPassword, SessionsTypeOK
    <3>3. Cardinality(Verifying(i)') = Cardinality(Verifying(i)) - 1
      BY <1>1, <3>1, FS_RemoveElement
    <3> QED
      BY <1>1, <1>3, <1>4, <3>2, <3>3
  <2>2. CASE IpOf[l] # i
    <3>1. Verifying(i)' = Verifying(i) /\ fails'[i] = fails[i]
      BY <1>6, <2>2 DEF WrongPassword, Verifying, At, From, SessionsTypeOK, NoLogin
    <3> QED
      BY <1>3, <3>1
  <2> QED
    BY <2>1, <2>2
<1>7. ASSUME NEW l \in Logins, RightPassword(l)
      PROVE  fails'[i] + Cardinality(Verifying(i)') <= Threshold - 1 + Cardinality(From(i))
  <2>1. CASE IpOf[l] = i
    <3>1. fails'[i] = 0
      BY <1>7, <2>1 DEF RightPassword, SessionsTypeOK
    <3> QED
      BY <1>1, <1>2, <1>4, <3>1
  <2>2. CASE IpOf[l] # i
    <3>1. Verifying(i)' = Verifying(i) /\ fails'[i] = fails[i]
      BY <1>7, <2>2 DEF RightPassword, Verifying, At, From, SessionsTypeOK
    <3> QED
      BY <1>3, <3>1
  <2> QED
    BY <2>1, <2>2
<1>8. ASSUME NEW l \in Logins, InsertSession(l) \/ PruneSessions(l)
      PROVE  fails'[i] + Cardinality(Verifying(i)') <= Threshold - 1 + Cardinality(From(i))
  <2>1. Verifying(i)' = Verifying(i) /\ fails'[i] = fails[i]
    BY <1>8 DEF InsertSession, PruneSessions, Verifying, At, From, SessionsTypeOK, NoLogin
  <2> QED
    BY <1>3, <2>1
<1>9. ASSUME NEW c \in Changers, UpdatePassword(c)
      PROVE  fails'[i] + Cardinality(Verifying(i)') <= Threshold - 1 + Cardinality(From(i))
  <2>1. Verifying(i)' = Verifying(i) /\ fails'[i] = fails[i]
    BY <1>9 DEF UpdatePassword, Verifying, At, From, SessionsTypeOK
  <2> QED
    BY <1>3, <2>1
<1>10. ASSUME NEW j \in Ips, FailureAges(j)
       PROVE  fails'[i] + Cardinality(Verifying(i)') <= Threshold - 1 + Cardinality(From(i))
  <2>1. Verifying(i)' = Verifying(i) /\ fails'[i] <= fails[i]
    BY <1>4, <1>10 DEF FailureAges, Verifying, At, From, SessionsTypeOK
  <2> QED
    BY <1>1, <1>3, <1>4, <2>1
<1>11. CASE Restart
  <2>1. fails'[i] = 0
    BY <1>11 DEF Restart
  <2> QED
    BY <1>1, <1>2, <1>4, <2>1
<1>12. ASSUME UNCHANGED <<login, fails>>
       PROVE  fails'[i] + Cardinality(Verifying(i)') <= Threshold - 1 + Cardinality(From(i))
  <2>1. Verifying(i)' = Verifying(i) /\ fails'[i] = fails[i]
    BY <1>12 DEF Verifying, At, From
  <2> QED
    BY <1>3, <2>1
<1>13. ASSUME \/ \E s \in sessions : EndSession(s)
              \/ \E c \in Changers : \/ \E s \in sessions : StartChange(c, s)
                                     \/ RefuseChange(c) \/ VerifyOld(c) \/ KickOthers(c)
              \/ UNCHANGED sessionVars
       PROVE  UNCHANGED <<login, fails>>
  BY <1>13 DEF EndSession, StartChange, RefuseChange, VerifyOld, KickOthers, sessionVars
<1> QED
  BY <1>5, <1>6, <1>7, <1>8, <1>9, <1>10, <1>11, <1>12, <1>13 DEF SessionsNext

(* An address is let fail at most as often as the limiter says, plus once  *)
(* for each of its logins that were verifying at the same time             *)
(* (_LoginRateLimiter, authenticate).                                      *)
THEOREM LimiterLimits == SessionsSpec => []AttemptsLimited
<1>1. SessionsInit => AttemptsLimited
  <2> SUFFICES ASSUME SessionsInit, NEW i \in Ips
               PROVE  fails[i] + Cardinality(Verifying(i)) <= Threshold - 1 + Cardinality(From(i))
    BY DEF AttemptsLimited, Verifying
  <2>1. fails[i] = 0
    BY DEF SessionsInit
  <2> QED
    BY <2>1, VerifyingCount, SessionConstants
<1>2. LoginsInv => SessionsTypeOK
  BY DEF LoginsInv
<1>3. SessionsTypeOK /\ SessionsTypeOK' /\ AttemptsLimited /\ [SessionsNext]_sessionVars
      => AttemptsLimited'
  BY StepLimited
<1> QED
  BY <1>1, <1>2, <1>3, SessionsInvariant, PTL DEF SessionsSpec
=============================================================================
