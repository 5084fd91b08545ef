------------------------------- MODULE Devices -------------------------------
(***************************************************************************)
(* Which uploads the server accepts: the bearer tokens in memory and in    *)
(* tokens.json, the table devices with the token each device is bound to,  *)
(* and the owner in each row of records.  An upload is checked against the *)
(* tokens when it arrives, authorized and recorded in one transaction      *)
(* after its body has been read, and then adds its image, the queue row    *)
(* and the device's presentation in further sections.  Meanwhile other     *)
(* uploads arrive and the administrator revokes devices and tokens, with   *)
(* the Web UI or with the command line beside the running server.          *)
(***************************************************************************)
EXTENDS Integers, FiniteSets

CONSTANTS Clients,    \* X-Device-Id values
          Tokens,     \* token values, each minted once
          Records,    \* client_record_id values
          Calls,      \* uploads that may be under way at once
          Null,       \* no token, no device
          Absent,     \* a record that was not delivered yet
          MaxCalls,   \* bound: uploads
          MaxAdmin    \* bound: administrative commands and restarts

ASSUME DevicesAssumption ==
    /\ Null \notin Clients \cup Tokens /\ Absent \notin Clients \cup {Null}
    /\ Tokens # {} /\ IsFiniteSet(Tokens)
    /\ MaxCalls \in Nat /\ MaxAdmin \in Nat

VARIABLES valid,  \* ServerAuth._token_set
          file,   \* tokens.json
          minted, \* tokens minted so far
          device, \* table devices
          owner,  \* records.device_id
          call,   \* the uploads under way
          gone,   \* history: tokens whose revocation was reported as done
          calls, commands

deviceVars == <<valid, file, minted, device, owner, call, gone, calls, commands>>

Unknown == [known |-> FALSE, token |-> Null, revoked |-> FALSE]
NoCall == [pc |-> "none", kind |-> "ingest", client |-> Null, token |-> Null,
           record |-> Null]
Torn == {Null}  \* tokens.json, cut off while it was written
Kinds == {"ingest", "closeByClientId", "closeByServerId"}

(* A database may be older than devices, or than their tokens.             *)
DevicesInit ==
    /\ \E t \in Tokens : valid = {t} /\ minted = {t}
    /\ file = valid
    /\ device \in [Clients -> {Unknown, [Unknown EXCEPT !.known = TRUE]}]
    /\ owner \in [Records -> {Absent, Null} \cup {d \in Clients : device[d].known}]
    /\ call = [q \in Calls |-> NoCall]
    /\ gone = {} /\ calls = 0 /\ commands = 0

-----------------------------------------------------------------------------
(* Mistakes: AuthorizedRebinds and ClaimableAny each stand in for the      *)
(* definition that follows; a property below must notice.                  *)
AuthorizedRebinds(d, t) == ~device[d].revoked

(* _validate_or_register_device_locked: first use registers, the first     *)
(* token binds, another token or a revocation refuses.                     *)
Authorized(d, t) ==
    ~device[d].known \/ (~device[d].revoked /\ device[d].token \in {Null, t})

Bound(d, t) == [device EXCEPT ![d] = [known |-> TRUE, token |-> t, revoked |-> FALSE]]

ClaimableAny(c) == owner[c.record] # Absent

(* Which records an upload may write: its device's own, or one without an  *)
(* owner, which it names by its own id for it.                             *)
Claimable(c) ==
    \/ owner[c.record] = c.client
    \/ owner[c.record] = Null /\ c.kind # "closeByServerId"

Accept(q) == call' = [call EXCEPT ![q].pc = "image"]
Finish(q) == call' = [call EXCEPT ![q] = NoCall]

(* The bearer check of the ingest routes                                   *)
Arrive(q, kind, d, t, r) ==
    /\ call[q].pc = "none" /\ calls < MaxCalls /\ calls' = calls + 1
    /\ t \in valid
    /\ call' = [call EXCEPT ![q] = [pc |-> "body", kind |-> kind, client |-> d,
                                    token |-> t, record |-> r]]
    /\ UNCHANGED <<valid, file, minted, device, owner, gone, commands>>

(* ingest_device_or_get_record and close_device_record: one transaction    *)
AcceptFromDevice(q) ==
    LET c == call[q] IN
    /\ c.pc = "body" /\ c.client # Null /\ Authorized(c.client, c.token)
    /\ Claimable(c) \/ (c.kind = "ingest" /\ owner[c.record] = Absent)
    /\ device' = Bound(c.client, c.token)
    /\ owner' = [owner EXCEPT ![c.record] = c.client]
    /\ IF c.kind = "ingest" THEN Accept(q) ELSE Finish(q)
    /\ UNCHANGED <<valid, file, minted, gone, calls, commands>>

(* ingest_or_get_record, and closing, without X-Device-Id                  *)
AcceptFromNobody(q) ==
    LET c == call[q] IN
    /\ c.pc = "body" /\ c.client = Null
    /\ owner[c.record] = Null \/ (c.kind = "ingest" /\ owner[c.record] = Absent)
    /\ owner' = [owner EXCEPT ![c.record] = Null]
    /\ IF c.kind = "ingest" THEN Accept(q) ELSE Finish(q)
    /\ UNCHANGED <<valid, file, minted, device, gone, calls, commands>>

(* 403, 404 or 409, with the transaction rolled back                       *)
Refuse(q) ==
    LET c == call[q]
        writable == \/ c.kind = "ingest" /\ owner[c.record] = Absent
                    \/ IF c.client = Null THEN owner[c.record] = Null ELSE Claimable(c)
    IN
    /\ c.pc = "body"
    /\ ~writable \/ (c.client # Null /\ ~Authorized(c.client, c.token))
    /\ Finish(q)
    /\ UNCHANGED <<valid, file, minted, device, owner, gone, calls, commands>>

(* insert_screenshot, mark_pending and touch_device                        *)
StoreImage(q) ==
    /\ call[q].pc = "image" /\ Finish(q)
    /\ UNCHANGED <<valid, file, minted, device, owner, gone, calls, commands>>

-----------------------------------------------------------------------------
Command == commands < MaxAdmin /\ commands' = commands + 1

(* set_device_revoked                                                      *)
RevokeDevice(d) ==
    /\ Command /\ device[d].known
    /\ device' = [device EXCEPT ![d].revoked = TRUE]
    /\ UNCHANGED <<valid, file, minted, owner, call, gone, calls>>

(* write_tokens truncates the file before it fills it: a write may be done,*)
(* fail before the file is touched, or leave it torn.                      *)
Persist(tokens) == file' \in {tokens, file, Torn}

(* The Web UI changes memory, then writes memory to the file; a write that *)
(* fails makes an error of a request that has changed memory.              *)

AddToken(t) ==
    /\ Command /\ t \notin minted /\ minted' = minted \cup {t}
    /\ valid' = valid \cup {t} /\ Persist(valid')
    /\ UNCHANGED <<device, owner, call, gone, calls>>

RevokeToken(t) ==
    /\ Command /\ t \in valid
    /\ valid' = valid \ {t} /\ Persist(valid')
    /\ gone' = IF file' = valid' THEN gone \cup {t} ELSE gone
    /\ UNCHANGED <<minted, device, owner, call, calls>>

(* The command line changes the file alone.                                *)
CliAddToken(t) ==
    /\ Command /\ t \notin minted /\ minted' = minted \cup {t}
    /\ file # Torn /\ Persist(file \cup {t})
    /\ UNCHANGED <<valid, device, owner, call, gone, calls>>

CliRevokeToken(t) ==
    /\ Command /\ t \in file
    /\ Persist(file \ {t})
    /\ gone' = IF file' = file \ {t} THEN gone \cup {t} ELSE gone
    /\ UNCHANGED <<valid, minted, device, owner, call, calls>>

(* With a torn file neither the server starts nor the command line works,  *)
(* until somebody removes it.                                              *)
RemoveTornFile ==
    /\ Command /\ file = Torn /\ file' = {}
    /\ UNCHANGED <<valid, minted, device, owner, call, gone, calls>>

(* load_or_generate: an empty file means a new token.                      *)
RestartServer ==
    /\ \/ file \notin {{}, Torn} /\ valid' = file /\ UNCHANGED <<file, minted>>
       \/ file = {} /\ \E t \in Tokens \ minted :
              valid' = {t} /\ file' = {t} /\ minted' = minted \cup {t}
    /\ call' = [q \in Calls |-> NoCall]
    /\ UNCHANGED <<device, owner, gone, calls, commands>>

DevicesNext ==
    \/ \E q \in Calls :
          \/ \E kind \in Kinds, d \in Clients \cup {Null}, t \in valid, r \in Records :
                Arrive(q, kind, d, t, r)
          \/ AcceptFromDevice(q) \/ AcceptFromNobody(q) \/ Refuse(q) \/ StoreImage(q)
    \/ \E d \in Clients : RevokeDevice(d)
    \/ \E t \in Tokens : AddToken(t) \/ RevokeToken(t) \/ CliAddToken(t) \/ CliRevokeToken(t)
    \/ RestartServer \/ RemoveTornFile

DevicesSpec == DevicesInit /\ [][DevicesNext]_deviceVars

-----------------------------------------------------------------------------
DevicesTypeOK ==
    /\ valid \subseteq minted /\ minted \subseteq Tokens
    /\ file \subseteq minted \/ file = Torn
    /\ device \in [Clients -> [known : BOOLEAN, token : Tokens \cup {Null},
                               revoked : BOOLEAN]]
    /\ owner \in [Records -> Clients \cup {Null, Absent}]
    /\ call \in [Calls -> [pc : {"none", "body", "image"}, kind : Kinds,
                           client : Clients \cup {Null}, token : Tokens \cup {Null},
                           record : Records \cup {Null}]]
    /\ gone \subseteq minted
    /\ calls \in 0 .. MaxCalls /\ commands \in 0 .. MaxAdmin

(* What an upload was authorized for in its transaction still holds when   *)
(* it stores its image and touches its device in the sections after it,    *)
(* whatever others delivered and whatever was revoked meanwhile: the       *)
(* record is its device's, and its device bound to its token.              *)
AuthorizedStays ==
    \A q \in Calls : call[q].pc = "image" /\ call[q].client # Null =>
        /\ owner[call[q].record] = call[q].client
        /\ device[call[q].client].token = call[q].token

(* "A non-NULL owner never changes" (sqlite.py), "bound devices never      *)
(* migrate", and a revoked device gets no further record, although a       *)
(* database starts with unbound devices and records without an owner.      *)
OwnersStay ==
    [][/\ \A r \in Records : owner[r] \in Clients => owner'[r] = owner[r]
       /\ \A d \in Clients : device[d].token # Null => device'[d].token = device[d].token
       /\ \A d \in Clients, r \in Records :
             device[d].revoked /\ owner'[r] = d => owner[r] = d]_deviceVars

(* Every owner is a device an administrator can see and revoke.            *)
OwnersKnown == \A r \in Records : owner[r] \in Clients => device[owner[r]].known

(* "no concurrency from the running server (server only reads at startup)" *)
(* (admin_cmd.py): a token revoked once is not in tokens.json again.       *)
RevokedStaysRevoked == gone \cap file = {}
=============================================================================
