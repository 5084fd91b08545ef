------------------------------ MODULE Sessions ------------------------------
(***************************************************************************)
(* Browser logins: UserStore with its rate limiter and the tables          *)
(* auth_users and auth_sessions.  A login reads the user, verifies the     *)
(* password, inserts a session and prunes the oldest ones; a password      *)
(* change verifies, updates the hash and deletes the other sessions.  Each *)
(* of these is one section under Database._lock, and requests of several   *)
(* browsers interleave between them.  A restart ends the requests under    *)
(* way and forgets the failures.                                           *)
(*                                                                         *)
(* A password is the number of changes before it: 0 is the seeded one.     *)
(***************************************************************************)
EXTENDS Integers, FiniteSets

CONSTANTS Logins,      \* requests to log in that may be under way at once
          Ips, IpOf,   \* where each comes from
          Changers,    \* requests to change the password, likewise
          Cap,         \* AuthConfig.max_sessions_per_user
          Threshold,   \* AuthConfig.login_rate_threshold
          MaxSessions, \* bound: sessions ever made
          MaxChanges,  \* bound: password changes
          MaxRestarts  \* bound: restarts of the server

ASSUME SessionsAssumption ==
    /\ IsFiniteSet(Logins) /\ IpOf \in [Logins -> Ips]
    /\ Cap \in Nat \ {0} /\ Threshold \in Nat \ {0}
    /\ MaxSessions \in Nat /\ MaxChanges \in Nat /\ MaxRestarts \in Nat

VARIABLES password, \* auth_users.password_hash
          sessions, \* auth_sessions, numbered as they were created
          made,     \* how many
          login,    \* where each login is
          change,   \* where each password change is
          fails,    \* _LoginRateLimiter: failures within the window
          spared,   \* history: sessions a password change leaves behind
          unpruned, \* history: logins cut off before they pruned
          restarts

sessionVars == <<password, sessions, made, login, change, fails, spared,
                 unpruned, restarts>>

NoLogin == [pc |-> "idle", pw |-> 0, late |-> FALSE]
NoChange == [pc |-> "idle", keep |-> 0]
Ids(set) == {s.id : s \in set}
At(pc) == {l \in Logins : login[l].pc = pc}
From(i) == {l \in Logins : IpOf[l] = i}

SessionsInit ==
    /\ password = 0 /\ sessions = {} /\ made = 0
    /\ login = [l \in Logins |-> NoLogin]
    /\ change = [c \in Changers |-> NoChange]
    /\ fails = [i \in Ips |-> 0]
    /\ spared = {} /\ unpruned = 0 /\ restarts = 0

-----------------------------------------------------------------------------
(* Mistakes: CheckLimitLate and KickOlder each stand in for the definition *)
(* that follows; a property below must notice.                             *)
CheckLimitLate(l) ==
    /\ login[l].pc = "idle" /\ fails[IpOf[l]] <= Threshold
    /\ login' = [login EXCEPT ![l].pc = "check"]
    /\ UNCHANGED <<password, sessions, made, change, fails, spared, unpruned,
                   restarts>>

(* authenticate: the limiter first ...                                     *)
CheckLimit(l) ==
    /\ login[l].pc = "idle" /\ fails[IpOf[l]] < Threshold
    /\ login' = [login EXCEPT ![l].pc = "check"]
    /\ UNCHANGED <<password, sessions, made, change, fails, spared, unpruned,
                   restarts>>

(* ... then, once the user's row is read, the password.                    *)
WrongPassword(l) ==
    /\ login[l].pc = "check"
    /\ login' = [login EXCEPT ![l] = NoLogin]
    /\ fails' = [fails EXCEPT ![IpOf[l]] = @ + 1]
    /\ UNCHANGED <<password, sessions, made, change, spared, unpruned, restarts>>

RightPassword(l) ==
    /\ login[l].pc = "check"
    /\ login' = [login EXCEPT ![l] = [pc |-> "insert", pw |-> password, late |-> FALSE]]
    /\ fails' = [fails EXCEPT ![IpOf[l]] = 0]
    /\ UNCHANGED <<password, sessions, made, change, spared, unpruned, restarts>>

InsertSession(l) ==
    /\ login[l].pc = "insert" /\ made < MaxSessions
    /\ made' = made + 1
    /\ sessions' = sessions \cup {[id |-> made + 1, pw |-> login[l].pw,
                                   late |-> login[l].late]}
    /\ login' = [login EXCEPT ![l].pc = "prune"]
    /\ UNCHANGED <<password, change, fails, spared, unpruned, restarts>>

Newer(s) == {t \in sessions : t.id > s.id}
Pruned(n) == {s \in sessions : Cardinality(Newer(s)) < n}

(* prune_sessions_over_cap: the newest are kept.                           *)
PruneSessions(l) ==
    /\ login[l].pc = "prune"
    /\ sessions' = Pruned(Cap)
    /\ login' = [login EXCEPT ![l] = NoLogin] /\ unpruned' = 0
    /\ UNCHANGED <<password, made, change, fails, spared, restarts>>

FailureAges(i) ==
    /\ fails[i] > 0 /\ fails' = [fails EXCEPT ![i] = @ - 1]
    /\ UNCHANGED <<password, sessions, made, login, change, spared, unpruned,
                   restarts>>

(* Logout, or an expiry noticed by resolve_session or the reclaim loop     *)
EndSession(s) ==
    /\ s \in sessions /\ sessions' = sessions \ {s}
    /\ UNCHANGED <<password, made, login, change, fails, spared, unpruned,
                   restarts>>

-----------------------------------------------------------------------------
(* change_password, asked for with session s                               *)
StartChange(c, s) ==
    /\ change[c].pc = "idle" /\ s \in sessions
    /\ change' = [change EXCEPT ![c] = [pc |-> "verify", keep |-> s.id]]
    /\ UNCHANGED <<password, sessions, made, login, fails, spared, unpruned,
                   restarts>>

(* A wrong old password, or a new one that will not do                     *)
RefuseChange(c) ==
    /\ change[c].pc = "verify"
    /\ change' = [change EXCEPT ![c] = NoChange]
    /\ UNCHANGED <<password, sessions, made, login, fails, spared, unpruned,
                   restarts>>

VerifyOld(c) ==
    /\ change[c].pc = "verify"
    /\ change' = [change EXCEPT ![c].pc = "update"]
    /\ UNCHANGED <<password, sessions, made, login, fails, spared, unpruned,
                   restarts>>

UpdatePassword(c) ==
    /\ change[c].pc = "update" /\ password < MaxChanges
    /\ password' = password + 1
    /\ change' = [change EXCEPT ![c].pc = "kick"]
    /\ login' = [l \in Logins |->
           IF login[l].pc = "insert" THEN [login[l] EXCEPT !.late = TRUE]
           ELSE login[l]]
    /\ UNCHANGED <<sessions, made, fails, spared, unpruned, restarts>>

KickOlder(c) ==
    /\ change[c].pc = "kick"
    /\ sessions' = {s \in sessions : s.id >= change[c].keep}
    /\ spared' = spared \cup {change[c].keep}
    /\ change' = [change EXCEPT ![c] = NoChange]
    /\ UNCHANGED <<password, made, login, fails, unpruned, restarts>>

(* delete_sessions_except                                                  *)
KickOthers(c) ==
    /\ change[c].pc = "kick"
    /\ sessions' = {s \in sessions : s.id = change[c].keep}
    /\ spared' = spared \cup {change[c].keep}
    /\ change' = [change EXCEPT ![c] = NoChange]
    /\ UNCHANGED <<password, made, login, fails, unpruned, restarts>>

(* The server stops between any two sections; the tables stay.             *)
Restart ==
    /\ restarts < MaxRestarts /\ restarts' = restarts + 1
    /\ login' = [l \in Logins |-> NoLogin]
    /\ change' = [c \in Changers |-> NoChange]
    /\ fails' = [i \in Ips |-> 0]
    /\ unpruned' = unpruned + Cardinality(At("prune"))
    /\ spared' = IF \E c \in Changers : change[c].pc = "kick"
                 THEN spared \cup Ids(sessions) ELSE spared
    /\ UNCHANGED <<password, sessions, made>>

SessionsNext ==
    \/ \E l \in Logins : \/ CheckLimit(l) \/ WrongPassword(l) \/ RightPassword(l)
                         \/ InsertSession(l) \/ PruneSessions(l)
    \/ \E i \in Ips : FailureAges(i)
    \/ \E s \in sessions : EndSession(s)
    \/ \E c \in Changers : \/ \E s \in sessions : StartChange(c, s)
                           \/ RefuseChange(c) \/ VerifyOld(c)
                           \/ UpdatePassword(c) \/ KickOthers(c)
    \/ Restart

SessionsSpec == SessionsInit /\ [][SessionsNext]_sessionVars

-----------------------------------------------------------------------------
SessionsTypeOK ==
    /\ password \in Nat /\ made \in Nat /\ unpruned \in Nat /\ restarts \in Nat
    /\ sessions \in SUBSET [id : 1 .. made, pw : 0 .. password, late : BOOLEAN]
    /\ login \in [Logins -> [pc : {"idle", "check", "insert", "prune"},
                             pw : 0 .. password, late : BOOLEAN]]
    /\ change \in [Changers -> [pc : {"idle", "verify", "update", "kick"},
                                keep : 0 .. made]]
    /\ fails \in [Ips -> Nat]
    /\ spared \subseteq 1 .. made

(* The limiter lets an address fail at most as often as it says, plus one  *)
(* for each of its requests that passed the check while others were still  *)
(* verifying: the check and the count are sections of their own.           *)
AttemptsLimited ==
    \A i \in Ips :
        fails[i] + Cardinality(At("check") \cap From(i))
            <= Threshold - 1 + Cardinality(From(i))

(* A user has at most Cap sessions, plus those whose login is about to     *)
(* prune or was cut off before it did since the last one that pruned.      *)
SessionsCapped ==
    Cardinality(sessions) <= Cap + Cardinality(At("prune")) + unpruned

(* "Kick every other device" (users.py): when no change is between its two *)
(* writes, every session knows the current password, unless it asked for a *)
(* change itself, its login had verified the old password and not yet      *)
(* inserted the session, or a restart fell between the two writes.         *)
KickedUnlessSpared ==
    (\A c \in Changers : change[c].pc # "kick") =>
        \A s \in sessions : s.pw = password \/ s.late \/ s.id \in spared

(* "changing password should boot any session that wasn't the one          *)
(* performing the change" (users.py): the same without the late logins.    *)
OthersBooted ==
    (\A c \in Changers : change[c].pc # "kick") =>
        \A s \in sessions : s.pw = password \/ s.id \in spared
=============================================================================
