---------------------------- MODULE AuthSessions ----------------------------
(***************************************************************************)
(* Users, logins and sessions (auth.Service and its repository), and the   *)
(* requests that act under a session (middleware.RequireAuth).             *)
(*                                                                         *)
(* A login is three steps: the user's row is read, the clock is read and   *)
(* the row judged by it, and one transaction records the outcome.  An      *)
(* authenticated request is two: the session is looked up, and later the   *)
(* handler works for the actor found, whatever became of them since.       *)
(* A token is unguessable, so it is known to those it was issued to; its   *)
(* hash is the token.  Time is counted in half seconds (TimeText).         *)
(***************************************************************************)
EXTENDS TimeText, FiniteSetsExt

CONSTANTS
    Users,
    Supervisors,   \* users with the protection_supervisor role
    Clients,       \* HTTP requests that may be in flight at once
    Tokens,        \* session tokens that may be generated
    Threshold,     \* loginThreshold
    LockDuration, SessionTTL,
    CleanupLimit,  \* rows one clean-up may delete
    None,          \* SQL NULL, no row, no request
    MaxTime,       \* bound on the clock
    MaxFailures,   \* bound on failed logins of a user in a row
    MaxChanges     \* bound on changes of the users' active flags, in all

ASSUME AuthSessionsAssumption ==
    /\ Supervisors \subseteq Users /\ Supervisors # {}
    /\ IsFiniteSet(Clients) /\ IsFiniteSet(Tokens)
    /\ Threshold \in Nat \ {0} /\ CleanupLimit \in Nat \ {0}
    /\ LockDuration \in Nat \ {0} /\ SessionTTL \in Nat \ {0}
    /\ MaxTime \in Nat /\ MaxFailures \in Nat /\ MaxChanges \in Nat
    /\ IsFiniteSet(Users)
    /\ None \notin Nat

VARIABLES
    clock,
    user,      \* users
    session,   \* sessions, by token
    request,   \* per client: the login or the authenticated request in flight
    issued,    \* tokens that were generated
    retired    \* tokens logged out, or whose user's active flag was set since

vars == <<clock, user, session, request, issued, retired>>

-----------------------------------------------------------------------------
UserRow == [active : BOOLEAN, gen : Nat \ {0}, failures : Nat,
            lockedUntil : Nat \cup {None}]
SessionRow == [user : Users, gen : Nat \ {0}, expires : Nat, revoked : BOOLEAN]

ASSUME NoRowIsNone == None \notin SessionRow

\* A login that has read the row; one that was admitted at `now'; a request
\* whose actor RequireAuth put into its context.
Login == [stage : {"read"}, user : Users, lockedUntil : Nat \cup {None}]
Admitted == [stage : {"admitted"}, user : Users, valid : BOOLEAN, now : Nat]
Acting == [stage : {"acting"}, user : Users, token : Tokens]

Init ==
    /\ clock = 0
    /\ user = [u \in Users |-> [active |-> TRUE, gen |-> 1, failures |-> 0,
                                lockedUntil |-> None]]
    /\ session = [t \in Tokens |-> None]
    /\ request = [c \in Clients |-> None]
    /\ issued = {}
    /\ retired = {}

Tick ==
    /\ clock < MaxTime
    /\ clock' = clock + 1
    /\ UNCHANGED <<user, session, request, issued, retired>>

InStage(c, stage) == request[c] # None /\ request[c].stage = stage

Finish(c) == request' = [request EXCEPT ![c] = None]

(* Any call may fail, or its client go away, before it has written.        *)
Abandon(c) ==
    /\ request[c] # None
    /\ Finish(c)
    /\ UNCHANGED <<clock, user, session, issued, retired>>

-----------------------------------------------------------------------------
(* Service.Login reads the row, without a transaction.  A user who is not  *)
(* active is turned away at once, whatever the clock.                      *)
UserByEmail(c, u) ==
    /\ request[c] = None
    /\ user[u].active
    /\ request' = [request EXCEPT ![c] =
          [stage |-> "read", user |-> u, lockedUntil |-> user[u].lockedUntil]]
    /\ UNCHANGED <<clock, user, session, issued, retired>>

(* A locked user is turned away (Abandon) before the password is looked at;*)
(* another is admitted, with the right password or without.                *)
Admit(c) ==
    /\ InStage(c, "read")
    /\ request[c].lockedUntil # None => request[c].lockedUntil <= clock
    /\ \E valid \in BOOLEAN :
          request' = [request EXCEPT ![c] = [stage |-> "admitted", user |-> @.user,
                                             valid |-> valid, now |-> clock]]
    /\ UNCHANGED <<clock, user, session, issued, retired>>

\* Mutant of LocksAt: one failure more than the threshold is allowed.
LocksAfter(count) == count > Threshold

LocksAt(count) == count >= Threshold

(* UpdateLoginFailure counts from the row as it is now, and locks from the *)
(* `now' of the login.                                                     *)
UpdateLoginFailure(c) ==
    LET u == request[c].user
        count == user[u].failures + 1
    IN
    /\ InStage(c, "admitted") /\ ~request[c].valid
    /\ count <= MaxFailures
    /\ user' = [user EXCEPT ![u].failures = count,
                            ![u].lockedUntil = IF LocksAt(count)
                                               THEN request[c].now + LockDuration ELSE None]
    /\ Finish(c)
    /\ UNCHANGED <<clock, session, issued, retired>>

\* Mutant of NewSession: the generation of the row is not filled in.
NewSessionUnset(u, now) ==
    [user |-> u, gen |-> 0, expires |-> now + SessionTTL, revoked |-> FALSE]

NewSession(u, now) ==
    [user |-> u, gen |-> user[u].gen, expires |-> now + SessionTTL, revoked |-> FALSE]

\* Mutant of MayComplete: the row read at the beginning is relied upon.
MayCompleteAsRead(u) == TRUE

MayComplete(u) == user[u].active

(* CompleteLogin reads the active flag and the generation anew, but not    *)
(* the lock, and clears the failures.                                      *)
CompleteLogin(c, t) ==
    LET u == request[c].user IN
    /\ InStage(c, "admitted") /\ request[c].valid
    /\ MayComplete(u)
    /\ t \notin issued
    /\ user' = [user EXCEPT ![u].failures = 0, ![u].lockedUntil = None]
    /\ session' = [session EXCEPT ![t] = NewSession(u, request[c].now)]
    /\ issued' = issued \cup {t}
    /\ Finish(c)
    /\ UNCHANGED <<clock, retired>>

-----------------------------------------------------------------------------
\* Mutant of Usable: revocation and generation are not compared, as the user
\* is looked up anyhow.
UsableByUser(t, now) ==
    /\ session[t] # None
    /\ user[session[t].user].active
    /\ session[t].expires > now

(* SessionPrincipal and Session.ActiveAt.                                  *)
Usable(t, now) ==
    /\ session[t] # None
    /\ session[t].gen = user[session[t].user].gen
    /\ user[session[t].user].active
    /\ ~session[t].revoked
    /\ session[t].expires > now

(* RequireAuth: the actor goes into the request's context.                 *)
Authenticate(c, t) ==
    /\ request[c] = None
    /\ Usable(t, clock)
    /\ request' = [request EXCEPT ![c] =
          [stage |-> "acting", user |-> session[t].user, token |-> t]]
    /\ UNCHANGED <<clock, user, session, issued, retired>>

(* Service.Logout of the request's token.                                  *)
Logout(c) ==
    LET t == request[c].token IN
    /\ InStage(c, "acting")
    /\ session[t] # None /\ ~session[t].revoked
    /\ session' = [session EXCEPT ![t].revoked = TRUE]
    /\ retired' = retired \cup {t}
    /\ Finish(c)
    /\ UNCHANGED <<clock, user, issued>>

Changes == MapThenSumSet(LAMBDA u : user[u].gen - 1, Users)

TokensOf(u) == {t \in issued : session[t] # None /\ session[t].user = u}

\* Mutant of MaySetActive: supervisors may deactivate themselves.
MaySetAnyActive(actor, u, active) == actor \in Supervisors

MaySetActive(actor, u, active) == actor \in Supervisors /\ (actor = u => active)

(* Service.SetUserActive: the flag, the generation and every session, also *)
(* when the flag does not change.                                          *)
SetUserActive(c, u, active) ==
    /\ InStage(c, "acting")
    /\ MaySetActive(request[c].user, u, active)
    /\ Changes < MaxChanges
    /\ user' = [user EXCEPT ![u].active = active, ![u].gen = @ + 1]
    /\ session' = [t \in Tokens |-> IF t \in TokensOf(u)
                                    THEN [session[t] EXCEPT !.revoked = TRUE]
                                    ELSE session[t]]
    /\ retired' = retired \cup TokensOf(u)
    /\ Finish(c)
    /\ UNCHANGED <<clock, issued>>

-----------------------------------------------------------------------------
\* Mutant of Deletable: the comparison with the present is the wrong way.
DeletableBefore(row) == TextLeq(clock, row.expires) \/ row.revoked

(* The WHERE clause of DeleteExpiredSessions, which compares text.         *)
Deletable(row) == TextLeq(row.expires, clock) \/ row.revoked

(* DeleteExpiredSessions: up to a limit of rows, first those that expired  *)
(* first.  The Store offers it, and nothing in the program calls it yet.   *)
DeleteExpiredSessions ==
    LET old == {t \in Tokens : session[t] # None /\ Deletable(session[t])} IN
    \E gone \in SUBSET old \ {{}} :
        /\ Cardinality(gone) <= CleanupLimit
        /\ Cardinality(gone) < CleanupLimit => gone = old
        /\ \A t \in gone, kept \in old \ gone :
              TextLeq(session[t].expires, session[kept].expires)
        /\ session' = [t \in Tokens |-> IF t \in gone THEN None ELSE session[t]]
        /\ UNCHANGED <<clock, user, request, issued, retired>>

-----------------------------------------------------------------------------
ClientStep(c) ==
    \/ Abandon(c)
    \/ \E u \in Users : UserByEmail(c, u)
    \/ Admit(c)
    \/ UpdateLoginFailure(c)
    \/ \E t \in Tokens : CompleteLogin(c, t) \/ Authenticate(c, t)
    \/ Logout(c)
    \/ \E u \in Users, active \in BOOLEAN : SetUserActive(c, u, active)

Next == Tick \/ DeleteExpiredSessions \/ \E c \in Clients : ClientStep(c)

Spec == Init /\ [][Next]_vars

-----------------------------------------------------------------------------
TypeOK ==
    /\ clock \in Nat
    /\ user \in [Users -> UserRow]
    /\ session \in [Tokens -> SessionRow \cup {None}]
    /\ request \in [Clients -> Login \cup Admitted \cup Acting \cup {None}]
    /\ issued \subseteq Tokens /\ retired \subseteq issued

(* A login that is in flight while its user is deactivated (and perhaps    *)
(* reactivated) leaves no session behind that outlives the decision: a row *)
(* not revoked has the user's present generation, and the user is active.  *)
LiveSessionsAreCurrent ==
    \A t \in Tokens : session[t] # None /\ ~session[t].revoked =>
        LET u == session[t].user IN user[u].active /\ session[t].gen = user[u].gen

(* README: deactivating or reactivating "revokes all existing sessions, so *)
(* an old token cannot become valid again".  No request is let in under a  *)
(* token that was logged out or whose user's flag was set since, whatever  *)
(* followed: a reactivation, another login, a clean-up.                    *)
RetiredTokensStayOut ==
    [][\A c \in Clients : request[c] = None /\ InStage(c, "acting")'
          => request'[c].token \notin retired]_vars

(* Failed logins are counted one by one though the lock is looked at       *)
(* before: within a lock's length of the first attempts no more failures   *)
(* are recorded for a user than the threshold allows, plus those of the    *)
(* attempts already let in when it was reached.  (A failure that cannot be *)
(* written is not counted.)                                                *)
GuessesAreBounded ==
    \A u \in Users : clock < LockDuration =>
        user[u].failures <= Threshold - 1 + Cardinality(Clients)

(* The clean-up takes no session from a user who could still have used it, *)
(* except within the second of its expiry, in which text misorders.        *)
CleanupSparesLiveSessions ==
    [][\A t \in Tokens : session[t] # None /\ session'[t] = None
          => ~Usable(t, clock) \/ second(session[t].expires) = second(clock)]_vars

InCharge == {u \in Supervisors : user[u].active}

(* "supervisor cannot deactivate their current account": the last active   *)
(* supervisor is deactivated by nobody but one who was deactivated after   *)
(* their own request had been authenticated.                               *)
SomeoneInCharge ==
    [][InCharge # {} /\ InCharge' = {} =>
          \E c \in Clients : /\ InStage(c, "acting") /\ request'[c] = None
                             /\ ~user[request[c].user].active]_vars
=============================================================================
