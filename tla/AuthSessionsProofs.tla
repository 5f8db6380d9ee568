------------------------- MODULE AuthSessionsProofs -------------------------
(***************************************************************************)
(* Theorems about AuthSessions, for any sets of users, clients and tokens  *)
(* and any bounds.  Three strengthenings carry them: a token has a row     *)
(* only if it was issued, a retired token's row is revoked or gone, and    *)
(* while the first lock lasts the failures of a user plus the attempts     *)
(* that may still add to them never exceed the threshold's share.          *)
(***************************************************************************)
EXTENDS AuthSessions, FiniteSetTheorems, TLAPS

(* A token that was never issued has no row.                               *)
RowsAreIssued ==
    \A t \in Tokens : session[t] # None => t \in issued

RetiredRowsAreDead ==
    \A t \in retired : session[t] # None => session[t].revoked

\* A lock, in a row or in a login that read it, ends a lock's length after
\* some instant of the clock.
LocksLast ==
    /\ \A u \in Users : user[u].lockedUntil # None => user[u].lockedUntil >= LockDuration
    /\ \A c \in Clients : InStage(c, "read") /\ request[c].lockedUntil # None
          => request[c].lockedUntil >= LockDuration

\* The logins of a user that may still record a failure before the first lock
\* has run out: those admitted, and those that read a row without a lock.
MayStillFail(u) ==
    {c \in Clients : /\ request[c] # None
                     /\ request[c].stage # "acting" /\ request[c].user = u
                     /\ request[c].stage = "read" => request[c].lockedUntil = None}

FailuresAreAccounted(u) ==
    IF user[u].lockedUntil = None
    THEN user[u].failures < Threshold
    ELSE user[u].failures + Cardinality(MayStillFail(u))
            <= Threshold - 1 + Cardinality(Clients)

GuessesAreAccounted ==
    clock < LockDuration => \A u \in Users : FailuresAreAccounted(u)

IInv ==
    /\ TypeOK
    /\ RowsAreIssued
    /\ RetiredRowsAreDead
    /\ LiveSessionsAreCurrent
    /\ LocksLast
    /\ GuessesAreAccounted

-----------------------------------------------------------------------------
(* What a client's request is, by its stage.                               *)
LEMMA RequestByStage ==
    ASSUME TypeOK, NEW c \in Clients
    PROVE  /\ InStage(c, "read") => request[c] \in Login
           /\ InStage(c, "admitted") => request[c] \in Admitted
           /\ InStage(c, "acting") => request[c] \in Acting
           /\ request[c] # None =>
                 InStage(c, "read") \/ InStage(c, "admitted") \/ InStage(c, "acting")
BY DEF TypeOK, InStage, Login, Admitted, Acting

(* Attempts are counted among finitely many clients.                       *)
LEMMA AttemptsAreFew ==
    ASSUME NEW u
    PROVE  /\ IsFiniteSet(MayStillFail(u))
           /\ Cardinality(MayStillFail(u)) \in Nat
           /\ Cardinality(Clients) \in Nat
           /\ Cardinality(MayStillFail(u)) <= Cardinality(Clients)
<1>1. MayStillFail(u) \subseteq Clients
  BY DEF MayStillFail
<1>. QED
  BY <1>1, FS_Subset, FS_CardinalityType, AuthSessionsAssumption

(* A step that writes no user's row and adds no attempt keeps the account. *)
LEMMA NoNewAttempt ==
    ASSUME IInv, clock \in Nat, clock' \in Nat, clock' >= clock, user' = user,
           \A u \in Users : MayStillFail(u)' \subseteq MayStillFail(u)
    PROVE  GuessesAreAccounted'
<1>. SUFFICES ASSUME clock' < LockDuration, NEW u \in Users
              PROVE  FailuresAreAccounted(u)'
  BY DEF GuessesAreAccounted
<1>1. clock < LockDuration
  BY AuthSessionsAssumption
<1>2. FailuresAreAccounted(u)
  BY <1>1 DEF IInv, GuessesAreAccounted
<1>3. /\ Cardinality(MayStillFail(u)) \in Nat
      /\ Cardinality(MayStillFail(u)') \in Nat
      /\ Cardinality(MayStillFail(u)') <= Cardinality(MayStillFail(u))
  BY AttemptsAreFew, FS_Subset, FS_CardinalityType
<1>4. user[u].failures \in Nat /\ Cardinality(Clients) \in Nat /\ Threshold \in Nat
  BY AttemptsAreFew, AuthSessionsAssumption DEF IInv, TypeOK, UserRow
<1>5. Cardinality(MayStillFail(u))' = Cardinality(MayStillFail(u)')
  OBVIOUS
<1>. QED
  BY <1>2, <1>3, <1>4, <1>5 DEF FailuresAreAccounted

-----------------------------------------------------------------------------
LEMMA InitInv == Init => IInv
<1>. SUFFICES ASSUME Init PROVE IInv
  OBVIOUS
<1>. USE AuthSessionsAssumption DEF Init
<1>1. TypeOK
  BY DEF TypeOK, UserRow
<1>2. RowsAreIssued /\ RetiredRowsAreDead /\ LiveSessionsAreCurrent
  BY DEF RowsAreIssued, RetiredRowsAreDead, LiveSessionsAreCurrent
<1>3. LocksLast
  BY DEF LocksLast, InStage
<1>4. GuessesAreAccounted
  BY DEF GuessesAreAccounted, FailuresAreAccounted
<1>. QED
  BY <1>1, <1>2, <1>3, <1>4 DEF IInv

(* A step that only takes a request away, or lets the clock advance.       *)
LEMMA QuietInv ==
    ASSUME IInv, user' = user, session' = session, issued' = issued,
           retired' = retired, clock' \in Nat, clock' >= clock,
           request' \in [Clients -> Login \cup Admitted \cup Acting \cup {None}],
           \A c \in Clients : request'[c] # None => request'[c] = request[c]
    PROVE  IInv'
<1>1. TypeOK'
  BY DEF IInv, TypeOK
<1>2. (RowsAreIssued /\ RetiredRowsAreDead /\ LiveSessionsAreCurrent)'
  BY DEF IInv, RowsAreIssued, RetiredRowsAreDead, LiveSessionsAreCurrent
<1>3. LocksLast'
  BY DEF IInv, LocksLast, InStage
<1>4. GuessesAreAccounted'
  <2>1. \A u \in Users : MayStillFail(u)' \subseteq MayStillFail(u)
    BY DEF MayStillFail
  <2>. QED
    BY <2>1, NoNewAttempt DEF IInv, TypeOK
<1>. QED
  BY <1>1, <1>2, <1>3, <1>4 DEF IInv

LEMMA TickInv ==
    ASSUME IInv, Tick
    PROVE  IInv'
<1>1. clock' \in Nat /\ clock' >= clock
  BY DEF Tick, IInv, TypeOK
<1>. QED
  BY <1>1, QuietInv DEF Tick, IInv, TypeOK

LEMMA AbandonInv ==
    ASSUME IInv, NEW c \in Clients, Abandon(c)
    PROVE  IInv'
<1>1. request' \in [Clients -> Login \cup Admitted \cup Acting \cup {None}]
  BY DEF Abandon, Finish, IInv, TypeOK
<1>2. \A d \in Clients : request'[d] # None => request'[d] = request[d]
  BY DEF Abandon, Finish, IInv, TypeOK
<1>3. clock' \in Nat /\ clock' >= clock
  BY DEF Abandon, IInv, TypeOK
<1>. QED
  BY <1>1, <1>2, <1>3, QuietInv DEF Abandon

(* A login that read the row counts as an attempt only if it saw no lock.  *)
LEMMA UserByEmailInv ==
    ASSUME IInv, NEW c \in Clients, NEW u \in Users, UserByEmail(c, u)
    PROVE  IInv'
<1>. DEFINE r == [stage |-> "read", user |-> u, lockedUntil |-> user[u].lockedUntil]
<1>. USE DEF UserByEmail
<1>1. r \in Login
  BY DEF IInv, TypeOK, UserRow, Login
<1>2. request' = [request EXCEPT ![c] = r]
  OBVIOUS
<1>. HIDE DEF r
<1>3. TypeOK'
  BY <1>1, <1>2 DEF IInv, TypeOK
<1>4. (RowsAreIssued /\ RetiredRowsAreDead /\ LiveSessionsAreCurrent)'
  BY DEF IInv, RowsAreIssued, RetiredRowsAreDead, LiveSessionsAreCurrent
<1>5. request'[c] = r /\ \A d \in Clients \ {c} : request'[d] = request[d]
  BY <1>2 DEF IInv, TypeOK
<1>6. LocksLast'
  <2>1. r.lockedUntil = user[u].lockedUntil
    BY DEF r
  <2>. QED
    BY <1>5, <2>1 DEF IInv, LocksLast, InStage
<1>7. GuessesAreAccounted'
  <2>. SUFFICES ASSUME clock < LockDuration, NEW v \in Users
                PROVE  FailuresAreAccounted(v)'
    BY DEF GuessesAreAccounted
  <2>0. FailuresAreAccounted(v)
    BY DEF IInv, GuessesAreAccounted
  <2>1. CASE user[v].lockedUntil = None
    BY <2>0, <2>1 DEF FailuresAreAccounted
  <2>2. CASE user[v].lockedUntil # None
    <3>1. MayStillFail(v)' \subseteq MayStillFail(v)
      <4>1. c \notin MayStillFail(v)'
        BY <1>5, <2>2 DEF MayStillFail, r
      <4>. QED
        BY <4>1, <1>5 DEF MayStillFail
    <3>2. /\ Cardinality(MayStillFail(v)) \in Nat
          /\ Cardinality(MayStillFail(v)') \in Nat
          /\ Cardinality(MayStillFail(v)') <= Cardinality(MayStillFail(v))
      BY <3>1, AttemptsAreFew, FS_Subset, FS_CardinalityType
    <3>3. user[v].failures \in Nat /\ Cardinality(Clients) \in Nat /\ Threshold \in Nat
      BY AttemptsAreFew, AuthSessionsAssumption DEF IInv, TypeOK, UserRow
    <3>4. Cardinality(MayStillFail(v))' = Cardinality(MayStillFail(v)')
      OBVIOUS
    <3>. QED
      BY <2>0, <2>2, <3>2, <3>3, <3>4 DEF FailuresAreAccounted
  <2>. QED
    BY <2>1, <2>2
<1>. QED
  BY <1>3, <1>4, <1>6, <1>7 DEF IInv

(* Whoever is admitted while the first lock lasts had seen no lock.        *)
LEMMA AdmitInv ==
    ASSUME IInv, NEW c \in Clients, Admit(c)
    PROVE  IInv'
<1>1. PICK valid \in BOOLEAN :
        request' = [request EXCEPT ![c] = [stage |-> "admitted", user |-> request[c].user,
                                           valid |-> valid, now |-> clock]]
  BY DEF Admit
<1>. DEFINE r == [stage |-> "admitted", user |-> request[c].user, valid |-> valid, now |-> clock]
<1>2. request[c] \in Login /\ request[c] # None
  BY RequestByStage DEF Admit, IInv, InStage
<1>3. r \in Admitted
  BY <1>2 DEF IInv, TypeOK, Login, Admitted
<1>4. TypeOK'
  BY <1>1, <1>3 DEF IInv, TypeOK, Admit
<1>5. (RowsAreIssued /\ RetiredRowsAreDead /\ LiveSessionsAreCurrent)'
  BY DEF Admit, IInv, RowsAreIssued, RetiredRowsAreDead, LiveSessionsAreCurrent
<1>6. request'[c] = r /\ \A d \in Clients \ {c} : request'[d] = request[d]
  BY <1>1 DEF IInv, TypeOK
<1>7. LocksLast'
  BY <1>6 DEF IInv, LocksLast, InStage, Admit
<1>8. GuessesAreAccounted'
  <2>1. CASE clock < LockDuration
    <3>1. request[c].lockedUntil = None
      <4>1. request[c].lockedUntil # None =>
               request[c].lockedUntil <= clock /\ request[c].lockedUntil >= LockDuration
        BY DEF Admit, IInv, LocksLast
      <4>2. request[c].lockedUntil \in Nat \cup {None}
        BY <1>2 DEF Login
      <4>. QED
        BY <4>1, <4>2, <2>1, AuthSessionsAssumption DEF IInv, TypeOK
    <3>2. \A u \in Users : MayStillFail(u)' \subseteq MayStillFail(u)
      BY <1>2, <1>6, <3>1 DEF MayStillFail, Login
    <3>. QED
      BY <3>2, NoNewAttempt DEF Admit, IInv, TypeOK
  <2>2. CASE ~(clock < LockDuration)
    BY <2>2 DEF GuessesAreAccounted, Admit
  <2>. QED
    BY <2>1, <2>2
<1>. QED
  BY <1>4, <1>5, <1>7, <1>8 DEF IInv

(* A failure recorded spends the attempt that was accounted for.           *)
LEMMA UpdateLoginFailureInv ==
    ASSUME IInv, NEW c \in Clients, UpdateLoginFailure(c)
    PROVE  IInv'
<1>0. /\ request[c] \in Admitted /\ request[c] # None /\ request[c].user \in Users
      /\ request[c].stage = "admitted" /\ request[c].now \in Nat
  BY RequestByStage DEF UpdateLoginFailure, IInv, InStage, Admitted
<1>1. PICK u \in Users : u = request[c].user
  BY <1>0
<1>. DEFINE count == user[u].failures + 1
            lock == IF LocksAt(count) THEN request[c].now + LockDuration ELSE None
<1>2. user[u] \in UserRow /\ count \in Nat /\ lock \in Nat \cup {None}
  BY <1>0, AuthSessionsAssumption DEF IInv, TypeOK, UserRow
<1>3. /\ user' = [user EXCEPT ![u].failures = count, ![u].lockedUntil = lock]
      /\ request' = [request EXCEPT ![c] = None]
      /\ UNCHANGED <<clock, session, issued, retired>>
  BY <1>1 DEF UpdateLoginFailure, Finish
<1>4. /\ user'[u] = [user[u] EXCEPT !.failures = count, !.lockedUntil = lock]
      /\ \A v \in Users \ {u} : user'[v] = user[v]
      /\ user' \in [Users -> UserRow]
      /\ request'[c] = None
      /\ \A d \in Clients \ {c} : request'[d] = request[d]
  <2>. HIDE DEF count, lock
  <2>. QED
    BY <1>1, <1>2, <1>3 DEF IInv, TypeOK, UserRow
<1>5. /\ user'[u].failures = count /\ user'[u].lockedUntil = lock
      /\ user'[u].active = user[u].active /\ user'[u].gen = user[u].gen
  BY <1>2, <1>4 DEF UserRow
<1>. HIDE DEF count, lock
<1>6. TypeOK'
  BY <1>3, <1>4 DEF IInv, TypeOK
<1>7. (RowsAreIssued /\ RetiredRowsAreDead)'
  BY <1>3 DEF IInv, RowsAreIssued, RetiredRowsAreDead
<1>8. LiveSessionsAreCurrent'
  BY <1>3, <1>4, <1>5 DEF IInv, LiveSessionsAreCurrent, TypeOK, SessionRow
<1>9. LocksLast'
  <2>1. lock # None => lock >= LockDuration
    BY <1>0, AuthSessionsAssumption DEF lock
  <2>. QED
    BY <2>1, <1>4, <1>5 DEF IInv, LocksLast, InStage
<1>10. GuessesAreAccounted'
  <2>. SUFFICES ASSUME clock < LockDuration, NEW v \in Users
                PROVE  FailuresAreAccounted(v)'
    BY <1>3 DEF GuessesAreAccounted
  <2>0. FailuresAreAccounted(v)
    BY DEF IInv, GuessesAreAccounted
  <2>1. MayStillFail(v)' \subseteq MayStillFail(v) \ (IF v = u THEN {c} ELSE {})
    BY <1>4 DEF MayStillFail
  <2>2. /\ Cardinality(MayStillFail(v)) \in Nat
        /\ Cardinality(MayStillFail(v)') \in Nat
        /\ Cardinality(MayStillFail(v)') <= Cardinality(MayStillFail(v))
    BY <2>1, AttemptsAreFew, FS_Subset, FS_CardinalityType
  <2>3. user[v].failures \in Nat /\ Cardinality(Clients) \in Nat /\ Threshold \in Nat
    BY AttemptsAreFew, AuthSessionsAssumption DEF IInv, TypeOK, UserRow
  <2>4. Cardinality(MayStillFail(v))' = Cardinality(MayStillFail(v)')
    OBVIOUS
  <2>5. CASE v # u
    BY <2>0, <2>2, <2>3, <2>4, <2>5, <1>4 DEF FailuresAreAccounted
  <2>6. CASE v = u
    <3>1. c \in MayStillFail(u)
      BY <1>0, <1>1 DEF MayStillFail
    <3>2. Cardinality(MayStillFail(u)') <= Cardinality(MayStillFail(u)) - 1
      <4>1. /\ IsFiniteSet(MayStillFail(u) \ {c})
            /\ Cardinality(MayStillFail(u) \ {c}) = Cardinality(MayStillFail(u)) - 1
        BY <3>1, AttemptsAreFew, FS_RemoveElement
      <4>2. MayStillFail(u)' \subseteq MayStillFail(u) \ {c}
        BY <2>1, <2>6
      <4>. QED
        BY <4>1, <4>2, FS_Subset
    <3>3. Cardinality(MayStillFail(u)) <= Cardinality(Clients)
      BY AttemptsAreFew
    <3>4. CASE LocksAt(count)
      <4>1. lock # None
        BY <3>4, <1>0, AuthSessionsAssumption DEF lock
      <4>2. count = user[u].failures + 1
        BY DEF count
      <4>3. user[u].failures + Cardinality(MayStillFail(u)) <= Threshold - 1 + Cardinality(Clients)
        BY <2>0, <2>6, <2>2, <2>3, <3>3 DEF FailuresAreAccounted
      <4>4. count + Cardinality(MayStillFail(u)') <= Threshold - 1 + Cardinality(Clients)
        BY <4>2, <4>3, <3>2, <2>2, <2>3, <2>6
      <4>. QED
        BY <4>1, <4>4, <2>4, <2>6, <1>5 DEF FailuresAreAccounted
    <3>5. CASE ~LocksAt(count)
      BY <3>5, <1>2, <1>5, <2>3, <2>6 DEF FailuresAreAccounted, LocksAt, lock
    <3>. QED
      BY <3>4, <3>5
  <2>. QED
    BY <2>5, <2>6
<1>. QED
  BY <1>6, <1>7, <1>8, <1>9, <1>10 DEF IInv

(* The new session has the generation read in the same transaction, and    *)
(* the account of its user starts anew.                                    *)
LEMMA CompleteLoginInv ==
    ASSUME IInv, NEW c \in Clients, NEW t \in Tokens, CompleteLogin(c, t)
    PROVE  IInv'
<1>0. /\ request[c] \in Admitted /\ request[c] # None /\ request[c].user \in Users
      /\ request[c].now \in Nat
  BY RequestByStage DEF CompleteLogin, IInv, InStage, Admitted
<1>1. PICK u \in Users : u = request[c].user
  BY <1>0
<1>2. PICK r : r = NewSession(u, request[c].now)
  OBVIOUS
<1>3. /\ user' = [user EXCEPT ![u].failures = 0, ![u].lockedUntil = None]
      /\ session' = [session EXCEPT ![t] = r]
      /\ request' = [request EXCEPT ![c] = None]
      /\ issued' = issued \cup {t} /\ t \notin issued
      /\ user[u].active
      /\ UNCHANGED <<clock, retired>>
  BY <1>1, <1>2 DEF CompleteLogin, Finish, MayComplete
<1>4. user[u] \in UserRow /\ t \notin retired
  BY <1>3 DEF IInv, TypeOK
<1>5. /\ r \in SessionRow /\ r.user = u /\ r.gen = user[u].gen
  BY <1>0, <1>2, <1>4, AuthSessionsAssumption DEF NewSession, SessionRow, UserRow
<1>6. /\ user'[u] = [user[u] EXCEPT !.failures = 0, !.lockedUntil = None]
      /\ \A v \in Users \ {u} : user'[v] = user[v]
      /\ user' \in [Users -> UserRow]
      /\ request' \in [Clients -> Login \cup Admitted \cup Acting \cup {None}]
      /\ request'[c] = None
      /\ \A d \in Clients \ {c} : request'[d] = request[d]
      /\ session' \in [Tokens -> SessionRow \cup {None}]
      /\ session'[t] = r
      /\ \A x \in Tokens \ {t} : session'[x] = session[x]
  BY <1>3, <1>4, <1>5 DEF IInv, TypeOK, UserRow
<1>7. /\ user'[u].failures = 0 /\ user'[u].lockedUntil = None
      /\ user'[u].active = user[u].active /\ user'[u].gen = user[u].gen
  BY <1>4, <1>6 DEF UserRow
<1>8. TypeOK'
  BY <1>3, <1>6 DEF IInv, TypeOK
<1>9. (RowsAreIssued /\ RetiredRowsAreDead)'
  BY <1>3, <1>4, <1>6 DEF IInv, TypeOK, RowsAreIssued, RetiredRowsAreDead
<1>10. LiveSessionsAreCurrent'
  BY <1>3, <1>5, <1>6, <1>7 DEF IInv, LiveSessionsAreCurrent, TypeOK, SessionRow
<1>11. LocksLast'
  BY <1>6, <1>7 DEF IInv, LocksLast, InStage
<1>12. GuessesAreAccounted'
  <2>. SUFFICES ASSUME clock < LockDuration, NEW v \in Users
                PROVE  FailuresAreAccounted(v)'
    BY <1>3 DEF GuessesAreAccounted
  <2>0. FailuresAreAccounted(v)
    BY DEF IInv, GuessesAreAccounted
  <2>1. MayStillFail(v)' \subseteq MayStillFail(v)
    BY <1>6 DEF MayStillFail
  <2>2. /\ Cardinality(MayStillFail(v)) \in Nat
        /\ Cardinality(MayStillFail(v)') \in Nat
        /\ Cardinality(MayStillFail(v)') <= Cardinality(MayStillFail(v))
        /\ Cardinality(MayStillFail(v))' = Cardinality(MayStillFail(v)')
    BY <2>1, AttemptsAreFew, FS_Subset, FS_CardinalityType
  <2>3. user[v].failures \in Nat /\ Cardinality(Clients) \in Nat /\ Threshold \in Nat \ {0}
    BY AttemptsAreFew, AuthSessionsAssumption DEF IInv, TypeOK, UserRow
  <2>4. CASE v = u
    BY <2>3, <2>4, <1>7 DEF FailuresAreAccounted
  <2>5. CASE v # u
    BY <2>0, <2>2, <2>3, <2>5, <1>6 DEF FailuresAreAccounted
  <2>. QED
    BY <2>4, <2>5
<1>. QED
  BY <1>8, <1>9, <1>10, <1>11, <1>12 DEF IInv

LEMMA AuthenticateInv ==
    ASSUME IInv, NEW c \in Clients, NEW t \in Tokens, Authenticate(c, t)
    PROVE  IInv'
<1>. DEFINE r == [stage |-> "acting", user |-> session[t].user, token |-> t]
<1>1. r \in Acting /\ r.stage = "acting"
  BY DEF Authenticate, Usable, IInv, TypeOK, SessionRow, Acting
<1>2. request' = [request EXCEPT ![c] = r]
  BY DEF Authenticate
<1>. HIDE DEF r
<1>3. request'[c] = r /\ \A d \in Clients \ {c} : request'[d] = request[d]
  BY <1>2 DEF IInv, TypeOK
<1>4. TypeOK'
  BY <1>1, <1>2 DEF Authenticate, IInv, TypeOK
<1>5. (RowsAreIssued /\ RetiredRowsAreDead /\ LiveSessionsAreCurrent)'
  BY DEF Authenticate, IInv, RowsAreIssued, RetiredRowsAreDead, LiveSessionsAreCurrent
<1>6. LocksLast'
  BY <1>1, <1>3 DEF Authenticate, IInv, LocksLast, InStage
<1>7. \A u \in Users : MayStillFail(u)' \subseteq MayStillFail(u)
  BY <1>1, <1>3 DEF MayStillFail
<1>8. GuessesAreAccounted'
  BY <1>7, NoNewAttempt DEF Authenticate, IInv, TypeOK
<1>. QED
  BY <1>4, <1>5, <1>6, <1>8 DEF IInv

(* A revocation leaves the other columns of a row alone.                   *)
LEMMA RevokedRow ==
    ASSUME NEW row \in SessionRow
    PROVE  LET r == [row EXCEPT !.revoked = TRUE] IN
           r \in SessionRow /\ r.revoked /\ r.user = row.user /\ r.gen = row.gen
BY DEF SessionRow

LEMMA LogoutInv ==
    ASSUME IInv, NEW c \in Clients, Logout(c)
    PROVE  IInv'
<1>0. request[c] \in Acting /\ request[c].token \in Tokens
  BY RequestByStage DEF Logout, IInv, Acting
<1>1. PICK t \in Tokens : t = request[c].token
  BY <1>0
<1>2. /\ session[t] # None /\ session[t] \in SessionRow
      /\ session' = [session EXCEPT ![t].revoked = TRUE]
      /\ retired' = retired \cup {t}
      /\ request' = [request EXCEPT ![c] = None]
      /\ UNCHANGED <<clock, user, issued>>
  BY <1>1 DEF Logout, Finish, IInv, TypeOK
<1>3. PICK r : r = [session[t] EXCEPT !.revoked = TRUE]
  OBVIOUS
<1>4. r \in SessionRow /\ r.revoked
  BY <1>2, <1>3, RevokedRow
<1>5. /\ session' = [session EXCEPT ![t] = r]
      /\ session'[t] = r /\ \A x \in Tokens \ {t} : session'[x] = session[x]
  BY <1>2, <1>3 DEF IInv, TypeOK
<1>6. TypeOK'
  BY <1>2, <1>4, <1>5 DEF IInv, TypeOK, RowsAreIssued
<1>7. (RowsAreIssued /\ RetiredRowsAreDead /\ LiveSessionsAreCurrent)'
  BY <1>2, <1>4, <1>5 DEF IInv, TypeOK, RowsAreIssued, RetiredRowsAreDead, LiveSessionsAreCurrent
<1>8. request'[c] = None /\ \A d \in Clients \ {c} : request'[d] = request[d]
  BY <1>2 DEF IInv, TypeOK
<1>9. LocksLast'
  BY <1>2, <1>8 DEF IInv, LocksLast, InStage
<1>10. \A u \in Users : MayStillFail(u)' \subseteq MayStillFail(u)
  BY <1>8 DEF MayStillFail
<1>11. GuessesAreAccounted'
  BY <1>2, <1>10, NoNewAttempt DEF IInv, TypeOK
<1>. QED
  BY <1>6, <1>7, <1>9, <1>11 DEF IInv

(* The flag, the generation and the revocation of every row of the user    *)
(* are one transaction: no live row is left with the old generation.       *)
LEMMA SetUserActiveInv ==
    ASSUME IInv, NEW c \in Clients, NEW u \in Users, NEW active \in BOOLEAN,
           SetUserActive(c, u, active)
    PROVE  IInv'
<1>1. /\ user' = [user EXCEPT ![u].active = active, ![u].gen = user[u].gen + 1]
      /\ session' = [t \in Tokens |-> IF t \in TokensOf(u)
                                       THEN [session[t] EXCEPT !.revoked = TRUE]
                                       ELSE session[t]]
      /\ retired' = retired \cup TokensOf(u)
      /\ request' = [request EXCEPT ![c] = None]
      /\ UNCHANGED <<clock, issued>>
  BY DEF SetUserActive, Finish, IInv, TypeOK, UserRow
<1>2. user[u] \in UserRow
  BY DEF IInv, TypeOK
<1>3. /\ user' \in [Users -> UserRow]
      /\ \A v \in Users \ {u} : user'[v] = user[v]
      /\ \A v \in Users : /\ user'[v].failures = user[v].failures
                          /\ user'[v].lockedUntil = user[v].lockedUntil
  BY <1>1, <1>2 DEF IInv, TypeOK, UserRow
<1>4. \A t \in TokensOf(u) : t \in Tokens /\ session[t] \in SessionRow /\ session[t].user = u
  BY DEF TokensOf, IInv, TypeOK
<1>5. \A t \in TokensOf(u) : session'[t] \in SessionRow /\ session'[t].revoked
  BY <1>1, <1>4, RevokedRow
<1>6. \A t \in Tokens \ TokensOf(u) : session'[t] = session[t]
  BY <1>1
<1>7. \A t \in Tokens \ TokensOf(u) : session[t] # None => session[t].user # u
  BY DEF TokensOf, IInv, RowsAreIssued
<1>8. TokensOf(u) \subseteq issued
  BY DEF TokensOf
<1>9. session' \in [Tokens -> SessionRow \cup {None}]
  <2>1. \A t \in Tokens : session'[t] \in SessionRow \cup {None}
    BY <1>5, <1>6 DEF IInv, TypeOK
  <2>. QED
    BY <2>1, <1>1
<1>10. TypeOK'
  BY <1>1, <1>3, <1>8, <1>9 DEF IInv, TypeOK
<1>11. RowsAreIssued'
  BY <1>1, <1>6, <1>8 DEF IInv, RowsAreIssued
<1>12. RetiredRowsAreDead'
  BY <1>1, <1>5, <1>6, <1>8 DEF IInv, TypeOK, RetiredRowsAreDead
<1>13. LiveSessionsAreCurrent'
  BY <1>3, <1>5, <1>6, <1>7 DEF IInv, TypeOK, SessionRow, LiveSessionsAreCurrent
<1>14. request'[c] = None /\ \A d \in Clients \ {c} : request'[d] = request[d]
  BY <1>1 DEF IInv, TypeOK
<1>15. LocksLast'
  BY <1>3, <1>14 DEF IInv, LocksLast, InStage
<1>16. GuessesAreAccounted'
  <2>. SUFFICES ASSUME clock < LockDuration, NEW v \in Users
                PROVE  FailuresAreAccounted(v)'
    BY <1>1 DEF GuessesAreAccounted
  <2>0. FailuresAreAccounted(v)
    BY DEF IInv, GuessesAreAccounted
  <2>1. MayStillFail(v)' \subseteq MayStillFail(v)
    BY <1>14 DEF MayStillFail
  <2>2. /\ Cardinality(MayStillFail(v)) \in Nat
        /\ Cardinality(MayStillFail(v)') \in Nat
        /\ Cardinality(MayStillFail(v)') <= Cardinality(MayStillFail(v))
        /\ Cardinality(MayStillFail(v))' = Cardinality(MayStillFail(v)')
    BY <2>1, AttemptsAreFew, FS_Subset, FS_CardinalityType
  <2>3. user[v].failures \in Nat /\ Cardinality(Clients) \in Nat /\ Threshold \in Nat \ {0}
    BY AttemptsAreFew, AuthSessionsAssumption DEF IInv, TypeOK, UserRow
  <2>. QED
    BY <2>0, <2>2, <2>3, <1>3 DEF FailuresAreAccounted
<1>. QED
  BY <1>10, <1>11, <1>12, <1>13, <1>15, <1>16 DEF IInv

(* Only rows go.                                                           *)
LEMMA DeleteExpiredSessionsInv ==
    ASSUME IInv, DeleteExpiredSessions
    PROVE  IInv'
<1>1. PICK gone \in SUBSET Tokens :
        session' = [t \in Tokens |-> IF t \in gone THEN None ELSE session[t]]
  BY DEF DeleteExpiredSessions
<1>2. UNCHANGED <<clock, user, request, issued, retired>>
  BY DEF DeleteExpiredSessions
<1>3. \A t \in Tokens : session'[t] # None => session'[t] = session[t]
  BY <1>1
<1>4. TypeOK'
  BY <1>1, <1>2 DEF IInv, TypeOK
<1>5. (RowsAreIssued /\ RetiredRowsAreDead /\ LiveSessionsAreCurrent)'
  BY <1>2, <1>3 DEF IInv, TypeOK, RowsAreIssued, RetiredRowsAreDead, LiveSessionsAreCurrent
<1>6. LocksLast'
  BY <1>2 DEF IInv, LocksLast, InStage
<1>7. \A u \in Users : MayStillFail(u)' \subseteq MayStillFail(u)
  BY <1>2 DEF MayStillFail
<1>8. GuessesAreAccounted'
  BY <1>2, <1>7, NoNewAttempt DEF IInv, TypeOK
<1>. QED
  BY <1>4, <1>5, <1>6, <1>8 DEF IInv

LEMMA StepInv == IInv /\ [Next]_vars => IInv'
<1>. SUFFICES ASSUME IInv, [Next]_vars PROVE IInv'
  OBVIOUS
<1>1. CASE UNCHANGED vars
  BY <1>1, QuietInv DEF vars, IInv, TypeOK
<1>2. CASE Tick
  BY <1>2, TickInv
<1>3. CASE DeleteExpiredSessions
  BY <1>3, DeleteExpiredSessionsInv
<1>4. ASSUME NEW c \in Clients, ClientStep(c)
      PROVE  IInv'
  BY <1>4, AbandonInv, UserByEmailInv, AdmitInv, UpdateLoginFailureInv, CompleteLoginInv,
     AuthenticateInv, LogoutInv, SetUserActiveInv DEF ClientStep
<1>. QED
  BY <1>1, <1>2, <1>3, <1>4 DEF Next

(* The inductive invariant holds of every state a behaviour reaches.       *)
THEOREM Invariance == Spec => []IInv
BY InitInv, StepInv, PTL DEF Spec

(* Every column and every request in flight keeps its type.                *)
THEOREM TypeCorrect == Spec => []TypeOK
<1>1. IInv => TypeOK
  BY DEF IInv
<1>. QED
  BY <1>1, Invariance, PTL

(* However a login interleaves with the deactivation and the reactivation  *)
(* of its user, a session that is not revoked is one of an active user's   *)
(* present generation (repository CompleteLogin and SetUserActive).        *)
THEOREM SessionsFollowTheUser == Spec => []LiveSessionsAreCurrent
<1>1. IInv => LiveSessionsAreCurrent
  BY DEF IInv
<1>. QED
  BY <1>1, Invariance, PTL

(* Any number of clients guessing at once record, within the first lock's  *)
(* length, at most the threshold's share of failures and one for each of   *)
(* them (Service.Login reads the lock, UpdateLoginFailure counts).         *)
THEOREM GuessingIsBounded == Spec => []GuessesAreBounded
<1>1. IInv => GuessesAreBounded
  <2>. SUFFICES ASSUME IInv, NEW u \in Users, clock < LockDuration
                PROVE  user[u].failures <= Threshold - 1 + Cardinality(Clients)
    BY DEF GuessesAreBounded
  <2>1. FailuresAreAccounted(u)
    BY DEF IInv, GuessesAreAccounted
  <2>2. user[u].failures \in Nat /\ Threshold \in Nat
    BY AuthSessionsAssumption DEF IInv, TypeOK, UserRow
  <2>3. /\ Cardinality(Clients) \in Nat /\ Cardinality(MayStillFail(u)) \in Nat
    BY AttemptsAreFew
  <2>. QED
    BY <2>1, <2>2, <2>3 DEF FailuresAreAccounted
<1>. QED
  BY <1>1, Invariance, PTL

-----------------------------------------------------------------------------
(* Text of natural numbers of half seconds: it misorders only two instants *)
(* of one second.                                                          *)
LEMMA TextOrdersSeconds ==
    ASSUME NEW a \in Nat, NEW b \in Nat, TextLeq(a, b)
    PROVE  a <= b \/ second(a) = second(b)
BY DEF TextLeq, TextLess, second

(* A token that was logged out, or whose user's flag was set, lets no      *)
(* request in again, whatever came in between (SessionPrincipal).          *)
THEOREM RetiredTokensAreUseless == Spec => RetiredTokensStayOut
<1>. DEFINE A == \A c \in Clients : request[c] = None /\ InStage(c, "acting")'
                    => request'[c].token \notin retired
<1>1. IInv /\ [Next]_vars => [A]_vars
  <2>. SUFFICES ASSUME IInv, Next, NEW c \in Clients,
                       request[c] = None, InStage(c, "acting")'
                PROVE  request'[c].token \notin retired
    OBVIOUS
  <2>1. request' # request
    BY DEF InStage
  <2>2. PICK d \in Clients : ClientStep(d)
    BY <2>1 DEF Next, Tick, DeleteExpiredSessions
  <2>3. d = c
    <3>1. request' = [request EXCEPT ![d] = request'[d]]
      BY <2>2 DEF ClientStep, Abandon, UserByEmail, Admit, UpdateLoginFailure, CompleteLogin,
                  Authenticate, Logout, SetUserActive, Finish, IInv, TypeOK
    <3>. QED
      BY <3>1 DEF InStage, IInv, TypeOK
  <2>4. PICK t \in Tokens : Authenticate(c, t)
    BY <2>2, <2>3 DEF ClientStep, Abandon, UserByEmail, Admit, UpdateLoginFailure, CompleteLogin,
                Logout, SetUserActive, Finish, InStage, IInv, TypeOK
  <2>5. request'[c].token = t
    BY <2>4 DEF Authenticate, IInv, TypeOK
  <2>6. session[t] # None /\ ~session[t].revoked
    BY <2>4 DEF Authenticate, Usable
  <2>. QED
    BY <2>5, <2>6 DEF IInv, RetiredRowsAreDead
<1>. QED
  BY <1>1, Invariance, PTL DEF Spec, RetiredTokensStayOut

(* DeleteExpiredSessions compares text, and yet takes no row that could    *)
(* still admit a request, but in the second in which it expires.           *)
THEOREM CleanupIsSafe == Spec => CleanupSparesLiveSessions
<1>. DEFINE A == \A t \in Tokens : session[t] # None /\ session'[t] = None
                    => ~Usable(t, clock) \/ second(session[t].expires) = second(clock)
<1>1. IInv /\ [Next]_vars => [A]_vars
  <2>. SUFFICES ASSUME IInv, Next, NEW t \in Tokens, session[t] # None, session'[t] = None,
                       Usable(t, clock)
                PROVE  second(session[t].expires) = second(clock)
    OBVIOUS
  <2>1. session[t] \in SessionRow /\ clock \in Nat
    BY DEF IInv, TypeOK
  <2>2. CASE DeleteExpiredSessions
    <3>1. Deletable(session[t])
      BY <2>2 DEF DeleteExpiredSessions
    <3>2. TextLeq(session[t].expires, clock)
      BY <3>1 DEF Deletable, Usable
    <3>3. session[t].expires \in Nat /\ ~(session[t].expires <= clock)
      BY <2>1 DEF Usable, SessionRow
    <3>. QED
      BY <2>1, <3>2, <3>3, TextOrdersSeconds
  <2>3. ASSUME NEW c \in Clients, ClientStep(c)
        PROVE  FALSE
    <3>1. CASE session' = session
      BY <3>1
    <3>2. ASSUME NEW x \in Tokens, CompleteLogin(c, x)
          PROVE  FALSE
      <4>1. x # t
        BY <3>2 DEF CompleteLogin, IInv, RowsAreIssued
      <4>. QED
        BY <4>1, <3>2 DEF CompleteLogin, IInv, TypeOK
    <3>3. CASE session'[t] = [session[t] EXCEPT !.revoked = TRUE]
      BY <2>1, <3>3, RevokedRow, NoRowIsNone
    <3>4. CASE Logout(c)
      BY <3>1, <3>3, <3>4 DEF Logout, IInv, TypeOK
    <3>5. ASSUME NEW u \in Users, NEW active \in BOOLEAN, SetUserActive(c, u, active)
          PROVE  FALSE
      BY <3>3, <3>5 DEF SetUserActive
    <3>. QED
      BY <2>3, <3>1, <3>2, <3>4, <3>5
         DEF ClientStep, Abandon, UserByEmail, Admit, UpdateLoginFailure, Authenticate
  <2>. QED
    BY <2>2, <2>3 DEF Next, Tick
<1>. QED
  BY <1>1, Invariance, PTL DEF Spec, CleanupSparesLiveSessions

(* "supervisor cannot deactivate their current account": whoever switches  *)
(* the last active supervisor off was themselves switched off while their  *)
(* request was under way (Service.SetUserActive).                          *)
THEOREM SupervisionLasts == Spec => SomeoneInCharge
<1>. DEFINE A == InCharge # {} /\ InCharge' = {} =>
                    \E c \in Clients : /\ InStage(c, "acting") /\ request'[c] = None
                                       /\ ~user[request[c].user].active
<1>1. IInv /\ [Next]_vars => [A]_vars
  <2>. SUFFICES ASSUME IInv, Next, InCharge # {}, InCharge' = {}
                PROVE  \E c \in Clients : /\ InStage(c, "acting") /\ request'[c] = None
                                          /\ ~user[request[c].user].active
    OBVIOUS
  <2>1. PICK s \in InCharge : s \notin InCharge'
    OBVIOUS
  <2>2. s \in Supervisors /\ s \in Users /\ user[s].active /\ ~user'[s].active
    BY <2>1, AuthSessionsAssumption DEF InCharge
  <2>3. PICK c \in Clients : ClientStep(c)
    BY <2>2 DEF Next, Tick, DeleteExpiredSessions
  <2>4. \A v \in Users : user[v] \in UserRow
    BY DEF IInv, TypeOK
  <2>5. ~UpdateLoginFailure(c)
    <3>. SUFFICES ASSUME UpdateLoginFailure(c) PROVE user'[s].active = user[s].active
      BY <2>2
    <3>. QED
      BY <2>2, <2>4 DEF UpdateLoginFailure, IInv, TypeOK, UserRow
  <2>6. ASSUME NEW t \in Tokens PROVE ~CompleteLogin(c, t)
    <3>. SUFFICES ASSUME CompleteLogin(c, t) PROVE user'[s].active = user[s].active
      BY <2>2
    <3>. QED
      BY <2>2, <2>4 DEF CompleteLogin, IInv, TypeOK, UserRow
  <2>7. PICK u \in Users, active \in BOOLEAN : SetUserActive(c, u, active)
    BY <2>2, <2>3, <2>5, <2>6 DEF ClientStep, Abandon, UserByEmail, Admit, Authenticate, Logout
  <2>8. /\ u = s /\ ~active
        /\ \A v \in Users \ {u} : user'[v] = user[v]
    BY <2>2, <2>4, <2>7 DEF SetUserActive, IInv, TypeOK, UserRow
  <2>9. PICK actor : actor = request[c].user
    OBVIOUS
  <2>10. actor \in Supervisors /\ actor # s
    BY <2>7, <2>8, <2>9 DEF SetUserActive, MaySetActive
  <2>11. ~user[actor].active
    BY <2>8, <2>10, AuthSessionsAssumption DEF InCharge
  <2>12. InStage(c, "acting") /\ request'[c] = None
    BY <2>7 DEF SetUserActive, Finish, IInv, TypeOK
  <2>. QED
    BY <2>9, <2>11, <2>12
<1>. QED
  BY <1>1, Invariance, PTL DEF Spec, SomeoneInCharge
=============================================================================
