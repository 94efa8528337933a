-------------------------------- MODULE Auth --------------------------------
(***************************************************************************)
(* Accounts and sessions of services/api: registration, login behind an    *)
(* account lockout, and refresh-token rotation (internal/handler/auth.go   *)
(* over internal/auth/auth.go).                                            *)
(*                                                                         *)
(* The lockout table, the revocation list and the signing key pair live in *)
(* the process: each of their methods takes a mutex once and is one step,  *)
(* and a restart empties the first two and replaces the third.  Users live *)
(* in PostgreSQL and survive.                                              *)
(*                                                                         *)
(* The token store knows tokens by the strings presented.  A string stands *)
(* for an issued token, of either kind: neither Refresh nor the rotation   *)
(* looks at a token's type.  That several strings may stand for one token  *)
(* is left to the JWT library (external), as the constant Spellings.       *)
(***************************************************************************)
EXTENDS Naturals

CONSTANTS
    Users,              \* e-mail addresses people register and log in with
    Reqs,               \* HTTP requests in flight at once
    MaxFailedAttempts,
    LockoutDuration,    \* in clock ticks
    AccessTokenTTL,
    RefreshTokenTTL,
    Spellings,          \* strings the JWT library reads as one token
    MaxTokens,          \* bound: pairs of tokens issued
    MaxTime,            \* bound: clock ticks
    MaxWrong,           \* bound: logins with a wrong password
    MaxRestarts         \* bound: process restarts

ASSUME ParametersAssumption ==
    /\ Users # {}
    /\ MaxFailedAttempts \in Nat \ {0}
    /\ LockoutDuration \in Nat \ {0}
    /\ AccessTokenTTL \in Nat \ {0} /\ RefreshTokenTTL \in Nat \ {0}
    /\ MaxTokens \in Nat /\ MaxTime \in Nat /\ MaxWrong \in Nat /\ MaxRestarts \in Nat

VARIABLES
    now,        \* the clock
    epoch,      \* which key pair the running process signs with
    registered, \* rows of the users table
    lock,       \* LockoutManager.accounts: failures and LockedUntil (0 if nil)
    tokens,     \* pairs of tokens in clients' hands, in the order issued
    issued,     \* how many there are
    revoked,    \* MemoryTokenStore.revoked
    reused,     \* MemoryTokenStore.revokedReused
    req,        \* requests in flight
    wrong       \* wrong passwords sent so far

\* History variables.
VARIABLES
    created,    \* per address: registrations answered 201
    told,       \* per account: logins answered 401 since it was last reset
    spent       \* strings whose exchange was answered with a new pair

authVars == <<lock, revoked, reused>>
ghosts == <<created, told, spent>>
vars == <<now, epoch, registered, lock, tokens, issued, revoked, reused, req, wrong,
          created, told, spent>>

TokenIds == 1..MaxTokens
NoLock == [failed |-> 0, until |-> 0]

\* What a client may present: a spelling of a token of the id-th pair.
Kinds == {"access", "refresh"}
Strings == [id : TokenIds, kind : Kinds, form : Spellings]
NoString == [id |-> 0, kind |-> "none", form |-> "none"]

\* A pair of tokens: whose, signed with which key pair, when each expires, and
\* the string it was given for.
NoToken == [user |-> CHOOSE u \in Users : TRUE, epoch |-> 0, exp |-> [k \in Kinds |-> 0],
            parent |-> NoString]

\* A request: where it is, whose, the string it presents, and whether that
\* string had already been spent when the request came in.
Idle == [at |-> "idle", user |-> CHOOSE u \in Users : TRUE, str |-> NoString, late |-> FALSE]
At(at, u, s) == [at |-> at, user |-> u, str |-> s, late |-> s \in spent]

Init ==
    /\ now = 1
    /\ epoch = 1
    /\ registered = {}
    /\ lock = [u \in Users |-> NoLock]
    /\ tokens = [t \in TokenIds |-> NoToken]
    /\ issued = 0
    /\ revoked = {}
    /\ reused = {}
    /\ req = [r \in Reqs |-> Idle]
    /\ wrong = 0
    /\ created = [u \in Users |-> 0]
    /\ told = [u \in Users |-> 0]
    /\ spent = {}

----------------------------------------------------------------------------
(* Registration.                                                           *)

\* The address is looked up; a known one is answered 409.
Register(r, u) ==
    /\ req[r].at = "idle"
    /\ u \notin registered
    /\ issued < MaxTokens
    /\ req' = [req EXCEPT ![r] = At("create", u, NoString)]
    /\ UNCHANGED <<now, epoch, registered, authVars, tokens, issued, wrong, ghosts>>

\* Mutant of RegisterCreate (OneAccountPerAddress): no UNIQUE constraint.
RegisterCreateAnyway(r) ==
    LET u == req[r].user IN
    /\ req[r].at = "create"
    /\ registered' = registered \union {u}
    /\ created' = [created EXCEPT ![u] = @ + 1]
    /\ req' = [req EXCEPT ![r].at = "issue"]
    /\ UNCHANGED <<now, epoch, authVars, tokens, issued, wrong, told, spent>>

\* The INSERT: users.email is UNIQUE, so the loser of a race gets an error
\* (answered 500) and creates nothing.
RegisterCreate(r) ==
    LET u == req[r].user IN
    /\ req[r].at = "create"
    /\ \/ /\ u \in registered
          /\ req' = [req EXCEPT ![r] = Idle]
          /\ UNCHANGED <<registered, created>>
       \/ /\ u \notin registered
          /\ registered' = registered \union {u}
          /\ created' = [created EXCEPT ![u] = @ + 1]
          /\ req' = [req EXCEPT ![r].at = "issue"]
    /\ UNCHANGED <<now, epoch, authVars, tokens, issued, wrong, told, spent>>

----------------------------------------------------------------------------
(* Login.                                                                  *)

Locked(u) == lock[u].until # 0 /\ now < lock[u].until

\* The user is found and CheckLockout passes; a locked account is answered
\* 429.  The password is then verified: bcrypt takes its time.
LoginCheck(r, u, right) ==
    /\ req[r].at = "idle"
    /\ u \in registered
    /\ ~Locked(u)
    /\ IF right THEN issued < MaxTokens /\ UNCHANGED wrong
                ELSE wrong < MaxWrong /\ wrong' = wrong + 1
    /\ req' = [req EXCEPT ![r] = At(IF right THEN "reset" ELSE "fail", u, NoString)]
    /\ UNCHANGED <<now, epoch, registered, authVars, tokens, issued, ghosts>>

\* Mutant of FailedCount (AnswersBounded): a released account starts afresh.
FailedCountAfresh(u) == IF lock[u].until # 0 THEN 1 ELSE lock[u].failed + 1

\* The failures of an account, counting the present one: they survive the
\* lock's expiry.
FailedCount(u) == lock[u].failed + 1

\* RecordFailedAttempt: a failure of a locked account is not counted; the one
\* that reaches the maximum locks it.
LoginFail(r) ==
    LET u == req[r].user
        n == FailedCount(u)
    IN
    /\ req[r].at = "fail"
    /\ \/ Locked(u) /\ UNCHANGED <<lock, told>>
       \/ /\ ~Locked(u)
          /\ n >= MaxFailedAttempts
          /\ lock' = [lock EXCEPT ![u] = [failed |-> n, until |-> now + LockoutDuration]]
          /\ UNCHANGED told
       \/ /\ ~Locked(u)
          /\ n < MaxFailedAttempts
          /\ lock' = [lock EXCEPT ![u].failed = n]
          /\ told' = [told EXCEPT ![u] = @ + 1]
    /\ req' = [req EXCEPT ![r] = Idle]
    /\ UNCHANGED <<now, epoch, registered, tokens, issued, revoked, reused, wrong,
                   created, spent>>

\* ResetAttempts deletes the entry, lock included.
LoginReset(r) ==
    LET u == req[r].user IN
    /\ req[r].at = "reset"
    /\ lock' = [lock EXCEPT ![u] = NoLock]
    /\ told' = [told EXCEPT ![u] = 0]
    /\ req' = [req EXCEPT ![r].at = "issue"]
    /\ UNCHANGED <<now, epoch, registered, tokens, issued, revoked, reused, wrong,
                   created, spent>>

----------------------------------------------------------------------------
(* Tokens.                                                                 *)

\* ValidateToken: signed by the running process and not expired.
Valid(s) == tokens[s.id].epoch = epoch /\ now < tokens[s.id].exp[s.kind]

\* A refresh token has an ID of its own.  Access tokens have none: those that
\* a user is given in one second are one token, which we call the first's.
Canonical(s) ==
    s.kind = "access" =>
        \A t \in 1..s.id - 1 : \/ tokens[t].user # tokens[s.id].user
                               \/ tokens[t].epoch # tokens[s.id].epoch
                               \/ tokens[t].exp["access"] # tokens[s.id].exp["access"]

\* When the tokens signed now expire.
Expiry == [k \in Kinds |-> now + IF k = "access" THEN AccessTokenTTL ELSE RefreshTokenTTL]

\* Mutant of NewToken (TypeOK): the pair is recorded as its own successor.
NewTokenSelf(r) ==
    [user |-> req[r].user, epoch |-> epoch, exp |-> Expiry,
     parent |-> IF req[r].str = NoString THEN NoString ELSE [req[r].str EXCEPT !.id = issued + 1]]

\* The pair of tokens a request is answered with.
NewToken(r) == [user |-> req[r].user, epoch |-> epoch, exp |-> Expiry, parent |-> req[r].str]

\* The end of Register, Login and Refresh: an access and a refresh token are
\* signed and returned.  (The refresh token is stored too; nothing reads that.)
Issue(r) ==
    /\ req[r].at = "issue"
    /\ issued < MaxTokens
    /\ issued' = issued + 1
    /\ tokens' = [tokens EXCEPT ![issued + 1] = NewToken(r)]
    /\ spent' = IF req[r].str = NoString THEN spent ELSE spent \union {req[r].str}
    /\ req' = [req EXCEPT ![r] = Idle]
    /\ UNCHANGED <<now, epoch, registered, authVars, wrong, created, told>>

\* Refresh: a token of this process that has not expired passes validation,
\* an access token as well; the account type is then read from the database.
RefreshBegin(r, s) ==
    /\ req[r].at = "idle"
    /\ s.id <= issued
    /\ Canonical(s)
    /\ Valid(s)
    /\ issued < MaxTokens
    /\ req' = [req EXCEPT ![r] = At("rotate", tokens[s.id].user, s)]
    /\ UNCHANGED <<now, epoch, registered, authVars, tokens, issued, wrong, ghosts>>

\* RotateRefreshToken validates again and asks whether the string is revoked;
\* if so, the reuse is recorded (the flag is only ever set, so asking and
\* recording are one step).
RotateCheck(r) ==
    LET s == req[r].str IN
    /\ req[r].at = "rotate"
    /\ \/ ~Valid(s) /\ req' = [req EXCEPT ![r] = Idle] /\ UNCHANGED reused
       \/ /\ Valid(s)
          /\ s \in revoked
          /\ reused' = reused \union {s}
          /\ req' = [req EXCEPT ![r] = Idle]
       \/ /\ Valid(s)
          /\ s \notin revoked
          /\ req' = [req EXCEPT ![r].at = "revoke"]
          /\ UNCHANGED reused
    /\ UNCHANGED <<now, epoch, registered, lock, revoked, tokens, issued, wrong, ghosts>>

\* Mutant of RotateRevoke (AncestorsRevoked): the string is not revoked.
RotateRevokeNot(r) ==
    /\ req[r].at = "revoke"
    /\ req' = [req EXCEPT ![r].at = "issue"]
    /\ UNCHANGED <<now, epoch, registered, authVars, tokens, issued, wrong, ghosts>>

\* RevokeRefreshToken, under another acquisition of the store's mutex.
RotateRevoke(r) ==
    /\ req[r].at = "revoke"
    /\ revoked' = revoked \union {req[r].str}
    /\ req' = [req EXCEPT ![r].at = "issue"]
    /\ UNCHANGED <<now, epoch, registered, lock, reused, tokens, issued, wrong, ghosts>>

----------------------------------------------------------------------------

Tick ==
    /\ now < MaxTime
    /\ now' = now + 1
    /\ UNCHANGED <<epoch, registered, authVars, tokens, issued, req, wrong, ghosts>>

\* Mutant of Restart (SpentStaysSpent): the key pair outlives the process, the
\* revocation list does not.
RestartSameKeys ==
    /\ epoch <= MaxRestarts
    /\ lock' = [u \in Users |-> NoLock]
    /\ revoked' = {}
    /\ reused' = {}
    /\ req' = [r \in Reqs |-> Idle]
    /\ told' = [u \in Users |-> 0]
    /\ UNCHANGED <<now, epoch, registered, tokens, issued, wrong, created, spent>>

\* The process restarts: a new key pair, an empty token store and lockout
\* table; requests in flight are cut off.
Restart ==
    /\ epoch <= MaxRestarts
    /\ epoch' = epoch + 1
    /\ lock' = [u \in Users |-> NoLock]
    /\ revoked' = {}
    /\ reused' = {}
    /\ req' = [r \in Reqs |-> Idle]
    /\ told' = [u \in Users |-> 0]
    /\ UNCHANGED <<now, registered, tokens, issued, wrong, created, spent>>

Next ==
    \/ \E r \in Reqs, u \in Users : Register(r, u)
    \/ \E r \in Reqs : RegisterCreate(r)
    \/ \E r \in Reqs, u \in Users, right \in BOOLEAN : LoginCheck(r, u, right)
    \/ \E r \in Reqs : LoginFail(r)
    \/ \E r \in Reqs : LoginReset(r)
    \/ \E r \in Reqs : Issue(r)
    \/ \E r \in Reqs, s \in Strings : RefreshBegin(r, s)
    \/ \E r \in Reqs : RotateCheck(r)
    \/ \E r \in Reqs : RotateRevoke(r)
    \/ Tick
    \/ Restart

Spec == Init /\ [][Next]_vars

----------------------------------------------------------------------------
(* Properties.                                                             *)

Presentable == Strings \union {NoString}
Token == [user : Users, epoch : Nat, exp : [Kinds -> Nat], parent : Presentable]

\* Every variable has its type; tokens descend from earlier ones, and a
\* request that rotates presents a string for a token of its own user.
TypeOK ==
    /\ now \in Nat /\ epoch \in Nat /\ issued \in 0..MaxTokens /\ wrong \in Nat
    /\ registered \subseteq Users
    /\ lock \in [Users -> [failed : Nat, until : Nat]]
    /\ tokens \in [TokenIds -> Token]
    /\ revoked \subseteq Strings /\ reused \subseteq Strings /\ spent \subseteq Strings
    /\ req \in [Reqs -> [at : {"idle", "create", "fail", "reset", "issue", "rotate", "revoke"},
                         user : Users, str : Presentable, late : BOOLEAN]]
    /\ created \in [Users -> Nat]
    /\ told \in [Users -> Nat]
    /\ \A t \in TokenIds : tokens[t].parent.id < t
    /\ \A r \in Reqs :
         /\ req[r].at \in {"rotate", "revoke"} => req[r].str # NoString
         /\ req[r].str # NoString => /\ req[r].str.id <= issued
                                     /\ tokens[req[r].str.id].user = req[r].user

\* Rotation revokes what was presented: every pair in a client's hands that the
\* running process would accept was given for revoked strings only, all the way
\* back, and reuse is recorded of revoked strings only, however refreshes
\* overlap.
AncestorsRevoked ==
    /\ \A t \in TokenIds :
         (t <= issued /\ tokens[t].epoch = epoch /\ tokens[t].parent # NoString) =>
             tokens[t].parent \in revoked
    /\ reused \subseteq revoked

\* A spent string stays dead: a refresh that came in after the exchange of the
\* string it presents was answered gets no new pair, although a restart empties
\* the revocation list (the key pair goes with it).  It is the string that is
\* dead, and not what else may stand for the token.
SpentStaysSpent ==
    \A r \in Reqs : req[r].late => req[r].at \in {"idle", "rotate"}

\* A wrong password is answered 401 fewer than MaxFailedAttempts times between
\* two successful logins or restarts, however many logins overlap and however
\* often the account was locked and released in between.
AnswersBounded == \A u \in Users : told[u] < MaxFailedAttempts

\* An address is registered at most once, although two requests may both find
\* it free (Register looks it up, hashes the password, then inserts).
OneAccountPerAddress == \A u \in Users : created[u] <= 1

\* A locked account stays locked until its time: no login, right or wrong,
\* changes the entry before ("correct password during lockout must still
\* return 429").
LockHonoured ==
    [][\A u \in Users : (Locked(u) /\ epoch' = epoch) => lock'[u] = lock[u]]_vars

\* One string is exchanged for at most one new pair ("Refresh Token Rotation
\* Invalidates Previous Token").
RotatedOnce ==
    \A t1, t2 \in 1..issued :
        (tokens[t1].parent # NoString /\ tokens[t1].parent = tokens[t2].parent) => t1 = t2
=============================================================================
