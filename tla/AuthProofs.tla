----------------------------- MODULE AuthProofs -----------------------------
(***************************************************************************)
(* What holds of Auth for every number of users, requests in flight,       *)
(* attempts, tokens and restarts.                                          *)
(***************************************************************************)
EXTENDS Auth, TLAPS

\* What a request in flight has established.  A request that rotates carries a
\* string for a token of the running process; from its revocation on the string
\* is on the list, and one spent before the request came in never gets that far.
InFlight(r) ==
    /\ req[r].at \in {"rotate", "revoke"} => req[r].str # NoString
    /\ req[r].str # NoString =>
         /\ req[r].at \in {"idle", "rotate", "revoke", "issue"}
         /\ tokens[req[r].str.id].epoch = epoch
    /\ (req[r].at = "issue" /\ req[r].str # NoString) => req[r].str \in revoked
    /\ req[r].late => /\ req[r].at \in {"idle", "rotate"}
                      /\ req[r].str \in spent

\* Tokens: signed by this process or an earlier one; the strings this process's
\* tokens were given for, and the spent strings for its tokens, are revoked;
\* unissued pairs are blank.
TokenInv ==
    /\ \A t \in TokenIds : tokens[t].epoch <= epoch
    /\ \A t \in TokenIds : t > issued => tokens[t] = NoToken
    /\ \A s \in spent : s.id <= issued /\ (tokens[s.id].epoch = epoch => s \in revoked)
    /\ \A t \in TokenIds :
         (tokens[t].epoch = epoch /\ tokens[t].parent # NoString) => tokens[t].parent \in revoked
    /\ reused \subseteq revoked

\* Answers 401 are counted by the lockout table, registrations by the table of
\* users.
CountInv ==
    /\ \A u \in Users : told[u] <= lock[u].failed /\ told[u] < MaxFailedAttempts
    /\ \A u \in Users : created[u] <= 1 /\ (created[u] = 1 => u \in registered)

Inv ==
    /\ TypeOK
    /\ epoch >= 1
    /\ \A r \in Reqs : InFlight(r)
    /\ TokenInv
    /\ CountInv

----------------------------------------------------------------------------

\* What a request is made of.
ReqType == [at : {"idle", "create", "fail", "reset", "issue", "rotate", "revoke"},
            user : Users, str : Presentable, late : BOOLEAN]

\* A request that presents a string presents one for an issued token of its
\* own user.
Presents(q) ==
    /\ q.at \in {"rotate", "revoke"} => q.str # NoString
    /\ q.str # NoString => q.str.id <= issued /\ tokens[q.str.id].user = q.user

\* TypeOK, its clauses about requests gathered.
LEMMA TypeParts ==
    TypeOK <=> /\ now \in Nat /\ epoch \in Nat /\ issued \in 0..MaxTokens /\ wrong \in Nat
               /\ registered \subseteq Users
               /\ lock \in [Users -> [failed : Nat, until : Nat]]
               /\ tokens \in [TokenIds -> Token]
               /\ revoked \subseteq Strings /\ reused \subseteq Strings
               /\ spent \subseteq Strings
               /\ created \in [Users -> Nat] /\ told \in [Users -> Nat]
               /\ \A t \in TokenIds : tokens[t].parent.id < t
               /\ req \in [Reqs -> ReqType]
               /\ \A s \in Reqs : Presents(req[s])
BY DEF TypeOK, ReqType, Presents

\* A string stands for a token; no string stands for none.
LEMMA StringFacts ==
    /\ NoString \in Presentable /\ NoString \notin Strings /\ NoString.id = 0
    /\ \A s \in Presentable : s # NoString <=> s \in Strings
    /\ \A s \in Presentable : s.id \in Nat
    /\ \A s \in Strings : s.id \in TokenIds /\ s.kind \in Kinds /\ s # NoString
<1>1. NoString \in Presentable /\ NoString.id = 0 /\ NoString.kind = "none"
  BY DEF NoString, Presentable
<1>2. \A s \in Strings : s.id \in TokenIds /\ s.kind \in Kinds  BY DEF Strings
<1>3. NoString \notin Strings  BY <1>1, <1>2 DEF Kinds
<1>4. \A s \in Presentable : s # NoString <=> s \in Strings  BY <1>3 DEF Presentable
<1>5. \A s \in Presentable : s.id \in Nat
  <2>1. \A s \in Strings : s.id \in Nat  BY <1>2 DEF TokenIds
  <2> QED  BY <1>1, <2>1 DEF Presentable
<1> QED  BY <1>1, <1>2, <1>3, <1>4, <1>5

\* A time of expiry for each kind.
LEMMA ExpiryType == now \in Nat => Expiry \in [Kinds -> Nat]
BY ParametersAssumption DEF Expiry

\* Blank entries are well typed: there is an address to fill them with.
LEMMA BlankType ==
    /\ NoToken \in Token /\ NoToken.parent = NoString /\ NoToken.epoch = 0
    /\ Idle \in ReqType /\ Idle.at = "idle" /\ Idle.str = NoString /\ Idle.late = FALSE
    /\ Presents(Idle)
    /\ NoLock \in [failed : Nat, until : Nat] /\ NoLock.failed = 0
BY ParametersAssumption, StringFacts DEF NoToken, Idle, NoLock, Token, ReqType, Presents

\* Initially nothing was issued, counted or revoked.
LEMMA InvInit == Init => Inv
<1> SUFFICES ASSUME Init PROVE Inv  OBVIOUS
<1> USE DEF Init
<1>1. TypeOK
  <2>1. tokens \in [TokenIds -> Token] /\ \A t \in TokenIds : tokens[t].parent.id < t
    BY BlankType, StringFacts DEF TokenIds
  <2>2. req \in [Reqs -> ReqType] /\ \A r \in Reqs : Presents(req[r])
    BY BlankType
  <2>3. lock \in [Users -> [failed : Nat, until : Nat]]  BY BlankType
  <2> QED  BY <2>1, <2>2, <2>3, TypeParts, ParametersAssumption
<1>2. \A r \in Reqs : InFlight(r)
  BY BlankType DEF InFlight
<1>3. TokenInv
  BY BlankType DEF TokenInv, TokenIds
<1>4. CountInv
  BY BlankType, ParametersAssumption DEF CountInv, NoLock
<1> QED  BY <1>1, <1>2, <1>3, <1>4 DEF Inv

\* The requests of the other goroutines are where they were.
LEMMA OneRequest ==
    ASSUME TypeOK, NEW r \in Reqs, NEW q, req' = [req EXCEPT ![r] = q]
    PROVE  /\ req'[r] = q
           /\ \A s \in Reqs : s # r => req'[s] = req[s]
BY DEF TypeOK

\* What a request is when it enters a handler.
LEMMA AtType ==
    ASSUME NEW at, NEW u \in Users, NEW t
    PROVE  /\ At(at, u, t).at = at /\ At(at, u, t).user = u /\ At(at, u, t).str = t
           /\ At(at, u, t).late = (t \in spent)
BY DEF At

----------------------------------------------------------------------------
(* Types.                                                                  *)

\* A step that rewrites one request keeps the requests well typed.
LEMMA RequestType ==
    ASSUME TypeOK, NEW r \in Reqs, NEW q \in ReqType, Presents(q),
           req' = [req EXCEPT ![r] = q], UNCHANGED <<tokens, issued>>
    PROVE  /\ req' \in [Reqs -> ReqType]
           /\ \A s \in Reqs : Presents(req[s])'
BY DEF TypeOK, Presents, ReqType

\* Every step keeps the types.
LEMMA TypeStep == TypeOK /\ [Next]_vars => TypeOK'
<1> SUFFICES ASSUME TypeOK, [Next]_vars PROVE TypeOK'  OBVIOUS
<1> USE ParametersAssumption
<1>n. \A r \in Reqs : req[r] \in ReqType /\ Presents(req[r])
  BY TypeParts
<1>a. ASSUME NEW at \in {"create", "fail", "reset"}, NEW u \in Users
      PROVE  At(at, u, NoString) \in ReqType /\ Presents(At(at, u, NoString))
  BY StringFacts DEF At, ReqType, Presents
<1>1. ASSUME NEW r \in Reqs, NEW u \in Users, Register(r, u) PROVE TypeOK'
  <2>1. At("create", u, NoString) \in ReqType /\ Presents(At("create", u, NoString))  BY <1>a
  <2>2. req' \in [Reqs -> ReqType] /\ \A s \in Reqs : Presents(req[s])'
    BY <1>1, <2>1, RequestType DEF Register
  <2> QED  BY <1>1, <2>2 DEF Register, authVars, ghosts, TypeOK, Presents, ReqType
<1>2. ASSUME NEW r \in Reqs, RegisterCreate(r) PROVE TypeOK'
  <2> DEFINE q == [req[r] EXCEPT !.at = "issue"]
  <2>1. q \in ReqType /\ (req[r].at = "create" => Presents(q))
    BY <1>n DEF ReqType, Presents
  <2>2. req' = [req EXCEPT ![r] = Idle] \/ req' = [req EXCEPT ![r] = q]
    BY <1>2 DEF RegisterCreate
  <2>3. req[r].at = "create" /\ UNCHANGED <<tokens, issued>>  BY <1>2 DEF RegisterCreate
  <2>4. req' \in [Reqs -> ReqType] /\ \A s \in Reqs : Presents(req[s])'
    <3> HIDE DEF q
    <3> QED  BY <2>1, <2>2, <2>3, RequestType, BlankType
  <2>5. registered' \subseteq Users /\ created' \in [Users -> Nat]
    <3>1. req[r].user \in Users  BY <1>n DEF ReqType
    <3>2. registered' \subseteq Users  BY <1>2, <3>1 DEF RegisterCreate, TypeOK
    <3>3. created' \in [Users -> Nat]  BY <1>2, <3>1 DEF RegisterCreate, TypeOK
    <3> QED  BY <3>2, <3>3
  <2> QED  BY <1>2, <2>4, <2>5 DEF RegisterCreate, authVars, TypeOK, Presents, ReqType
<1>3. ASSUME NEW r \in Reqs, NEW u \in Users, NEW right \in BOOLEAN, LoginCheck(r, u, right)
      PROVE  TypeOK'
  <2> DEFINE q == At(IF right THEN "reset" ELSE "fail", u, NoString)
  <2>1. q \in ReqType /\ Presents(q)  BY <1>a
  <2>2. req' = [req EXCEPT ![r] = q] /\ UNCHANGED <<tokens, issued>>
    BY <1>3 DEF LoginCheck
  <2>3. req' \in [Reqs -> ReqType] /\ \A s \in Reqs : Presents(req[s])'
    <3> HIDE DEF q
    <3> QED  BY <2>1, <2>2, RequestType
  <2>4. wrong' \in Nat  BY <1>3 DEF LoginCheck, TypeOK
  <2> QED  BY <1>3, <2>3, <2>4 DEF LoginCheck, authVars, ghosts, TypeOK, Presents, ReqType
<1>4. ASSUME NEW r \in Reqs, LoginFail(r) PROVE TypeOK'
  <2>1. req' \in [Reqs -> ReqType] /\ \A s \in Reqs : Presents(req[s])'
    BY <1>4, BlankType, RequestType DEF LoginFail
  <2>2. FailedCount(req[r].user) \in Nat /\ now + LockoutDuration \in Nat
    BY <1>n DEF FailedCount, TypeOK, ReqType
  <2> DEFINE u == req[r].user
             n == FailedCount(u)
  <2>3. lock' \in [Users -> [failed : Nat, until : Nat]] /\ told' \in [Users -> Nat]
    <3>1. \/ lock' = lock /\ told' = told
          \/ lock' = [lock EXCEPT ![u] = [failed |-> n, until |-> now + LockoutDuration]]
             /\ told' = told
          \/ lock' = [lock EXCEPT ![u].failed = n]
             /\ told' = [told EXCEPT ![u] = @ + 1]
      BY <1>4 DEF LoginFail
    <3>2. n \in Nat /\ u \in Users  BY <2>2, <1>n DEF ReqType
    <3> HIDE DEF n, u
    <3> QED  BY <3>1, <3>2, <2>2 DEF TypeOK
  <2> QED  BY <1>4, <2>1, <2>3 DEF LoginFail, TypeOK, Presents, ReqType
<1>5. ASSUME NEW r \in Reqs, LoginReset(r) PROVE TypeOK'
  <2> DEFINE q == [req[r] EXCEPT !.at = "issue"]
  <2>1. q \in ReqType /\ (req[r].at = "reset" => Presents(q))
    BY <1>n DEF ReqType, Presents
  <2>2. req' = [req EXCEPT ![r] = q] /\ req[r].at = "reset" /\ UNCHANGED <<tokens, issued>>
    BY <1>5 DEF LoginReset
  <2>3. req' \in [Reqs -> ReqType] /\ \A s \in Reqs : Presents(req[s])'
    <3> HIDE DEF q
    <3> QED  BY <2>1, <2>2, RequestType
  <2>4. lock' \in [Users -> [failed : Nat, until : Nat]] /\ told' \in [Users -> Nat]
    BY <1>5, BlankType DEF LoginReset, TypeOK
  <2> QED  BY <1>5, <2>3, <2>4 DEF LoginReset, TypeOK, Presents, ReqType
<1>6. ASSUME NEW r \in Reqs, Issue(r) PROVE TypeOK'
  <2>1. NewToken(r) \in Token /\ NewToken(r).parent.id < issued + 1
    BY <1>n, StringFacts, ExpiryType DEF NewToken, Token, TypeOK, ReqType, Presents
  <2>2. issued + 1 \in TokenIds /\ issued' = issued + 1 /\ issued' \in 0..MaxTokens
    BY <1>6 DEF Issue, TypeOK, TokenIds
  <2>3. tokens' = [tokens EXCEPT ![issued + 1] = NewToken(r)]  BY <1>6 DEF Issue
  <2>4. tokens' \in [TokenIds -> Token] /\ \A t \in TokenIds : tokens'[t].parent.id < t
    BY <2>1, <2>2, <2>3 DEF TypeOK
  <2>5. req' = [req EXCEPT ![r] = Idle]  BY <1>6 DEF Issue
  <2>6. req' \in [Reqs -> ReqType]  BY <1>n, <2>5, BlankType DEF TypeOK, ReqType
  <2>7. \A s \in Reqs : Presents(req[s])'
    <3> SUFFICES ASSUME NEW s \in Reqs PROVE Presents(req[s])'  OBVIOUS
    <3>1. CASE s = r  BY <3>1, <2>5, BlankType DEF TypeOK, Presents
    <3>2. CASE s # r
      <4>1. req'[s] = req[s]  BY <3>2, <2>5 DEF TypeOK
      <4>2. req[s].str # NoString => tokens'[req[s].str.id] = tokens[req[s].str.id]
        <5>1. req[s].str \in Presentable /\ Presents(req[s])  BY <1>n DEF ReqType
        <5>2. req[s].str # NoString => req[s].str.id \in TokenIds /\ req[s].str.id <= issued
          BY <5>1, StringFacts DEF Presents
        <5> QED  BY <5>2, <2>2, <2>3 DEF TypeOK
      <4>3. req[s].str.id \in Nat  BY <1>n, StringFacts DEF ReqType
      <4> QED  BY <4>1, <4>2, <4>3, <1>n, <2>2 DEF Presents, TypeOK
    <3> QED  BY <3>1, <3>2
  <2>8. spent' \subseteq Strings
    <3>1. req[r].str # NoString => req[r].str \in Strings
      BY <1>n, StringFacts DEF ReqType
    <3>2. spent' = spent \/ (req[r].str # NoString /\ spent' = spent \union {req[r].str})
      BY <1>6 DEF Issue
    <3> QED  BY <3>1, <3>2 DEF TypeOK
  <2> QED  BY <1>6, <2>2, <2>4, <2>6, <2>7, <2>8
           DEF Issue, authVars, TypeOK, Presents, ReqType
<1>7. ASSUME NEW r \in Reqs, NEW t \in Strings, RefreshBegin(r, t) PROVE TypeOK'
  <2> DEFINE q == At("rotate", tokens[t.id].user, t)
  <2>1. q \in ReqType /\ Presents(q)
    <3>1. tokens[t.id].user \in Users /\ t \in Presentable
      BY StringFacts DEF TypeOK, Token, Presentable
    <3>2. t.id <= issued  BY <1>7 DEF RefreshBegin
    <3>3. q = [at |-> "rotate", user |-> tokens[t.id].user, str |-> t, late |-> t \in spent]
      BY DEF At
    <3>4. q \in ReqType
      <4>1. (t \in spent) \in BOOLEAN  OBVIOUS
      <4> DEFINE b == t \in spent
      <4>2. q = [at |-> "rotate", user |-> tokens[t.id].user, str |-> t, late |-> b]
        BY <3>3
      <4>3. b \in BOOLEAN  BY <4>1
      <4> HIDE DEF q, b
      <4> QED  BY <3>1, <4>2, <4>3 DEF ReqType
    <3>5. q.str = t /\ q.user = tokens[t.id].user /\ t # NoString
      BY <3>3, StringFacts
    <3> HIDE DEF q
    <3> QED  BY <3>2, <3>4, <3>5 DEF Presents
  <2>2. req' = [req EXCEPT ![r] = q] /\ UNCHANGED <<tokens, issued>>
    BY <1>7 DEF RefreshBegin
  <2>3. req' \in [Reqs -> ReqType] /\ \A s \in Reqs : Presents(req[s])'
    <3> HIDE DEF q
    <3> QED  BY <2>1, <2>2, RequestType
  <2> QED  BY <1>7, <2>3 DEF RefreshBegin, authVars, ghosts, TypeOK, Presents, ReqType
<1>8. ASSUME NEW r \in Reqs, RotateCheck(r) PROVE TypeOK'
  <2> DEFINE q == [req[r] EXCEPT !.at = "revoke"]
  <2>1. q \in ReqType /\ (req[r].at = "rotate" => Presents(q))
    BY <1>n DEF ReqType, Presents
  <2>2. req' = [req EXCEPT ![r] = Idle] \/ req' = [req EXCEPT ![r] = q]
    BY <1>8 DEF RotateCheck
  <2>3. req[r].at = "rotate" /\ UNCHANGED <<tokens, issued>>
    BY <1>8 DEF RotateCheck
  <2>4. req' \in [Reqs -> ReqType] /\ \A s \in Reqs : Presents(req[s])'
    <3> HIDE DEF q
    <3> QED  BY <2>1, <2>2, <2>3, RequestType, BlankType
  <2>5. reused' \subseteq Strings  BY <1>8 DEF RotateCheck, TypeOK
  <2> QED  BY <1>8, <2>4, <2>5 DEF RotateCheck, ghosts, TypeOK, Presents, ReqType
<1>9. ASSUME NEW r \in Reqs, RotateRevoke(r) PROVE TypeOK'
  <2> DEFINE q == [req[r] EXCEPT !.at = "issue"]
  <2>1. q \in ReqType /\ (req[r].at = "revoke" => Presents(q))
    BY <1>n DEF ReqType, Presents
  <2>2. req' = [req EXCEPT ![r] = q] /\ req[r].at = "revoke" /\ UNCHANGED <<tokens, issued>>
    BY <1>9 DEF RotateRevoke
  <2>3. req' \in [Reqs -> ReqType] /\ \A s \in Reqs : Presents(req[s])'
    <3> HIDE DEF q
    <3> QED  BY <2>1, <2>2, RequestType
  <2>4. revoked' \subseteq Strings
    <3>1. req[r].str \in Strings
      BY <1>9, <1>n, StringFacts DEF RotateRevoke, ReqType, Presents
    <3> QED  BY <1>9, <3>1 DEF RotateRevoke, TypeOK
  <2> QED  BY <1>9, <2>3, <2>4 DEF RotateRevoke, ghosts, TypeOK, Presents, ReqType
<1>10. CASE Tick
  BY <1>10 DEF Tick, authVars, ghosts, TypeOK
<1>11. CASE Restart
  <2>1. req' \in [Reqs -> ReqType] /\ \A s \in Reqs : Presents(req[s])'
    BY <1>11, BlankType DEF Restart, Presents
  <2> QED  BY <1>11, <2>1, BlankType DEF Restart, TypeOK, Presents, ReqType
<1>12. CASE UNCHANGED vars
  BY <1>12 DEF vars, TypeOK
<1> QED  BY <1>1, <1>2, <1>3, <1>4, <1>5, <1>6, <1>7, <1>8, <1>9, <1>10, <1>11, <1>12 DEF Next

----------------------------------------------------------------------------
(* Counters.                                                               *)

\* Every step keeps what bounds the answers and the registrations: a failure
\* is answered 401 only when it is counted and stays below the maximum, and an
\* address gets its row at the moment the registration counts.
LEMMA CountStep == TypeOK /\ CountInv /\ [Next]_vars => CountInv'
<1> SUFFICES ASSUME TypeOK, CountInv, [Next]_vars PROVE CountInv'  OBVIOUS
<1> USE ParametersAssumption
<1>n. \A r \in Reqs : req[r].user \in Users  BY DEF TypeOK
<1>1. ASSUME NEW r \in Reqs, NEW u \in Users, Register(r, u) PROVE CountInv'
  BY <1>1 DEF Register, authVars, ghosts, CountInv
<1>2. ASSUME NEW r \in Reqs, RegisterCreate(r) PROVE CountInv'
  <2> DEFINE u == req[r].user
  <2>1. u \in Users /\ UNCHANGED <<told, lock>>  BY <1>2, <1>n DEF RegisterCreate, authVars
  <2>2. \/ UNCHANGED <<registered, created>>
        \/ /\ u \notin registered
           /\ registered' = registered \union {u}
           /\ created' = [created EXCEPT ![u] = @ + 1]
    BY <1>2 DEF RegisterCreate
  <2> HIDE DEF u
  <2>3. \A v \in Users : created[v] \in Nat  BY DEF TypeOK
  <2>4. \A v \in Users : created'[v] <= 1 /\ (created'[v] = 1 => v \in registered')
    <3>1. CASE UNCHANGED <<registered, created>>  BY <3>1 DEF CountInv
    <3>2. CASE /\ u \notin registered
               /\ registered' = registered \union {u}
               /\ created' = [created EXCEPT ![u] = @ + 1]
      <4>1. created[u] = 0  BY <2>1, <2>3, <3>2 DEF CountInv
      <4>2. created'[u] = 1 /\ u \in registered'  BY <2>1, <3>2, <4>1 DEF TypeOK
      <4>3. \A v \in Users : v # u => created'[v] = created[v]  BY <3>2 DEF TypeOK
      <4> QED  BY <3>2, <4>2, <4>3 DEF CountInv
    <3> QED  BY <2>2, <3>1, <3>2
  <2> QED  BY <2>1, <2>4 DEF CountInv
<1>3. ASSUME NEW r \in Reqs, NEW u \in Users, NEW right \in BOOLEAN, LoginCheck(r, u, right)
      PROVE  CountInv'
  BY <1>3 DEF LoginCheck, authVars, ghosts, CountInv
<1>4. ASSUME NEW r \in Reqs, LoginFail(r) PROVE CountInv'
  <2> DEFINE u == req[r].user
             n == lock[u].failed + 1
  <2>1. u \in Users /\ UNCHANGED <<registered, created>>  BY <1>4, <1>n DEF LoginFail
  <2>2. \/ UNCHANGED <<lock, told>>
        \/ /\ lock' = [lock EXCEPT ![u] = [failed |-> n, until |-> now + LockoutDuration]]
           /\ UNCHANGED told
        \/ /\ n < MaxFailedAttempts
           /\ lock' = [lock EXCEPT ![u].failed = n]
           /\ told' = [told EXCEPT ![u] = @ + 1]
    BY <1>4 DEF LoginFail, FailedCount
  <2>3. lock[u].failed \in Nat /\ told[u] \in Nat /\ told[u] <= lock[u].failed /\ n \in Nat
        /\ n = lock[u].failed + 1
    BY <2>1 DEF TypeOK, CountInv
  <2> HIDE DEF u, n
  <2>4. \A v \in Users : v # u => lock'[v] = lock[v] /\ told'[v] = told[v]
    BY <2>2 DEF TypeOK
  <2>5. \/ lock'[u] = lock[u] /\ told'[u] = told[u]
        \/ lock'[u].failed = n /\ told'[u] = told[u]
        \/ n < MaxFailedAttempts /\ lock'[u].failed = n /\ told'[u] = told[u] + 1
    BY <2>1, <2>2 DEF TypeOK
  <2>6. told'[u] <= lock'[u].failed /\ told'[u] < MaxFailedAttempts
    BY <2>1, <2>3, <2>5 DEF CountInv
  <2> QED  BY <2>1, <2>4, <2>6 DEF CountInv
<1>5. ASSUME NEW r \in Reqs, LoginReset(r) PROVE CountInv'
  <2> DEFINE u == req[r].user
  <2>1. u \in Users /\ UNCHANGED <<registered, created>>
        /\ lock' = [lock EXCEPT ![u] = NoLock] /\ told' = [told EXCEPT ![u] = 0]
    BY <1>5, <1>n DEF LoginReset
  <2> HIDE DEF u
  <2>2. \A v \in Users : v # u => lock'[v] = lock[v] /\ told'[v] = told[v]
    BY <2>1 DEF TypeOK
  <2>3. told'[u] = 0 /\ lock'[u].failed = 0  BY <2>1, BlankType DEF TypeOK
  <2> QED  BY <2>1, <2>2, <2>3 DEF CountInv
<1>6. ASSUME NEW r \in Reqs, Issue(r) PROVE CountInv'
  BY <1>6 DEF Issue, authVars, CountInv
<1>7. ASSUME NEW r \in Reqs, NEW t \in Strings, RefreshBegin(r, t) PROVE CountInv'
  BY <1>7 DEF RefreshBegin, authVars, ghosts, CountInv
<1>8. ASSUME NEW r \in Reqs, RotateCheck(r) PROVE CountInv'
  BY <1>8 DEF RotateCheck, ghosts, CountInv
<1>9. ASSUME NEW r \in Reqs, RotateRevoke(r) PROVE CountInv'
  BY <1>9 DEF RotateRevoke, ghosts, CountInv
<1>10. CASE Tick
  BY <1>10 DEF Tick, authVars, ghosts, CountInv
<1>11. CASE Restart
  BY <1>11, BlankType DEF Restart, CountInv
<1>12. CASE UNCHANGED vars
  BY <1>12 DEF vars, CountInv
<1> QED  BY <1>1, <1>2, <1>3, <1>4, <1>5, <1>6, <1>7, <1>8, <1>9, <1>10, <1>11, <1>12 DEF Next

----------------------------------------------------------------------------
(* Rotation.                                                               *)

\* Nothing about tokens changes: TokenInv stays.
LEMMA TokensKept ==
    ASSUME TokenInv, UNCHANGED <<tokens, issued, epoch, revoked, reused, spent>>
    PROVE  TokenInv'
BY DEF TokenInv

\* A step of one request that changes no token keeps the other requests.
LEMMA OthersKept ==
    ASSUME TypeOK, \A s \in Reqs : InFlight(s), NEW r \in Reqs, NEW q,
           req' = [req EXCEPT ![r] = q],
           UNCHANGED <<tokens, epoch>>, revoked \subseteq revoked', spent \subseteq spent'
    PROVE  /\ req'[r] = q
           /\ \A s \in Reqs : s # r => InFlight(s)'
BY DEF TypeOK, InFlight

\* An idle request has established nothing.
LEMMA IdleInFlight == ASSUME NEW r, req'[r] = Idle PROVE InFlight(r)'
BY BlankType DEF InFlight

\* Every step keeps what the tokens and the requests say of each other.
LEMMA RotationStep ==
    TypeOK /\ epoch >= 1 /\ TokenInv /\ (\A r \in Reqs : InFlight(r)) /\ [Next]_vars
        => /\ epoch' >= 1
           /\ TokenInv'
           /\ \A r \in Reqs : InFlight(r)'
<1> DEFINE Goal == epoch' >= 1 /\ TokenInv' /\ \A r \in Reqs : InFlight(r)'
<1> SUFFICES ASSUME TypeOK, epoch >= 1, TokenInv, \A r \in Reqs : InFlight(r), [Next]_vars
             PROVE  Goal
  OBVIOUS
<1>s. NoString \notin spent  BY StringFacts DEF TypeOK
<1>1. ASSUME NEW r \in Reqs, NEW u \in Users, Register(r, u) PROVE Goal
  <2>1. req' = [req EXCEPT ![r] = At("create", u, NoString)]
        /\ UNCHANGED <<tokens, issued, epoch, revoked, reused, spent>>
    BY <1>1 DEF Register, authVars, ghosts
  <2>2. req'[r] = At("create", u, NoString) /\ \A s \in Reqs : s # r => InFlight(s)'
    BY <2>1, OthersKept
  <2>3. /\ req'[r].at = "create" /\ req'[r].str = NoString
        /\ req'[r].late = (NoString \in spent)
    BY <2>2, AtType
  <2>4. InFlight(r)'  BY <2>3, <1>s DEF InFlight
  <2> QED  BY <2>1, <2>2, <2>4, TokensKept
<1>2. ASSUME NEW r \in Reqs, RegisterCreate(r) PROVE Goal
  <2> DEFINE q == [req[r] EXCEPT !.at = "issue"]
  <2>1. (req' = [req EXCEPT ![r] = Idle] \/ req' = [req EXCEPT ![r] = q])
        /\ req[r].at = "create"
        /\ UNCHANGED <<tokens, issued, epoch, revoked, reused, spent>>
    BY <1>2 DEF RegisterCreate, authVars
  <2>2. (req'[r] = Idle \/ req'[r] = q) /\ \A s \in Reqs : s # r => InFlight(s)'
    BY <2>1, OthersKept
  <2>3. q.at = "issue" /\ q.str = NoString /\ q.late = FALSE
    BY <2>1 DEF InFlight, TypeOK
  <2>4. InFlight(r)'  BY <2>2, <2>3, IdleInFlight DEF InFlight
  <2> QED  BY <2>1, <2>2, <2>4, TokensKept
<1>3. ASSUME NEW r \in Reqs, NEW u \in Users, NEW right \in BOOLEAN, LoginCheck(r, u, right)
      PROVE  Goal
  <2> DEFINE a == IF right THEN "reset" ELSE "fail"
  <2>1. req' = [req EXCEPT ![r] = At(a, u, NoString)]
        /\ UNCHANGED <<tokens, issued, epoch, revoked, reused, spent>>
    BY <1>3 DEF LoginCheck, authVars, ghosts
  <2>2. req'[r] = At(a, u, NoString) /\ \A s \in Reqs : s # r => InFlight(s)'
    BY <2>1, OthersKept
  <2>3. /\ req'[r].at = a /\ req'[r].str = NoString
        /\ req'[r].late = (NoString \in spent)
    BY <2>2, AtType
  <2>4. InFlight(r)'  BY <2>3, <1>s DEF InFlight
  <2> QED  BY <2>1, <2>2, <2>4, TokensKept
<1>4. ASSUME NEW r \in Reqs, LoginFail(r) PROVE Goal
  <2>1. req' = [req EXCEPT ![r] = Idle]
        /\ UNCHANGED <<tokens, issued, epoch, revoked, reused, spent>>
    BY <1>4 DEF LoginFail
  <2> QED  BY <2>1, OthersKept, IdleInFlight, TokensKept
<1>5. ASSUME NEW r \in Reqs, LoginReset(r) PROVE Goal
  <2> DEFINE q == [req[r] EXCEPT !.at = "issue"]
  <2>1. req' = [req EXCEPT ![r] = q] /\ req[r].at = "reset"
        /\ UNCHANGED <<tokens, issued, epoch, revoked, reused, spent>>
    BY <1>5 DEF LoginReset
  <2>2. req'[r] = q /\ \A s \in Reqs : s # r => InFlight(s)'
    BY <2>1, OthersKept
  <2>3. q.at = "issue" /\ q.str = NoString /\ q.late = FALSE
    BY <2>1 DEF InFlight, TypeOK
  <2>4. InFlight(r)'  BY <2>2, <2>3 DEF InFlight
  <2> QED  BY <2>1, <2>2, <2>4, TokensKept
<1>7. ASSUME NEW r \in Reqs, NEW t \in Strings, RefreshBegin(r, t) PROVE Goal
  <2> DEFINE q == At("rotate", tokens[t.id].user, t)
  <2>1. req' = [req EXCEPT ![r] = q] /\ tokens[t.id].epoch = epoch
        /\ UNCHANGED <<tokens, issued, epoch, revoked, reused, spent>>
    BY <1>7 DEF RefreshBegin, Valid, authVars, ghosts
  <2>2. req'[r] = q /\ \A s \in Reqs : s # r => InFlight(s)'
    BY <2>1, OthersKept
  <2>3. /\ req'[r].at = "rotate" /\ req'[r].str = t /\ t # NoString
        /\ req'[r].late = (t \in spent)
    <3>1. tokens[t.id].user \in Users  BY StringFacts DEF TypeOK, Token
    <3> QED  BY <2>2, <3>1, AtType, StringFacts
  <2>4. InFlight(r)'  BY <2>1, <2>3 DEF InFlight
  <2> QED  BY <2>1, <2>2, <2>4, TokensKept
<1>8. ASSUME NEW r \in Reqs, RotateCheck(r) PROVE Goal
  <2> DEFINE t == req[r].str
             q == [req[r] EXCEPT !.at = "revoke"]
  <2>1. req[r].at = "rotate" /\ UNCHANGED <<tokens, issued, epoch, revoked, spent>>
    BY <1>8 DEF RotateCheck, ghosts
  <2>2. \/ req' = [req EXCEPT ![r] = Idle]
        \/ req' = [req EXCEPT ![r] = q] /\ Valid(t) /\ t \notin revoked
    BY <1>8 DEF RotateCheck
  <2>3. reused' \subseteq revoked'
    BY <1>8 DEF RotateCheck, TokenInv
  <2>4. \/ req'[r] = Idle
        \/ req'[r] = q /\ Valid(t) /\ t \notin revoked
    BY <2>1, <2>2, OthersKept
  <2>5. \A s \in Reqs : s # r => InFlight(s)'
    BY <2>1, <2>2, OthersKept
  <2>6. InFlight(r)'
    <3>1. CASE req'[r] = Idle  BY <3>1, IdleInFlight
    <3>2. CASE req'[r] = q /\ Valid(t) /\ t \notin revoked
      <4>1. q.at = "revoke" /\ q.str = t /\ q.late = req[r].late /\ t # NoString
        BY <2>1 DEF TypeOK, InFlight
      <4>2. ~req[r].late
        <5>1. t \notin spent  BY <3>2 DEF TokenInv, Valid
        <5> QED  BY <5>1 DEF InFlight
      <4> QED  BY <3>2, <4>1, <4>2, <2>1 DEF InFlight, Valid
    <3> QED  BY <2>4, <3>1, <3>2
  <2>7. TokenInv'  BY <2>1, <2>3 DEF TokenInv
  <2> QED  BY <2>1, <2>5, <2>6, <2>7
<1>9. ASSUME NEW r \in Reqs, RotateRevoke(r) PROVE Goal
  <2> DEFINE q == [req[r] EXCEPT !.at = "issue"]
  <2>1. req' = [req EXCEPT ![r] = q] /\ req[r].at = "revoke"
        /\ revoked' = revoked \union {req[r].str}
        /\ UNCHANGED <<tokens, issued, epoch, reused, spent>>
    BY <1>9 DEF RotateRevoke, ghosts
  <2>2. req'[r] = q /\ \A s \in Reqs : s # r => InFlight(s)'
    BY <2>1, OthersKept
  <2>3. q.at = "issue" /\ q.str = req[r].str /\ q.late = FALSE
    BY <2>1 DEF InFlight, TypeOK
  <2>4. InFlight(r)'  BY <2>1, <2>2, <2>3 DEF InFlight
  <2>5. TokenInv'  BY <2>1 DEF TokenInv
  <2> QED  BY <2>1, <2>2, <2>4, <2>5
<1>10. CASE Tick
  BY <1>10, TokensKept DEF Tick, authVars, ghosts, InFlight
<1>12. CASE UNCHANGED vars
  BY <1>12, TokensKept DEF vars, InFlight
<1>11. CASE Restart
  <2>1. \A r \in Reqs : InFlight(r)'  BY <1>11, IdleInFlight DEF Restart
  <2>2. epoch' = epoch + 1 /\ epoch \in Nat /\ revoked' = {} /\ reused' = {}
        /\ UNCHANGED <<tokens, issued, spent>>
    BY <1>11 DEF Restart, TypeOK
  <2>3. \A t \in TokenIds : tokens[t].epoch \in Nat /\ tokens[t].epoch # epoch'
    BY <2>2 DEF TypeOK, TokenInv, Token
  <2>4. TokenInv'
    <3>1. \A s \in spent : s.id \in TokenIds  BY StringFacts DEF TypeOK
    <3> QED  BY <2>2, <2>3, <3>1 DEF TokenInv
  <2> QED  BY <2>1, <2>2, <2>4
<1>6. ASSUME NEW r \in Reqs, Issue(r) PROVE Goal
  <2> DEFINE new == issued + 1
             t == req[r].str
  <2>1. /\ req[r].at = "issue" /\ req' = [req EXCEPT ![r] = Idle]
        /\ issued' = new
        /\ tokens' = [tokens EXCEPT ![new] = NewToken(r)]
        /\ spent' = IF t = NoString THEN spent ELSE spent \union {t}
        /\ UNCHANGED <<epoch, revoked, reused>>
    BY <1>6 DEF Issue, authVars
  <2>2. issued \in Nat /\ new \in TokenIds
    BY <1>6, ParametersAssumption DEF Issue, TypeOK, TokenIds
  <2>3. NewToken(r).epoch = epoch /\ NewToken(r).parent = t  BY DEF NewToken
  <2>4. t # NoString => t \in Strings /\ t.id <= issued /\ t \in revoked
    BY <2>1, StringFacts DEF TypeOK, InFlight
  <2>5. tokens'[new] = NewToken(r) /\ \A k \in TokenIds : k # new => tokens'[k] = tokens[k]
    BY <2>1, <2>2 DEF TypeOK
  <2> HIDE DEF t
  <2>6. \A s \in Reqs : InFlight(s)'
    <3> SUFFICES ASSUME NEW s \in Reqs PROVE InFlight(s)'  OBVIOUS
    <3>1. CASE s = r  BY <3>1, <2>1, IdleInFlight DEF TypeOK
    <3>2. CASE s # r
      <4>1. req'[s] = req[s] /\ InFlight(s)  BY <3>2, <2>1 DEF TypeOK
      <4>2. req[s].str # NoString => req[s].str.id \in TokenIds /\ req[s].str.id # new
        <5>1. req[s].str # NoString => req[s].str.id \in TokenIds /\ req[s].str.id <= issued
          BY StringFacts DEF TypeOK
        <5> QED  BY <5>1, <2>2 DEF TokenIds
      <4>3. spent \subseteq spent'  BY <2>1
      <4> QED  BY <4>1, <4>2, <4>3, <2>1, <2>5 DEF InFlight
    <3> QED  BY <3>1, <3>2
  <2>7. \A k \in TokenIds : k > issued' => k > issued /\ k # new
    BY <2>1, <2>2 DEF TokenIds
  <2>8. \A k \in TokenIds : tokens'[k].epoch <= epoch'
    BY <2>1, <2>3, <2>5 DEF TokenInv, TypeOK
  <2>9. \A p \in spent' : /\ p.id \in TokenIds /\ p.id <= issued
                          /\ tokens[p.id].epoch = epoch => p \in revoked
    BY <2>1, <2>4, StringFacts DEF TokenInv, TypeOK
  <2>10. \A p \in spent' : p.id <= issued' /\ (tokens'[p.id].epoch = epoch' => p \in revoked')
    <3>1. \A p \in spent' : p.id # new /\ p.id <= new  BY <2>2, <2>9 DEF TokenIds
    <3> QED  BY <3>1, <2>1, <2>5, <2>9
  <2>11. \A k \in TokenIds :
            (tokens'[k].epoch = epoch' /\ tokens'[k].parent # NoString) => tokens'[k].parent \in revoked'
    BY <2>1, <2>3, <2>4, <2>5 DEF TokenInv
  <2>12. TokenInv'
    BY <2>1, <2>5, <2>7, <2>8, <2>10, <2>11 DEF TokenInv
  <2> QED  BY <2>1, <2>6, <2>12
<1> QED  BY <1>1, <1>2, <1>3, <1>4, <1>5, <1>6, <1>7, <1>8, <1>9, <1>10, <1>11, <1>12 DEF Next

\* Every step keeps Inv.
LEMMA InvStep == Inv /\ [Next]_vars => Inv'
BY TypeStep, CountStep, RotationStep DEF Inv

\* Inv holds of every state.
LEMMA InvHolds == Spec => []Inv
BY InvInit, InvStep, PTL DEF Spec

----------------------------------------------------------------------------
(* The properties of Auth.                                                 *)

\* Every variable has its type, whatever overlaps with what.
THEOREM TypeCorrect == Spec => []TypeOK
<1>1. Inv => TypeOK  BY DEF Inv
<1> QED  BY <1>1, InvHolds, PTL

\* Rotation leaves no presented string behind: what the running process would
\* accept was given for revoked strings only.
THEOREM RotationRevokes == Spec => []AncestorsRevoked
<1>1. Inv => AncestorsRevoked  BY DEF Inv, TokenInv, AncestorsRevoked
<1> QED  BY <1>1, InvHolds, PTL

\* A string that was exchanged stays dead, across restarts too.
THEOREM SpentIsDead == Spec => []SpentStaysSpent
<1>1. Inv => SpentStaysSpent  BY DEF Inv, InFlight, SpentStaysSpent
<1> QED  BY <1>1, InvHolds, PTL

\* A guesser is told "wrong password" fewer than MaxFailedAttempts times.
THEOREM GuessesBounded == Spec => []AnswersBounded
<1>1. Inv => AnswersBounded  BY DEF Inv, CountInv, AnswersBounded
<1> QED  BY <1>1, InvHolds, PTL

\* No address is registered twice.
THEOREM RegisteredOnce == Spec => []OneAccountPerAddress
<1>1. Inv => OneAccountPerAddress  BY DEF Inv, CountInv, OneAccountPerAddress
<1> QED  BY <1>1, InvHolds, PTL

----------------------------------------------------------------------------
(* One request at a time.  Overlapping requests break both properties: the *)
(* configurations AuthRotateRace and AuthLockRace show it.                 *)

\* The HTTP server handles one request at a time.
Sequential == \A q, r \in Reqs : q = r

\* RotatedOnce is not inductive: a string that a pair was given for is spent,
\* and a request that passed the check for revoked strings presents an unspent
\* one.
ChainInv ==
    /\ \A t \in TokenIds : tokens[t].parent # NoString => tokens[t].parent \in spent
    /\ \A r \in Reqs : (req[r].at \in {"revoke", "issue"} /\ req[r].str # NoString) =>
         req[r].str \notin spent
    /\ \A t1, t2 \in TokenIds :
         (tokens[t1].parent # NoString /\ tokens[t1].parent = tokens[t2].parent) => t1 = t2

\* A login that goes on to lift a lock found none.
UnlockedInv == \A r \in Reqs : req[r].at = "reset" => ~Locked(req[r].user)

\* Every step keeps ChainInv.
LEMMA ChainStep == Sequential /\ Inv /\ ChainInv /\ [Next]_vars => ChainInv'
<1> SUFFICES ASSUME Sequential, Inv, ChainInv, [Next]_vars PROVE ChainInv'  OBVIOUS
<1>t. TypeOK  BY DEF Inv
<1>k. ASSUME NEW r \in Reqs, UNCHANGED <<tokens, spent>>,
             (req'[r].at \in {"revoke", "issue"} /\ req'[r].str # NoString) => req'[r].str \notin spent
      PROVE  ChainInv'
  BY <1>k DEF ChainInv, Sequential
<1>i. ASSUME NEW r \in Reqs, req' = [req EXCEPT ![r] = Idle] PROVE req'[r].str = NoString
  BY <1>i, <1>t, OneRequest, BlankType
<1>1. ASSUME NEW r \in Reqs, NEW u \in Users, Register(r, u) PROVE ChainInv'
  <2>1. req' = [req EXCEPT ![r] = At("create", u, NoString)] /\ UNCHANGED <<tokens, spent>>
    BY <1>1 DEF Register, ghosts
  <2>2. req'[r] = At("create", u, NoString)  BY <2>1, <1>t, OneRequest
  <2>3. req'[r].str = NoString  BY <2>2, AtType
  <2> QED  BY <2>1, <2>3, <1>k
<1>2. ASSUME NEW r \in Reqs, RegisterCreate(r) PROVE ChainInv'
  <2>1. req[r].at = "create" /\ UNCHANGED <<tokens, spent>>  BY <1>2 DEF RegisterCreate
  <2>2. req[r].str = NoString  BY <2>1 DEF Inv, InFlight
  <2>3. req' = [req EXCEPT ![r] = Idle] \/ req' = [req EXCEPT ![r].at = "issue"]
    BY <1>2 DEF RegisterCreate
  <2>4. req'[r].str = NoString  BY <2>2, <2>3, <1>i, <1>t DEF TypeOK
  <2> QED  BY <2>1, <2>4, <1>k
<1>3. ASSUME NEW r \in Reqs, NEW u \in Users, NEW right \in BOOLEAN, LoginCheck(r, u, right)
      PROVE  ChainInv'
  <2>1. /\ req' = [req EXCEPT ![r] = At(IF right THEN "reset" ELSE "fail", u, NoString)]
        /\ UNCHANGED <<tokens, spent>>
    BY <1>3 DEF LoginCheck, ghosts
  <2> DEFINE at == IF right THEN "reset" ELSE "fail"
  <2>2. req'[r] = At(at, u, NoString)  BY <2>1, <1>t, OneRequest
  <2> HIDE DEF at
  <2>3. req'[r].str = NoString  BY <2>2, AtType
  <2> QED  BY <2>1, <2>3, <1>k
<1>4. ASSUME NEW r \in Reqs, LoginFail(r) PROVE ChainInv'
  <2>1. req' = [req EXCEPT ![r] = Idle] /\ UNCHANGED <<tokens, spent>>
    BY <1>4 DEF LoginFail
  <2> QED  BY <2>1, <1>i, <1>k
<1>5. ASSUME NEW r \in Reqs, LoginReset(r) PROVE ChainInv'
  <2>1. /\ req[r].at = "reset" /\ req' = [req EXCEPT ![r].at = "issue"]
        /\ UNCHANGED <<tokens, spent>>
    BY <1>5 DEF LoginReset
  <2>2. req[r].str = NoString  BY <2>1 DEF Inv, InFlight
  <2>3. req'[r].str = NoString  BY <2>1, <2>2, <1>t DEF TypeOK
  <2> QED  BY <2>1, <2>3, <1>k
<1>6. ASSUME NEW r \in Reqs, Issue(r) PROVE ChainInv'
  <2> DEFINE new == issued + 1
             t == req[r].str
  <2>1. /\ req[r].at = "issue" /\ req' = [req EXCEPT ![r] = Idle]
        /\ tokens' = [tokens EXCEPT ![new] = NewToken(r)]
        /\ spent' = IF t = NoString THEN spent ELSE spent \union {t}
    BY <1>6 DEF Issue
  <2>2. new \in TokenIds
    BY <1>6, <1>t, ParametersAssumption DEF Issue, TypeOK, TokenIds
  <2>3. /\ tokens'[new].parent = t
        /\ \A k \in TokenIds : k # new => tokens'[k] = tokens[k]
    BY <2>1, <2>2, <1>t DEF TypeOK, NewToken
  <2>4. t # NoString => t \notin spent  BY <2>1 DEF ChainInv
  <2> HIDE DEF t, new
  <2>5. \A k \in TokenIds : tokens'[k].parent # NoString => tokens'[k].parent \in spent'
    BY <2>1, <2>3 DEF ChainInv
  <2>6. ASSUME NEW a \in TokenIds, NEW b \in TokenIds, tokens'[a].parent # NoString,
               tokens'[a].parent = tokens'[b].parent
        PROVE  a = b
    <3>1. \A k \in TokenIds : k # new => (tokens[k].parent # NoString => tokens[k].parent # t)
      BY <2>4 DEF ChainInv
    <3> QED  BY <3>1, <2>3, <2>6 DEF ChainInv
  <2>7. \A q \in Reqs : req'[q].str = NoString
    BY <2>1, <1>i DEF Sequential
  <2> QED  BY <2>5, <2>6, <2>7 DEF ChainInv
<1>7. ASSUME NEW r \in Reqs, NEW t \in Strings, RefreshBegin(r, t) PROVE ChainInv'
  <2>1. /\ req' = [req EXCEPT ![r] = At("rotate", tokens[t.id].user, t)]
        /\ UNCHANGED <<tokens, spent>>
    BY <1>7 DEF RefreshBegin, ghosts
  <2>2. req'[r].at = "rotate"
    <3>1. tokens[t.id].user \in Users  BY <1>t, StringFacts DEF TypeOK, Token
    <3>2. req'[r] = At("rotate", tokens[t.id].user, t)  BY <2>1, <1>t, OneRequest
    <3> QED  BY <3>1, <3>2, AtType
  <2> QED  BY <2>1, <2>2, <1>k
<1>8. ASSUME NEW r \in Reqs, RotateCheck(r) PROVE ChainInv'
  <2>1. UNCHANGED <<tokens, spent>>  BY <1>8 DEF RotateCheck, ghosts
  <2>2. CASE req' = [req EXCEPT ![r] = Idle]  BY <2>1, <2>2, <1>i, <1>k
  <2>3. CASE req' = [req EXCEPT ![r].at = "revoke"]
             /\ Valid(req[r].str) /\ req[r].str \notin revoked
    <3>1. req[r].str \notin spent  BY <2>3 DEF Inv, TokenInv, Valid
    <3>2. req'[r].str = req[r].str  BY <2>3, <1>t DEF TypeOK
    <3> QED  BY <2>1, <3>1, <3>2, <1>k
  <2> QED  BY <1>8, <2>2, <2>3 DEF RotateCheck
<1>9. ASSUME NEW r \in Reqs, RotateRevoke(r) PROVE ChainInv'
  <2>1. /\ req[r].at = "revoke" /\ req' = [req EXCEPT ![r].at = "issue"]
        /\ UNCHANGED <<tokens, spent>>
    BY <1>9 DEF RotateRevoke, ghosts
  <2>2. req'[r].str = req[r].str  BY <2>1, <1>t DEF TypeOK
  <2>3. req[r].str # NoString => req[r].str \notin spent  BY <2>1 DEF ChainInv
  <2> QED  BY <2>1, <2>2, <2>3, <1>k
<1>10. CASE Tick
  BY <1>10 DEF Tick, ghosts, ChainInv
<1>11. CASE Restart
  BY <1>11, BlankType DEF Restart, ChainInv
<1>12. CASE UNCHANGED vars
  BY <1>12 DEF vars, ChainInv
<1> QED  BY <1>1, <1>2, <1>3, <1>4, <1>5, <1>6, <1>7, <1>8, <1>9, <1>10, <1>11, <1>12 DEF Next

\* Every step keeps UnlockedInv: time only unlocks, and the request that
\* locks an account is the only one.
LEMMA UnlockedStep == Sequential /\ TypeOK /\ UnlockedInv /\ [Next]_vars => UnlockedInv'
<1> SUFFICES ASSUME Sequential, TypeOK, UnlockedInv, [Next]_vars PROVE UnlockedInv'  OBVIOUS
<1>k. ASSUME NEW r \in Reqs, req'[r].at # "reset" PROVE UnlockedInv'
  BY <1>k DEF UnlockedInv, Sequential
<1>i. ASSUME NEW r \in Reqs, req' = [req EXCEPT ![r] = Idle] PROVE UnlockedInv'
  BY <1>i, <1>k, OneRequest, BlankType
<1>1. ASSUME NEW r \in Reqs, NEW u \in Users, Register(r, u) PROVE UnlockedInv'
  BY <1>1, <1>k, OneRequest, AtType DEF Register
<1>2. ASSUME NEW r \in Reqs, RegisterCreate(r) PROVE UnlockedInv'
  <2>1. req' = [req EXCEPT ![r] = Idle] \/ req' = [req EXCEPT ![r].at = "issue"]
    BY <1>2 DEF RegisterCreate
  <2> QED  BY <2>1, <1>i, <1>k DEF TypeOK
<1>3. ASSUME NEW r \in Reqs, NEW u \in Users, NEW right \in BOOLEAN, LoginCheck(r, u, right)
      PROVE  UnlockedInv'
  <2> DEFINE q == At(IF right THEN "reset" ELSE "fail", u, NoString)
  <2>1. req'[r] = q /\ ~Locked(u) /\ UNCHANGED <<lock, now>>
    BY <1>3, OneRequest DEF LoginCheck, authVars
  <2>2. q.user = u  BY AtType
  <2> QED  BY <2>1, <2>2 DEF UnlockedInv, Sequential, Locked
<1>4. ASSUME NEW r \in Reqs, LoginFail(r) PROVE UnlockedInv'
  BY <1>4, <1>i DEF LoginFail
<1>5. ASSUME NEW r \in Reqs, LoginReset(r) PROVE UnlockedInv'
  BY <1>5, <1>k DEF LoginReset, TypeOK
<1>6. ASSUME NEW r \in Reqs, Issue(r) PROVE UnlockedInv'
  BY <1>6, <1>i DEF Issue
<1>7. ASSUME NEW r \in Reqs, NEW t \in Strings, RefreshBegin(r, t) PROVE UnlockedInv'
  <2>1. tokens[t.id].user \in Users  BY StringFacts DEF TypeOK, Token
  <2> QED  BY <1>7, <2>1, <1>k, OneRequest, AtType DEF RefreshBegin
<1>8. ASSUME NEW r \in Reqs, RotateCheck(r) PROVE UnlockedInv'
  <2>1. req' = [req EXCEPT ![r] = Idle] \/ req' = [req EXCEPT ![r].at = "revoke"]
    BY <1>8 DEF RotateCheck
  <2> QED  BY <2>1, <1>i, <1>k DEF TypeOK
<1>9. ASSUME NEW r \in Reqs, RotateRevoke(r) PROVE UnlockedInv'
  BY <1>9, <1>k DEF RotateRevoke, TypeOK
<1>10. CASE Tick
  <2>1. now' = now + 1 /\ now \in Nat /\ UNCHANGED <<req, lock>>
    BY <1>10 DEF Tick, authVars, TypeOK
  <2>2. \A u \in Users : lock[u].until \in Nat  BY DEF TypeOK
  <2>3. \A r \in Reqs : req[r].user \in Users  BY DEF TypeOK
  <2> QED  BY <2>1, <2>2, <2>3 DEF UnlockedInv, Locked
<1>11. CASE Restart
  BY <1>11, BlankType DEF Restart, UnlockedInv
<1>12. CASE UNCHANGED vars
  BY <1>12 DEF vars, UnlockedInv, Locked
<1> QED  BY <1>1, <1>2, <1>3, <1>4, <1>5, <1>6, <1>7, <1>8, <1>9, <1>10, <1>11, <1>12 DEF Next

\* One request at a time, a string is exchanged for one new pair at most,
\* across restarts and expiry.
THEOREM RefreshedOnce ==
    ASSUME Sequential
    PROVE  Spec => []RotatedOnce
<1>1. Init => ChainInv
  BY BlankType DEF Init, ChainInv
<1>2. Inv /\ ChainInv /\ [Next]_vars => ChainInv'
  BY ChainStep
<1>3. Inv /\ ChainInv => RotatedOnce
  BY ParametersAssumption DEF Inv, TypeOK, ChainInv, RotatedOnce, TokenIds
<1> QED  BY <1>1, <1>2, <1>3, InvHolds, PTL DEF Spec

\* One request at a time, a lock stands until its time or a restart: no
\* login, right or wrong, changes it before.
THEOREM LocksStand ==
    ASSUME Sequential
    PROVE  Spec => LockHonoured
<1>1. Init => UnlockedInv
  BY BlankType DEF Init, UnlockedInv
<1>2. TypeOK /\ UnlockedInv /\ [Next]_vars => UnlockedInv'
  BY UnlockedStep
<1>3. TypeOK /\ UnlockedInv /\ [Next]_vars =>
        [\A u \in Users : (Locked(u) /\ epoch' = epoch) => lock'[u] = lock[u]]_vars
  <2> SUFFICES ASSUME TypeOK, UnlockedInv, Next,
                      NEW u \in Users, Locked(u), epoch' = epoch
               PROVE  lock'[u] = lock[u]
    OBVIOUS
  <2>1. ASSUME NEW r \in Reqs, LoginFail(r) PROVE lock'[u] = lock[u]
    <3>1. CASE req[r].user = u  BY <2>1, <3>1 DEF LoginFail
    <3>2. CASE req[r].user # u  BY <2>1, <3>2 DEF LoginFail, TypeOK
    <3> QED  BY <3>1, <3>2
  <2>2. ASSUME NEW r \in Reqs, LoginReset(r) PROVE lock'[u] = lock[u]
    <3>1. req[r].user # u  BY <2>2 DEF LoginReset, UnlockedInv
    <3> QED  BY <2>2, <3>1 DEF LoginReset, TypeOK
  <2>3. ~Restart  BY DEF Restart, TypeOK
  <2> QED
    BY <2>1, <2>2, <2>3
       DEF Next, Register, RegisterCreate, LoginCheck, Issue, RefreshBegin, RotateCheck,
           RotateRevoke, Tick, authVars
<1> QED  BY <1>1, <1>2, <1>3, TypeCorrect, PTL DEF Spec, LockHonoured
=============================================================================
