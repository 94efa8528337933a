---------------------------- MODULE RateLimiter ----------------------------
(***************************************************************************)
(* The per-user request limiter of services/api/internal/middleware.  A    *)
(* request is counted and judged in one critical section, so it is one     *)
(* step; time passes in ticks, TicksPerSecond of which make a second.      *)
(***************************************************************************)
EXTENDS Naturals, Sequences, FiniteSetsExt

CONSTANTS
    Users,
    TiersOf,        \* TiersOf[u]: the account types a user's tokens carry
    FreeLimit,      \* FreeLimitPerMin
    PremiumLimit,   \* PremiumLimitPerMin
    Window,         \* WindowDuration, in ticks
    TicksPerSecond,
    MaxTime         \* bound: clock ticks

ASSUME LimitsAssumption ==
    /\ FreeLimit \in Nat \ {0} /\ PremiumLimit \in Nat \ {0}
    /\ FreeLimit <= PremiumLimit
    /\ Window \in Nat \ {0} /\ TicksPerSecond \in Nat \ {0} /\ MaxTime \in Nat
    /\ TiersOf \in [Users -> SUBSET {"free", "premium", "institutional", "family"}]

VARIABLES
    now,
    windows,    \* rl.windows: request count and windowEnd (0: no entry)
    advised,    \* history: when the Retry-After of a user's last request ends
    admitted    \* history: the ticks at which requests of a user were let through

vars == <<now, windows, advised, admitted>>

Init ==
    /\ now = 1
    /\ windows = [u \in Users |-> [count |-> 0, end |-> 0]]
    /\ advised = [u \in Users |-> 0]
    /\ admitted = [u \in Users |-> <<>>]

\* The limit of an account type; everything but premium and institutional
\* (family too) gets the free one.
Limit(tier) == IF tier \in {"premium", "institutional"} THEN PremiumLimit ELSE FreeLimit

\* Mutant of WindowFor (TypeOK): every request pushes the end of its window out.
WindowForPushed(u) ==
    IF windows[u].end = 0 \/ now > windows[u].end
    THEN [count |-> 0, end |-> now + Window]
    ELSE [windows[u] EXCEPT !.end = @ + Window]

\* Mutant of WindowFor (BurstBounded): the window ends half-way.
WindowForShort(u) ==
    IF windows[u].end = 0 \/ now > windows[u].end
    THEN [count |-> 0, end |-> now + (Window \div 2)]
    ELSE windows[u]

\* The window a request falls into: the current one up to and including its
\* end, a fresh one after that.
WindowFor(u) ==
    IF windows[u].end = 0 \/ now > windows[u].end
    THEN [count |-> 0, end |-> now + Window]
    ELSE windows[u]

\* Mutant of RetryAfter (RetryAfterSuffices): the seconds are rounded down.
RetryAfterDown(end) == (end - now) \div TicksPerSecond

\* The Retry-After header: the whole seconds that remain, plus one.
RetryAfter(end) == (end - now) \div TicksPerSecond + 1

\* An authenticated request (an unauthenticated one passes uncounted).  It is
\* counted even when it is refused.
Request(u, tier) ==
    LET w == [WindowFor(u) EXCEPT !.count = @ + 1]
    IN
    /\ tier \in TiersOf[u]
    /\ w.count <= PremiumLimit + 1        \* bound: refusals beyond the first
    /\ windows' = [windows EXCEPT ![u] = w]
    /\ \/ /\ w.count > Limit(tier)
          /\ advised' = [advised EXCEPT ![u] = now + RetryAfter(w.end) * TicksPerSecond]
          /\ UNCHANGED admitted
       \/ /\ w.count <= Limit(tier)
          /\ advised' = [advised EXCEPT ![u] = 0]
          /\ admitted' = [admitted EXCEPT ![u] = Append(@, now)]
    /\ UNCHANGED now

Tick ==
    /\ now < MaxTime
    /\ now' = now + 1
    /\ UNCHANGED <<windows, advised, admitted>>

Next == Tick \/ \E u \in Users : \E tier \in TiersOf[u] : Request(u, tier)

Spec == Init /\ [][Next]_vars

----------------------------------------------------------------------------
(* Properties.                                                             *)

\* Every variable has its type, and no window reaches further than Window.
TypeOK ==
    /\ now \in 1..MaxTime
    /\ windows \in [Users -> [count : Nat, end : Nat]]
    /\ \A u \in Users : windows[u].end <= now + Window
    /\ advised \in [Users -> Nat]
    /\ admitted \in [Users -> Seq(1..MaxTime)]

HighestLimit(u) == Max({FreeLimit} \union {Limit(tier) : tier \in TiersOf[u]})

\* No n + 1 requests of u are let through within one WindowDuration.
AtMostPerWindow(u, n) ==
    \A i, j \in 1..Len(admitted[u]) :
        j = i + n => admitted[u][j] > admitted[u][i] + Window

\* Bursts are bounded: no span of one window length lets through more than
\* twice the user's limit, wherever fixed windows happen to begin.
BurstBounded == \A u \in Users : AtMostPerWindow(u, 2 * HighestLimit(u))

\* "A per-user sliding window rate limiter": no span of one window length lets
\* through more than the limit.
SlidingWindow == \A u \in Users : AtMostPerWindow(u, HighestLimit(u))

\* A refused client that waits as long as Retry-After said, and sends nothing
\* meanwhile, finds a fresh window: its next request cannot be refused.
RetryAfterSuffices ==
    \A u \in Users : (advised[u] # 0 /\ now >= advised[u]) => now > windows[u].end
=============================================================================
