------------------------------ MODULE RateLimiter ------------------------------
(***************************************************************************)
(* ricardian/src/rateLimit/limiter.ts: each request of a caller counts in  *)
(* two windows of its route, a short one (burst) and a long one            *)
(* (sustained), and passes while neither has counted more than its limit.  *)
(***************************************************************************)
EXTENDS ServiceAuth

CONSTANT Policy    \* by route: the limit and windowSeconds of burst and sustained

Routes == {"write", "read"}

Names == {"burst", "sustained"}

\* What the limiter asks of its configuration, whose numbers are parsed as integers.
validateConfig ==
  \A route \in Routes : \A name \in Names :
    Policy[route][name].limit > 0 /\ Policy[route][name].windowSeconds > 0

ASSUME RateLimiterAssumption ==
  /\ \A route \in Routes : \A name \in Names :
       Policy[route][name].limit \in Int /\ Policy[route][name].windowSeconds \in Int
  /\ validateConfig

VARIABLES
  limitStore,      \* the kind in use
  counters,        \* by window: how many requests it has counted, until when
  admissions       \* what the limiter let pass, in order

limiterVars == <<limitStore, counters, admissions>>

\* An authenticated request counts for its principal; all come from one address.
callerContext(m) == resolvePrincipal(m.apiKey).id

Callers == DOMAIN ApiKeys \cup {"__shared_hmac__"}

Windows == Callers \X Routes \X Names

\* In production the service does not start without Redis.
chooseStore(configured, reachable, production) ==
  IF configured /\ reachable THEN "redis" ELSE IF production THEN None ELSE "memory"

LimiterInit ==
  /\ \E configured, reachable, production \in BOOLEAN :
       limitStore = chooseStore(configured, reachable, production)
  /\ limitStore # None
  /\ counters = [w \in Windows |-> [count |-> 0, until |-> 0]]
  /\ admissions = <<>>

\* A window of the in-memory store begins with its first request, one of the Redis store
\* at a multiple of its length.
InMemoryRateLimitStore(windowSeconds) == [count |-> 1, until |-> clock + windowSeconds]

RedisRateLimitStore(windowSeconds) ==
  [count |-> 1, until |-> (clock \div windowSeconds + 1) * windowSeconds]

incrementAndGet(w, windowSeconds) ==
  IF counters[w].until > clock THEN [counters[w] EXCEPT !.count = @ + 1]
  ELSE IF limitStore = "memory" THEN InMemoryRateLimitStore(windowSeconds)
  ELSE RedisRateLimitStore(windowSeconds)

\* Mutant: the sustained window counts, and refuses nobody.
evaluateRoute_burst(caller, route) ==
  LET policy    == Policy[route]
      burst     == incrementAndGet(<<caller, route, "burst">>, policy.burst.windowSeconds)
      sustained == incrementAndGet(<<caller, route, "sustained">>, policy.sustained.windowSeconds)
  IN [counters |-> [counters EXCEPT
                      ![<<caller, route, "burst">>] = burst,
                      ![<<caller, route, "sustained">>] = sustained],
      limited  |-> burst.count > policy.burst.limit]

\* The sustained window counts what the burst window lets pass.
evaluateRoute(caller, route) ==
  LET policy    == Policy[route]
      burst     == incrementAndGet(<<caller, route, "burst">>, policy.burst.windowSeconds)
      sustained == incrementAndGet(<<caller, route, "sustained">>, policy.sustained.windowSeconds)
      passes    == burst.count <= policy.burst.limit
  IN [counters |-> [counters EXCEPT
                      ![<<caller, route, "burst">>] = burst,
                      ![<<caller, route, "sustained">>] = IF passes THEN sustained ELSE @],
      limited  |-> ~passes \/ sustained.count > policy.sustained.limit]

\* The middleware calls the next one, or answers 429.
admit(caller, route) ==
  /\ ~evaluateRoute(caller, route).limited
  /\ counters' = evaluateRoute(caller, route).counters
  /\ admissions' = Append(admissions, [caller |-> caller, route |-> route, at |-> clock])
  /\ UNCHANGED limitStore

refuse(caller, route) ==
  /\ evaluateRoute(caller, route).limited
  /\ counters' = evaluateRoute(caller, route).counters
  /\ UNCHANGED <<limitStore, admissions>>

\* The counters fail before the first window was counted or before the second: 503.
limiterFails(caller, route) ==
  LET w == <<caller, route, "burst">> IN
    /\ limitStore = "redis"
    /\ \/ UNCHANGED counters
       \/ counters' = [counters EXCEPT ![w] = incrementAndGet(w, Policy[route].burst.windowSeconds)]
    /\ UNCHANGED <<limitStore, admissions>>

(***************************************************************************)
(* In any span as long as a window, wherever it begins, a caller gets at   *)
(* most twice the limit of the window through, with windows that begin at  *)
(* the first request as with windows on the clock, and although requests   *)
(* that one limit refuses still count for the other (limiter.ts:267).      *)
(***************************************************************************)
AdmittedBound ==
  \A caller \in Callers, route \in Routes, name \in Names :
    LET window == Policy[route][name] IN
      \A start \in 1 .. clock :
        Cardinality({i \in DOMAIN admissions :
                       /\ admissions[i].caller = caller /\ admissions[i].route = route
                       /\ admissions[i].at \in start .. start + window.windowSeconds - 1})
          <= 2 * window.limit

===============================================================================
