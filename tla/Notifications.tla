---------------------------- MODULE Notifications -----------------------------
(***************************************************************************)
(* notifications/src/index.ts: the notifier that a service sends its       *)
(* alerts with.  A notification is suppressed while an earlier one with    *)
(* its key is in cooldown; otherwise it is posted to a webhook, again      *)
(* after each failure up to a limit, with a delay in between.  The webhook *)
(* may get a notification whose answer is lost or late.  The oracle and    *)
(* the reconciliation each have a notifier, and alerts of their own.       *)
(***************************************************************************)
EXTENDS WallClock, Sequences, FiniteSets

CONSTANTS
  Notifies,          \* calls that may be under way at the same time
  ActionKeys,        \* the oracle's actions
  Findings,          \* what reconciliations find: records of tradeId, mismatchCode and severity
  cooldownMs,
  retryAttempts,
  retryDelayMs,
  maxRetryDelayMs,
  MaxNotifies,       \* bound on the calls
  MaxRestarts

ASSUME NotificationsAssumption ==
  {cooldownMs, retryAttempts, retryDelayMs, maxRetryDelayMs} \subseteq Nat

MAX_RETRY_ATTEMPTS_CAP == 5

VARIABLES
  service,           \* whose notifier this is
  dedupCache,        \* by key, when it was last sent
  notifies,
  received,          \* what the webhook got, in order
  suppressed,        \* what was suppressed, in order
  begun, restarts

notificationVars == <<service, dedupCache, notifies, received, suppressed, begun, restarts>>

NoNotify == [pc |-> "idle"]

------------------------------------------------------------------------------
(* What is notified: the requests and runs that an alert names are left out *)

\* A trigger ended in one of these statuses: several triggers may have one action.
notifyTerminalStatus(status, actionKey) ==
  [source   |-> "oracle",
   type     |-> IF status = "TERMINAL_FAILURE" THEN "ORACLE_TRIGGER_TERMINAL_FAILURE"
                ELSE "ORACLE_TRIGGER_EXHAUSTED_NEEDS_REDRIVE",
   severity |-> "critical",
   dedupKey |-> <<"oracle", status, actionKey>>,
   correlation |-> [actionKey |-> actionKey]]

notifyTimeout(actionKey) ==
  [source   |-> "oracle",
   type     |-> "ORACLE_CONFIRMATION_TIMEOUT",
   severity |-> "critical",
   dedupKey |-> <<"oracle", "confirmation-timeout", actionKey>>,
   correlation |-> [actionKey |-> actionKey]]

\* Only critical findings are notified.
notifyCriticalDrift(finding) ==
  IF finding.severity # "CRITICAL" THEN {}
  ELSE {[source   |-> "reconciliation",
         type     |-> "RECONCILIATION_CRITICAL_DRIFT",
         severity |-> "critical",
         dedupKey |-> <<"reconciliation", "critical", finding.tradeId, finding.mismatchCode>>,
         correlation |-> [tradeId |-> finding.tradeId, mismatchCode |-> finding.mismatchCode]]}

AlertsOf ==
  [oracle |-> {notifyTimeout(actionKey) : actionKey \in ActionKeys}
              \cup {notifyTerminalStatus(status, actionKey) :
                      status \in {"TERMINAL_FAILURE", "EXHAUSTED_NEEDS_REDRIVE"},
                      actionKey \in ActionKeys},
   reconciliation |-> UNION {notifyCriticalDrift(finding) : finding \in Findings}]

severityRouteForSeverity(severity) ==
  CASE severity = "critical" -> "pager"
    [] severity = "warning" -> "operations"
    [] OTHER -> "informational"

templateVersionForType(type) ==
  CASE type = "ORACLE_TRIGGER_TERMINAL_FAILURE" -> "oracle-terminal-v1"
    [] type = "ORACLE_TRIGGER_EXHAUSTED_NEEDS_REDRIVE" -> "oracle-redrive-v1"
    [] type = "ORACLE_CONFIRMATION_TIMEOUT" -> "oracle-confirmation-timeout-v1"
    [] type = "RECONCILIATION_CRITICAL_DRIFT" -> "reconciliation-critical-drift-v1"
    [] OTHER -> "generic-v1"

toSlackPayload(event) ==
  [text |-> <<event.source, event.type, event.severity>>,
   fields |-> event.correlation,
   templateVersion |-> templateVersionForType(event.type),
   severityRoute |-> severityRouteForSeverity(event.severity)]

------------------------------------------------------------------------------
(* How *)

NotificationsInit ==
  /\ service \in DOMAIN AlertsOf
  /\ dedupCache = [k \in {event.dedupKey : event \in AlertsOf[service]} |-> None]
  /\ notifies = [n \in Notifies |-> NoNotify]
  /\ received = <<>>
  /\ suppressed = <<>>
  /\ begun = 0
  /\ restarts = 0

totalAttempts ==
  1 + IF retryAttempts > MAX_RETRY_ATTEMPTS_CAP THEN MAX_RETRY_ATTEMPTS_CAP ELSE retryAttempts

\* The delay after a number of attempts: doubled each time, up to the maximum, which is
\* at least the base.
retryDelayForAttempt(attempt) ==
  LET max   == IF maxRetryDelayMs < retryDelayMs THEN retryDelayMs ELSE maxRetryDelayMs
      delay == retryDelayMs * 2 ^ (attempt - 1)
  IN IF delay < max THEN delay ELSE max

\* The clock is never 0.
isInCooldown(k) == dedupCache[k] # None /\ clock - dedupCache[k] < cooldownMs

\* For the properties: the deliveries of an event that this process has seen succeed.
Known(event) == {i \in DOMAIN received : received[i].payload = toSlackPayload(event)
                   /\ received[i].acked # None /\ received[i].life = restarts}

notify(n, event) ==
  /\ notifies[n] = NoNotify
  /\ begun < MaxNotifies
  /\ begun' = begun + 1
  /\ IF isInCooldown(event.dedupKey)
     THEN /\ suppressed' = Append(suppressed, [payload |-> toSlackPayload(event), at |-> clock])
          /\ UNCHANGED notifies
     ELSE /\ notifies' = [notifies EXCEPT
                            ![n] = [pc |-> "post", event |-> event, attempt |-> 1, since |-> clock,
                                    known |-> Known(event), got |-> None, until |-> None]]
          /\ UNCHANGED suppressed
  /\ UNCHANGED <<service, dedupCache, received, restarts>>

\* fetch: the request reaches the webhook or does not.
post(n) ==
  /\ notifies[n].pc = "post"
  /\ \/ /\ received' = Append(received,
              [payload |-> toSlackPayload(notifies[n].event), since |-> notifies[n].since,
               known |-> notifies[n].known, acked |-> None, life |-> restarts])
        /\ notifies' = [notifies EXCEPT ![n].pc = "answer", ![n].got = Len(received')]
     \/ /\ notifies' = [notifies EXCEPT ![n].pc = "answer"]
        /\ UNCHANGED received
  /\ UNCHANGED <<service, dedupCache, suppressed, begun, restarts>>

markSent(k) == dedupCache' = [dedupCache EXCEPT ![k] = clock]

\* The webhook's success.
answered(n) ==
  /\ notifies[n].pc = "answer" /\ notifies[n].got # None
  /\ markSent(notifies[n].event.dedupKey)
  /\ received' = [received EXCEPT ![notifies[n].got].acked = clock]
  /\ notifies' = [notifies EXCEPT ![n] = NoNotify]
  /\ UNCHANGED <<service, suppressed, begun, restarts>>

\* Mutant: a key is marked as soon as its delivery is given up.
failed_marked(n) ==
  /\ notifies[n].pc = "answer"
  /\ IF notifies[n].attempt < totalAttempts
     THEN /\ notifies' = [notifies EXCEPT
               ![n] = [@ EXCEPT !.pc = "sleep", !.got = None,
                                !.until = clock + retryDelayForAttempt(notifies[n].attempt)]]
          /\ UNCHANGED dedupCache
     ELSE notifies' = [notifies EXCEPT ![n] = NoNotify] /\ markSent(notifies[n].event.dedupKey)
  /\ UNCHANGED <<service, received, suppressed, begun, restarts>>

\* An error status, a network error or the timeout; also when the webhook got it.
failed(n) ==
  /\ notifies[n].pc = "answer"
  /\ notifies' = [notifies EXCEPT
       ![n] = IF notifies[n].attempt < totalAttempts
              THEN [@ EXCEPT !.pc = "sleep", !.got = None,
                             !.until = clock + retryDelayForAttempt(notifies[n].attempt)]
              ELSE NoNotify]
  /\ UNCHANGED <<service, dedupCache, received, suppressed, begun, restarts>>

retry(n) ==
  /\ notifies[n].pc = "sleep" /\ notifies[n].until <= clock
  /\ notifies' = [notifies EXCEPT
       ![n] = [@ EXCEPT !.pc = "post", !.attempt = notifies[n].attempt + 1, !.until = None]]
  /\ UNCHANGED <<service, dedupCache, received, suppressed, begun, restarts>>

\* The cache is in memory.
restart ==
  /\ restarts < MaxRestarts
  /\ restarts' = restarts + 1
  /\ dedupCache' = [k \in DOMAIN dedupCache |-> None]
  /\ notifies' = [n \in Notifies |-> NoNotify]
  /\ UNCHANGED <<service, received, suppressed, begun>>

NotificationStep ==
  \/ \E n \in Notifies :
       \/ \E event \in AlertsOf[service] : notify(n, event)
       \/ post(n) \/ answered(n) \/ failed(n) \/ retry(n)
  \/ restart

------------------------------------------------------------------------------

(***************************************************************************)
(* A notification is suppressed only if the webhook got one that tells the *)
(* same, and answered, within the cooldown: neither failures, retries and  *)
(* calls side by side, nor the keys that the callers make up, silence an   *)
(* alert that nobody received.  And a call that begins within the cooldown *)
(* of a delivery its process saw succeed posts nothing; two calls that     *)
(* overlap may both post (index.ts:147, :208, :240; reconciler.ts:50).     *)
(***************************************************************************)
CooldownRespected ==
  /\ \A i \in DOMAIN suppressed :
       \E j \in DOMAIN received :
         /\ received[j].payload = suppressed[i].payload
         /\ received[j].acked # None
         /\ suppressed[i].at - received[j].acked \in 0 .. cooldownMs - 1
  /\ \A j \in DOMAIN received : \A i \in received[j].known :
       received[j].since - received[i].acked >= cooldownMs

===============================================================================
