--------------------------------- MODULE Retry ---------------------------------
(* internal/resilience/retry.go: DoRetry repeats a function that fails     *)
(* with a retryable code, after a pause that grows.  The function is not   *)
(* part of this module: who composes it takes Attempt when the function    *)
(* starts and Returned when it ends.                                       *)
EXTENDS Integers

CONSTANTS
  Goroutines,     \* they call DoRetry, each one call after the other
  RetryConfigs    \* RetryConfig values they pass: durations are numbers of ticks

VARIABLES
  retry,          \* goroutine -> its DoRetry; waited is history: the ticks
                  \* its pauses have lasted so far
  ctxDone         \* goroutine -> its context is over

retryVars == <<retry, ctxDone>>

NoRetry == [pc |-> "idle", cfg |-> CHOOSE cfg \in RetryConfigs : TRUE,
            attempt |-> 0, backoff |-> 0, timer |-> 0, waited |-> 0, err |-> "OK"]

minDuration(a, b) == IF a < b THEN a ELSE b

(* MISTAKE: the larger of the two.                                         *)
nextBackoffUncapped(cfg, backoff) ==
  LET grown == backoff * cfg.BackoffMultiplier
  IN  IF grown < cfg.MaxBackoff THEN cfg.MaxBackoff ELSE grown

nextBackoff(cfg, backoff) == minDuration(backoff * cfg.BackoffMultiplier, cfg.MaxBackoff)

(* Codes are those of a gRPC status; an error of another kind, like        *)
(* ErrServiceNotFound of the SDK, has none.                                *)
isRetryable(err, codes) == err # "NoService" /\ err \in codes

RetryInit ==
  /\ retry = [g \in Goroutines |-> NoRetry]
  /\ ctxDone = [g \in Goroutines |-> FALSE]

Ends(g, err) ==
  retry' = [retry EXCEPT ![g].pc = "done", ![g].err = err, ![g].attempt = 0,
                         ![g].backoff = 0, ![g].timer = 0, ![g].waited = 0]

(* A goroutine calls DoRetry with a context of its own.                    *)
DoRetry(g, cfg) ==
  /\ retry[g].pc = "idle"
  /\ retry' = [retry EXCEPT ![g] = [NoRetry EXCEPT !.pc = "loop", !.cfg = cfg,
                                                   !.backoff = cfg.InitialBackoff]]
  /\ UNCHANGED ctxDone

(* The loop runs fn; the context is not looked at.                         *)
Attempt(g) ==
  /\ retry[g].pc = "loop"
  /\ retry[g].attempt < retry[g].cfg.MaxAttempts
  /\ retry' = [retry EXCEPT ![g].pc = "running"]
  /\ UNCHANGED ctxDone

(* MaxAttempts is zero: fn is not run at all.                              *)
NoAttempts(g) ==
  /\ retry[g].pc = "loop"
  /\ retry[g].attempt >= retry[g].cfg.MaxAttempts
  /\ Ends(g, "exhausted")
  /\ UNCHANGED ctxDone

(* MISTAKE: after the last attempt the loop's error is forgotten.          *)
ReturnedForgetful(g, err) ==
  LET final == retry[g].attempt = retry[g].cfg.MaxAttempts - 1
  IN  /\ retry[g].pc = "running"
      /\ IF err = "OK" \/ final THEN Ends(g, "OK")
         ELSE IF ~isRetryable(err, retry[g].cfg.RetryableCodes) THEN Ends(g, err)
         ELSE retry' = [retry EXCEPT ![g].pc = "waiting", ![g].timer = retry[g].backoff]
      /\ UNCHANGED ctxDone

(* fn has returned: done, or not worth another try, or the last one, or a  *)
(* pause before the next.                                                  *)
Returned(g, err) ==
  LET final == retry[g].attempt = retry[g].cfg.MaxAttempts - 1
  IN  /\ retry[g].pc = "running"
      /\ IF err = "OK" \/ ~isRetryable(err, retry[g].cfg.RetryableCodes) THEN Ends(g, err)
         ELSE IF final THEN Ends(g, "exhausted")
         ELSE retry' = [retry EXCEPT ![g].pc = "waiting", ![g].timer = retry[g].backoff]
      /\ UNCHANGED ctxDone

(* MISTAKE: a continue that skips the loop's increment.                    *)
TimerFiresUncounted(g) ==
  /\ retry[g].pc = "waiting" /\ retry[g].timer = 0
  /\ retry' = [retry EXCEPT ![g].pc = "loop",
                 ![g].backoff = nextBackoff(retry[g].cfg, retry[g].backoff)]
  /\ UNCHANGED ctxDone

(* The select: time.After(backoff), or the context.  When both are ready   *)
(* either may be taken.                                                    *)
TimerFires(g) ==
  /\ retry[g].pc = "waiting" /\ retry[g].timer = 0
  /\ retry' = [retry EXCEPT ![g].pc = "loop", ![g].attempt = @ + 1,
                 ![g].backoff = nextBackoff(retry[g].cfg, retry[g].backoff)]
  /\ UNCHANGED ctxDone

ContextEnds(g) ==
  /\ retry[g].pc = "waiting" /\ ctxDone[g]
  /\ Ends(g, "context")
  /\ UNCHANGED ctxDone

(* The goroutine has its result and goes on to its next DoRetry.           *)
Leave(g) ==
  /\ retry[g].pc = "done"
  /\ retry' = [retry EXCEPT ![g] = NoRetry]
  /\ ctxDone' = [ctxDone EXCEPT ![g] = FALSE]

(* Cancelled, or past its deadline.                                        *)
ContextOver(g) ==
  /\ retry[g].pc \notin {"idle", "done"} /\ ~ctxDone[g]
  /\ ctxDone' = [ctxDone EXCEPT ![g] = TRUE]
  /\ UNCHANGED retry

Tick ==
  /\ \E g \in Goroutines : retry[g].timer > 0
  /\ retry' = [g \in Goroutines |->
                 IF retry[g].timer = 0 THEN retry[g]
                 ELSE [retry[g] EXCEPT !.timer = @ - 1, !.waited = @ + 1]]
  /\ UNCHANGED ctxDone
=============================================================================
