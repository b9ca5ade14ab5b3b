------------------------------- MODULE Future -------------------------------
(***************************************************************************)
(* actor/future.go: complete, OnComplete and Await of one Future, called   *)
(* by any number of goroutines.  Each atomic operation, each operation on  *)
(* the channel and each section under cbMu is one action.                  *)
(***************************************************************************)
EXTENDS Integers, FiniteSets

CONSTANTS
    Completers,   \* goroutines that call complete, each with its own value
    Registrars,   \* goroutines that call OnComplete with their own callback
    Awaiters,     \* goroutines that call Await without a timeout
    Timed,        \* goroutines that call Await with a timeout
    None          \* no value: a nil result, an empty channel

ASSUME FutureAssumption ==
    /\ None \notin Completers
    /\ Completers \cap Registrars = {}
    /\ (Completers \cup Registrars) \cap (Awaiters \cup Timed) = {}
    /\ Awaiters \cap Timed = {}

VARIABLES
    done,        \* f.done
    result,      \* f.result: the completer whose value is stored
    ch,          \* the value in f.ch
    chClosed,    \* f.ch is closed
    callbacks,   \* f.callbacks, by the goroutine that registered each
    cbs,         \* cbs[x]: complete's copy, still to be run
    ran,         \* ran[r]: the values r's callback has been called with
    pc,          \* the next step of each goroutine
    ret          \* what Await returned: a value, or None for false

vars == <<done, result, ch, chClosed, callbacks, cbs, ran, pc, ret>>

Waiters == Awaiters \cup Timed
Procs == Completers \cup Registrars \cup Waiters

\* newFuture
Init ==
    /\ done = FALSE
    /\ result = None
    /\ ch = None
    /\ chClosed = FALSE
    /\ callbacks = {}
    /\ cbs = [x \in Completers |-> {}]
    /\ ran = [r \in Registrars |-> {}]
    /\ pc = [x \in Procs |-> "start"]
    /\ ret = [w \in Waiters |-> None]

Goto(x, l) == pc' = [pc EXCEPT ![x] = l]
Run(r, v) == ran' = [ran EXCEPT ![r] = @ \cup {v}]

-----------------------------------------------------------------------------
(* complete *)

\* Variant of CompleteSwap: a Store without a look at the old value.
CompleteSwapBlindly(x) ==
    /\ pc[x] = "start"
    /\ done' = TRUE
    /\ Goto(x, "store")
    /\ UNCHANGED <<result, ch, chClosed, callbacks, cbs, ran, ret>>

\* f.done.Swap(true)
CompleteSwap(x) ==
    /\ pc[x] = "start"
    /\ done' = TRUE
    /\ Goto(x, IF done THEN "end" ELSE "store")
    /\ UNCHANGED <<result, ch, chClosed, callbacks, cbs, ran, ret>>

CompleteStore(x) ==
    /\ pc[x] = "store"
    /\ result' = x
    /\ Goto(x, "send")
    /\ UNCHANGED <<done, ch, chClosed, callbacks, cbs, ran, ret>>

\* f.ch <- v: the buffer holds one value, and only one complete gets here.
CompleteSend(x) ==
    /\ pc[x] = "send"
    /\ ch = None
    /\ ch' = x
    /\ Goto(x, "close")
    /\ UNCHANGED <<done, result, chClosed, callbacks, cbs, ran, ret>>

\* Variant of CompleteClose that leaves the channel open.
CompleteCloseNot(x) ==
    /\ pc[x] = "close"
    /\ Goto(x, "take")
    /\ UNCHANGED <<done, result, ch, chClosed, callbacks, cbs, ran, ret>>

CompleteClose(x) ==
    /\ pc[x] = "close"
    /\ chClosed' = TRUE
    /\ Goto(x, "take")
    /\ UNCHANGED <<done, result, ch, callbacks, cbs, ran, ret>>

\* Variant of CompleteTake that forgets the callbacks before it copies them.
CompleteTakeClearsFirst(x) ==
    /\ pc[x] = "take"
    /\ callbacks' = {}
    /\ Goto(x, "run")
    /\ UNCHANGED <<done, result, ch, chClosed, cbs, ran, ret>>

\* Under cbMu: copy the callbacks and forget them.
CompleteTake(x) ==
    /\ pc[x] = "take"
    /\ cbs' = [cbs EXCEPT ![x] = callbacks]
    /\ callbacks' = {}
    /\ Goto(x, "run")
    /\ UNCHANGED <<done, result, ch, chClosed, ran, ret>>

CompleteRun(x) ==
    /\ pc[x] = "run"
    /\ \/ \E r \in cbs[x] :
            /\ Run(r, x)
            /\ cbs' = [cbs EXCEPT ![x] = @ \ {r}]
            /\ pc' = pc
       \/ /\ cbs[x] = {}
          /\ Goto(x, "end")
          /\ UNCHANGED <<cbs, ran>>
    /\ UNCHANGED <<done, result, ch, chClosed, callbacks, ret>>

-----------------------------------------------------------------------------
(* OnComplete *)

OnCompleteLoadDone(r) ==
    /\ pc[r] = "start"
    /\ Goto(r, IF done THEN "result" ELSE "append")
    /\ UNCHANGED <<done, result, ch, chClosed, callbacks, cbs, ran, ret>>

\* A nil result: the callback is not called.
OnCompleteLoadResult(r) ==
    /\ pc[r] = "result"
    /\ \/ result # None /\ Run(r, result)
       \/ result = None /\ ran' = ran
    /\ Goto(r, "end")
    /\ UNCHANGED <<done, result, ch, chClosed, callbacks, cbs, ret>>

\* Under cbMu.
OnCompleteAppend(r) ==
    /\ pc[r] = "append"
    /\ callbacks' = callbacks \cup {r}
    /\ Goto(r, "end")
    /\ UNCHANGED <<done, result, ch, chClosed, cbs, ran, ret>>

-----------------------------------------------------------------------------
(* Await *)

AwaitLoadDone(w) ==
    /\ pc[w] = "start"
    /\ Goto(w, IF done THEN "result" ELSE "receive")
    /\ UNCHANGED <<done, result, ch, chClosed, callbacks, cbs, ran, ret>>

AwaitLoadResult(w) ==
    /\ pc[w] = "result"
    /\ ret' = [ret EXCEPT ![w] = result]
    /\ Goto(w, "end")
    /\ UNCHANGED <<done, result, ch, chClosed, callbacks, cbs, ran>>

\* v, ok := <-f.ch: the buffered value, or false once closed and drained.
AwaitReceive(w) ==
    /\ pc[w] = "receive"
    /\ ch # None \/ chClosed
    /\ ret' = [ret EXCEPT ![w] = ch]
    /\ ch' = None
    /\ Goto(w, "end")
    /\ UNCHANGED <<done, result, chClosed, callbacks, cbs, ran>>

AwaitTimeout(w) ==
    /\ pc[w] = "receive"
    /\ w \in Timed
    /\ Goto(w, "end")
    /\ UNCHANGED <<done, result, ch, chClosed, callbacks, cbs, ran, ret>>

-----------------------------------------------------------------------------
CompleteStep(x) ==
    \/ CompleteStore(x) \/ CompleteSend(x) \/ CompleteClose(x)
    \/ CompleteTake(x) \/ CompleteRun(x)

OnCompleteStep(r) ==
    \/ OnCompleteLoadDone(r) \/ OnCompleteLoadResult(r) \/ OnCompleteAppend(r)

AwaitStep(w) ==
    \/ AwaitLoadDone(w) \/ AwaitLoadResult(w) \/ AwaitReceive(w)
    \/ AwaitTimeout(w)

Next ==
    \/ \E x \in Completers : CompleteSwap(x) \/ CompleteStep(x)
    \/ \E r \in Registrars : OnCompleteStep(r)
    \/ \E w \in Waiters : AwaitStep(w)

Spec == Init /\ [][Next]_vars

(***************************************************************************)
(* Goroutines are scheduled; a call of complete, once entered, runs to its *)
(* end.  Somebody calls complete: a pending future has a timeout           *)
(* (System.TrackPending).                                                  *)
(***************************************************************************)
Fairness ==
    /\ \A x \in Completers : WF_vars(CompleteSwap(x) \/ CompleteStep(x))
    /\ \A r \in Registrars : WF_vars(OnCompleteStep(r))
    /\ \A w \in Waiters : WF_vars(AwaitStep(w))

FairSpec == Spec /\ Fairness

-----------------------------------------------------------------------------
(* Correctness *)

\* Types; at most one callback copy per completer.
TypeOK ==
    /\ done \in BOOLEAN
    /\ result \in Completers \cup {None}
    /\ ch \in Completers \cup {None}
    /\ chClosed \in BOOLEAN
    /\ callbacks \subseteq Registrars
    /\ cbs \in [Completers -> SUBSET Registrars]
    /\ ran \in [Registrars -> SUBSET Completers]
    /\ pc \in [Procs -> {"start", "store", "send", "close", "take", "run",
                         "result", "append", "receive", "end"}]
    /\ ret \in [Waiters -> Completers \cup {None}]

(***************************************************************************)
(* A Future is completed once: whoever learns a value, through the result, *)
(* the channel, a callback or Await, learns the same one, although two     *)
(* complete calls (a response and a timeout) race.                         *)
(***************************************************************************)
OneValue ==
    LET Seen == ({result, ch} \cup {ret[w] : w \in Waiters}
                   \cup UNION {ran[r] : r \in Registrars}) \ {None}
    IN  Cardinality(Seen) <= 1

(***************************************************************************)
(* A callback is pending in at most one place and is never called again:   *)
(* it is registered, or copied by the completer, or has run.               *)
(***************************************************************************)
CallbackOnce ==
    \A r \in Registrars :
        Cardinality({x \in Completers : r \in cbs[x]})
          + (IF r \in callbacks THEN 1 ELSE 0)
          + Cardinality(ran[r]) <= 1

\* complete never sends on a full or closed channel: it would block or panic.
SendIsSafe == \A x \in Completers : pc[x] = "send" => ch = None /\ ~chClosed

(***************************************************************************)
(* A callback that is registered before the Future is completed is called. *)
(***************************************************************************)
EarlyCallbackRuns ==
    \A r \in Registrars : r \in callbacks /\ ~done ~> ran[r] # {}

\* Every Await returns once the Future is completed.
AwaitReturns == \A w \in Waiters : pc[w] = "receive" ~> pc[w] = "end"

\* x has won the Swap and has not finished complete.
Active(x) == pc[x] \in {"store", "send", "close", "take", "run"}

\* Why: one completer at most gets past the Swap, and everything a caller can
\* learn is the result it stored.
WinnerInv ==
    /\ ~done => result = None /\ ~chClosed /\ \A x \in Completers : ~Active(x)
    /\ \A x, y \in Completers : Active(x) /\ Active(y) => x = y
    /\ \A x \in Completers :
         /\ pc[x] = "store" => result = None
         /\ Active(x) /\ pc[x] # "store" => result = x
         /\ pc[x] \in {"store", "send"} => ch = None /\ ~chClosed
         /\ cbs[x] # {} => result = x
    /\ ch \in {None, result}
    /\ \A w \in Waiters : ret[w] \in {None, result}

\* A callback waits in one place, and only after its OnComplete has returned.
CallbackInv ==
    \A r \in Registrars :
        /\ ran[r] \subseteq {result}
        /\ r \in callbacks => pc[r] = "end" /\ ran[r] = {}
        /\ \A x \in Completers : r \in cbs[x] =>
             pc[r] = "end" /\ ran[r] = {} /\ r \notin callbacks
        /\ ran[r] # {} => pc[r] = "end"

(***************************************************************************)
(* A response and a timeout that race complete a Future once: one value,   *)
(* no callback twice, and a send that never blocks (future.go:38-51).      *)
(***************************************************************************)
FutureInv == TypeOK /\ SendIsSafe /\ OneValue /\ CallbackOnce
=============================================================================
