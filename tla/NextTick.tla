------------------------------ MODULE NextTick ------------------------------
(***************************************************************************)
(* js/mermaid.core.js 582-770: process.nextTick() in a browser.  Callbacks *)
(* wait in queue until a timer calls drainQueue(), which runs them one     *)
(* after the other.  A callback may ask for more callbacks, and may throw: *)
(* the exception ends drainQueue(), and the timer of cleanUpNextTick(),    *)
(* set at its beginning, goes on behind the callback that threw.           *)
(*                                                                         *)
(* The script has one thread: between two of the steps below only the next *)
(* step of the same call, or the next event, can come.                     *)
(***************************************************************************)
EXTENDS Naturals, Sequences, SequencesExt

CONSTANT Item  \* the callbacks: every call of nextTick() makes a new Item

VARIABLES
  queue,         \* callbacks asked for since the current ones were taken
  currentQueue,  \* the callbacks drainQueue() runs; << >> stands for null
  queueIndex,    \* how many of them have been begun (the code's, plus one)
  draining,      \* the flag that stays set when a callback throws
  drainTimers,   \* pending timers that will call drainQueue()
  cleanTimers,   \* pending timers that will call cleanUpNextTick()
  at,            \* "event loop", in drainQueue "between" callbacks, in a "callback"
  asked,         \* history: the callbacks in the order of the nextTick() calls
  begun          \* history: the callbacks in the order they were begun

timers == <<drainTimers, cleanTimers>>
tickVars == <<queue, currentQueue, queueIndex, draining, timers, at, asked, begun>>

TickInit ==
  /\ queue = << >> /\ currentQueue = << >> /\ queueIndex = 0
  /\ draining = FALSE
  /\ drainTimers = 0 /\ cleanTimers = 0
  /\ at = "event loop"
  /\ asked = << >> /\ begun = << >>

\* Fault: the negation is lost, a timer is set while drainQueue() is running.
CallIfDraining(item) ==
  /\ at # "between"
  /\ item \notin ToSet(asked)
  /\ asked' = Append(asked, item)
  /\ queue' = Append(queue, item)
  /\ drainTimers' = IF queue = << >> /\ draining THEN drainTimers + 1 ELSE drainTimers
  /\ UNCHANGED <<currentQueue, queueIndex, draining, cleanTimers, at, begun>>

\* process.nextTick(item), called by the page or by a callback.
CallNextTick(item) ==
  /\ at # "between"
  /\ item \notin ToSet(asked)
  /\ asked' = Append(asked, item)
  /\ queue' = Append(queue, item)
  /\ drainTimers' = IF queue = << >> /\ ~draining THEN drainTimers + 1 ELSE drainTimers
  /\ UNCHANGED <<currentQueue, queueIndex, draining, cleanTimers, at, begun>>

\* The head of the outer loop of drainQueue(): take what has been asked for,
\* or be done and clear the timer.
TakeOrEnd(q, cleaners) ==
  /\ currentQueue' = q
  /\ queue' = << >>
  /\ draining' = (q # << >>)
  /\ cleanTimers' = IF q = << >> THEN cleaners - 1 ELSE cleaners
  /\ at' = IF q = << >> THEN "event loop" ELSE "between"

\* A timer calls drainQueue().
FireDrain ==
  /\ at = "event loop" /\ drainTimers > 0
  /\ drainTimers' = drainTimers - 1
  /\ IF draining THEN UNCHANGED <<queue, currentQueue, draining, cleanTimers, at>>
                 ELSE TakeOrEnd(queue, cleanTimers + 1)
  /\ UNCHANGED <<queueIndex, asked, begun>>

\* The inner loop: run the next callback ...
Begin ==
  /\ at = "between" /\ queueIndex < Len(currentQueue)
  /\ queueIndex' = queueIndex + 1
  /\ begun' = Append(begun, currentQueue[queueIndex + 1])
  /\ at' = "callback"
  /\ UNCHANGED <<queue, currentQueue, draining, timers, asked>>

\* ... and when all have been run, look at what was asked for meanwhile.
EndOfQueue ==
  /\ at = "between" /\ queueIndex = Len(currentQueue)
  /\ queueIndex' = 0
  /\ TakeOrEnd(queue, cleanTimers)
  /\ UNCHANGED <<drainTimers, asked, begun>>

CallbackReturns ==
  /\ at = "callback"
  /\ at' = "between"
  /\ UNCHANGED <<queue, currentQueue, queueIndex, draining, timers, asked, begun>>

\* Nobody catches the exception: drainQueue() is left as it stands.
CallbackThrows ==
  /\ at = "callback"
  /\ at' = "event loop"
  /\ UNCHANGED <<queue, currentQueue, queueIndex, draining, timers, asked, begun>>

\* Fault: the callbacks begin again with the first one.
CleanUpFromStart ==
  /\ at = "event loop" /\ cleanTimers > 0
  /\ TakeOrEnd(currentQueue \o queue, cleanTimers)
  /\ queueIndex' = 0
  /\ UNCHANGED <<drainTimers, asked, begun>>

\* A timer calls cleanUpNextTick(): the rest of the callbacks goes before the
\* new ones, and drainQueue(), which sets its own timer, resumes behind the
\* one that threw.
FireCleanUp ==
  /\ at = "event loop" /\ cleanTimers > 0
  /\ IF ~draining \/ currentQueue = << >>
     THEN /\ cleanTimers' = cleanTimers - 1
          /\ UNCHANGED <<queue, currentQueue, draining, at>>
     ELSE TakeOrEnd(currentQueue \o queue, cleanTimers)
  /\ UNCHANGED <<queueIndex, drainTimers, asked, begun>>

-----------------------------------------------------------------------------
\* What the script does by itself once a timer has fired.
RunOn == FireDrain \/ FireCleanUp \/ Begin \/ EndOfQueue \/ CallbackReturns

TickNext == RunOn \/ CallbackThrows \/ \E item \in Item : CallNextTick(item)

\* Timers fire and callbacks end; nobody has to ask for a callback.
TickSpec == TickInit /\ [][TickNext]_tickVars /\ WF_tickVars(RunOn)

-----------------------------------------------------------------------------
\* The callbacks that have been asked for and not begun.
Waiting == SubSeq(currentQueue, queueIndex + 1, Len(currentQueue)) \o queue

\* Every variable keeps its type.
TickTypes ==
  /\ queue \in Seq(Item) /\ currentQueue \in Seq(Item)
  /\ queueIndex \in 0 .. Len(currentQueue)
  /\ draining \in BOOLEAN
  /\ drainTimers \in Nat /\ cleanTimers \in Nat
  /\ at \in {"event loop", "between", "callback"}
  /\ asked \in Seq(Item) /\ begun \in Seq(Item)

\* Callbacks are begun once each, in the order of the nextTick() calls, however
\* many of them throw or ask for more.
TicksInOrder == asked = begun \o Waiting

\* While callbacks wait and the script is idle exactly one timer is pending, and
\* it is the one that will run them: after an exception that of
\* cleanUpNextTick(), else that of drainQueue().
OneTimerRunsThem ==
  at = "event loop" =>
    /\ draining => cleanTimers = 1 /\ drainTimers = 0
    /\ ~draining => cleanTimers = 0
    /\ ~draining /\ Waiting = << >> => drainTimers = 0
    /\ ~draining /\ Waiting # << >> => drainTimers = 1

\* Every callback that is asked for is begun, even behind one that throws.
EveryTickBegins ==
  \A item \in Item : (item \in ToSet(asked)) ~> (item \in ToSet(begun))
=============================================================================
