---------------------------- MODULE PaymentDemo -----------------------------
(***************************************************************************)
(* demo/pay/PaymentDemo.java: getPaymentInfos() asks the service about     *)
(* each payment type in a thread of its own, and waits a limited time for  *)
(* all of them.  The map it returns is the one the threads that are late   *)
(* still write to, while its caller reads it.                              *)
(***************************************************************************)
EXTENDS Integers, Sequences, FiniteSets, SequencesExt

CONSTANTS
  Payment,  \* the payment types
  Lists     \* the lists getPaymentInfos() is called with

ASSUME ListsAssumption == Lists \subseteq Seq(Payment)

VARIABLES
  paymentTypes,  \* the list of this call
  service,       \* external: what the service does with each type
  task,          \* where the task of each type is
  result,        \* the entries of the map
  latch,         \* the count of the latch
  caller,        \* where getPaymentInfos() and its caller are
  timely,        \* the types that had been counted when the wait ended
  read           \* the entries the caller has read

payVars == <<paymentTypes, service, task, result, latch, caller, timely, read>>

\* The defaultResult, and an entry that is not there or has not been read.
Timeout == "timeout-code"
Absent == "absent"

PayInit ==
  /\ paymentTypes \in Lists
  /\ service \in [Payment -> {"enabled", "disabled", "throws"}]
  /\ task = [p \in Payment |-> "none"]
  /\ result = [p \in Payment |-> Absent]
  /\ latch = 0
  /\ caller = "called"
  /\ timely = {}
  /\ read = [p \in Payment |-> Absent]

\* Collectors.toMap() throws if a type is in the list twice, and
\* newFixedThreadPool(0) if there is none.
Prepare ==
  /\ caller = "called"
  /\ IF paymentTypes = << >> \/ ~IsInjective(paymentTypes)
     THEN caller' = "threw" /\ UNCHANGED <<result, latch>>
     ELSE /\ caller' = "submitting"
          /\ result' = [p \in Payment |->
                          IF p \in ToSet(paymentTypes) THEN Timeout ELSE Absent]
          /\ latch' = Len(paymentTypes)
  /\ UNCHANGED <<paymentTypes, service, task, timely, read>>

\* The loop submits one task for each type; the pool has a thread for each.
Submit(p) ==
  /\ caller = "submitting"
  /\ p \in ToSet(paymentTypes) /\ task[p] = "none"
  /\ task' = [task EXCEPT ![p] = "running"]
  /\ UNCHANGED <<paymentTypes, service, result, latch, caller, timely, read>>

Submitted ==
  /\ caller = "submitting"
  /\ \A p \in ToSet(paymentTypes) : task[p] # "none"
  /\ caller' = "awaiting"
  /\ UNCHANGED <<paymentTypes, service, task, result, latch, timely, read>>

\* isEnabled() throws, and with it the task, which never counts down.
ServiceThrows(p) ==
  /\ task[p] = "running" /\ service[p] = "throws"
  /\ task' = [task EXCEPT ![p] = "failed"]
  /\ UNCHANGED <<paymentTypes, service, result, latch, caller, timely, read>>

\* Fault: the latch is counted down before the answer is there.
PutAfterCount(p) ==
  /\ task[p] = "running" /\ service[p] # "throws"
  /\ task' = [task EXCEPT ![p] = "put"]
  /\ UNCHANGED <<paymentTypes, service, result, latch, caller, timely, read>>

\* isEnabled() answers, and the answer is put into the map ...
Put(p) ==
  /\ task[p] = "running" /\ service[p] # "throws"
  /\ task' = [task EXCEPT ![p] = "put"]
  /\ result' = [result EXCEPT ![p] = service[p]]
  /\ UNCHANGED <<paymentTypes, service, latch, caller, timely, read>>

\* ... before the latch is counted down.
CountDown(p) ==
  /\ task[p] = "put"
  /\ task' = [task EXCEPT ![p] = "counted"]
  /\ latch' = latch - 1
  /\ UNCHANGED <<paymentTypes, service, result, caller, timely, read>>

\* await() ends as the count is 0, or with the timeout or an interrupt.
WaitEnds ==
  /\ caller = "awaiting"
  /\ caller' = IF latch = 0 THEN "answered" ELSE "timed out"
  /\ timely' = {p \in Payment : task[p] = "counted"}
  /\ UNCHANGED <<paymentTypes, service, task, result, latch, read>>

\* The caller reads an entry of the HashMap.  A put that is not ordered before
\* the end of the wait by the latch may be seen or not.
Read(p) ==
  /\ caller \in {"answered", "timed out"}
  /\ p \in ToSet(paymentTypes) /\ read[p] = Absent
  /\ \E value \in IF p \in timely THEN {result[p]} ELSE {Timeout, result[p]} :
       read' = [read EXCEPT ![p] = value]
  /\ UNCHANGED <<paymentTypes, service, task, result, latch, caller, timely>>

PayNext ==
  \/ Prepare \/ Submitted \/ WaitEnds
  \/ \E p \in Payment :
       Submit(p) \/ ServiceThrows(p) \/ Put(p) \/ CountDown(p) \/ Read(p)

PaySpec == PayInit /\ [][PayNext]_payVars

-----------------------------------------------------------------------------
\* What the caller reads is what the service has answered about that type, or
\* the default; and never the default for an answer that was counted before the
\* wait ended.  The wait ends before its time only if every answer has come,
\* so one that throws makes the caller wait for all of it.
PaymentRight ==
  /\ \A p \in Payment : read[p] # Absent =>
       /\ read[p] \in {Timeout, service[p]}
       /\ caller = "answered" \/ p \in timely => read[p] = service[p]
  /\ caller = "answered" => \A p \in ToSet(paymentTypes) : service[p] # "throws"
=============================================================================
