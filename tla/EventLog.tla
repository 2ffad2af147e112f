------------------------------ MODULE EventLog ------------------------------
(***************************************************************************)
(* The in-memory deployment log of one node (appState.deploys): a list of  *)
(* events, newest first, at most one of which is meant to exist per key.   *)
(* Every operator is a function of the whole list because the code holds   *)
(* appState.mu for the whole of each call.                                 *)
(***************************************************************************)
EXTENDS Naturals, Sequences

\* How many events a node keeps (20 in the code; small in the runs).
CONSTANT LogLimit

ASSUME LogLimitAssumption == LogLimit \in Nat \ {0}

\* The longest prefix of items that has at most count elements.
FirstDeploys(items, count) ==
  IF Len(items) <= count THEN items ELSE SubSeq(items, 1, count)

\* log has an event with this key.
HasKey(log, key) == \E i \in DOMAIN log : log[i].key = key

\* The scans of the code stop at position i: no earlier event has the key.
FoundAt(log, key, i) == log[i].key = key /\ \A j \in 1 .. i - 1 : log[j].key # key

\* A slip: the scan for an event with the same key is left out.
PrependDeployEvent(log, event) == FirstDeploys(<<event>> \o log, LogLimit)

\* Replace the first event with this key in place, or else put the event in
\* front and drop what no longer fits.
UpsertDeployEvent(log, event) ==
  IF HasKey(log, event.key)
  THEN [i \in DOMAIN log |-> IF FoundAt(log, event.key, i) THEN event ELSE log[i]]
  ELSE FirstDeploys(<<event>> \o log, LogLimit)

\* The answer to a lookup: the first event with this key, or none.
GetDeployEventByKey(log, key) == {log[i] : i \in {j \in DOMAIN log : FoundAt(log, key, j)}}

\* The log is within its limit and shows no key twice.
WellFormed(log) ==
  /\ Len(log) <= LogLimit
  /\ \A i, j \in DOMAIN log : log[i].key = log[j].key => i = j

\* The events of a log, whatever their order.
EventsOf(log) == {log[i] : i \in DOMAIN log}

\* The events of a log that have the given key.
EntriesFor(log, key) == {event \in EventsOf(log) : event.key = key}
=============================================================================
