--------------------------- MODULE AbstractTable ----------------------------
(***************************************************************************)
(* What the kernel register expects of a dispatch table.  It maps keys to  *)
(* values; a value that is given to it goes into the sink before anybody   *)
(* can find it.  An insert puts its value there in one step, unless the    *)
(* table is full for its key, which it then stays.  A query answers what   *)
(* the table has at some moment of the call, and always finds a key that   *)
(* was there at the beginning.                                             *)
(***************************************************************************)
CONSTANTS Threads, Keys, Values, KeyOf, None

VARIABLES
  map,    \* the value of each key, None if it has none
  full,   \* the keys that are refused
  sink,   \* the values to be freed in the end
  busy,   \* the threads inside a call
  arg,    \* the key and the value of a thread's call, None for a query's
  due,    \* its key was there when the call began
  ret     \* what its last call returned

vars == <<map, full, sink, busy, arg, due, ret>>

Init ==
  /\ map = [k \in Keys |-> None]
  /\ full = {}
  /\ sink = {}
  /\ busy = {}
  /\ arg = [t \in Threads |-> [key |-> None, value |-> None]]
  /\ due = [t \in Threads |-> FALSE]
  /\ ret = [t \in Threads |-> None]

Call(t, k, v) ==
  /\ t \notin busy
  /\ busy' = busy \cup {t}
  /\ arg' = [arg EXCEPT ![t] = [key |-> k, value |-> v]]
  /\ due' = [due EXCEPT ![t] = map[k] # None]
  /\ UNCHANGED <<map, full, sink, ret>>

Collect(t) ==
  /\ t \in busy /\ arg[t].value # None
  /\ sink' = sink \cup {arg[t].value}
  /\ UNCHANGED <<map, full, busy, arg, due, ret>>

\* The table may have become full for keys that it does not have.
Put(t) ==
  /\ t \in busy /\ arg[t].value # None
  /\ arg[t].value \in sink
  /\ arg[t].key \notin full
  /\ map' = [map EXCEPT ![arg[t].key] = arg[t].value]
  /\ full \subseteq full' /\ full' \subseteq {k \in Keys : map'[k] = None}
  /\ UNCHANGED <<sink, busy, arg, due, ret>>

Return(t, v) ==
  /\ busy' = busy \ {t}
  /\ ret' = [ret EXCEPT ![t] = v]
  /\ UNCHANGED <<map, full, sink, arg, due>>

\* The value of an insert may have been replaced by the time it returns.
EndInsert(t) ==
  /\ t \in busy /\ arg[t].value # None
  /\ \/ map[arg[t].key] # None /\ \E v \in {arg[t].value, map[arg[t].key]} : Return(t, v)
     \/ arg[t].key \in full /\ Return(t, None)

EndQuery(t) ==
  /\ t \in busy /\ arg[t].value = None
  /\ \/ map[arg[t].key] # None /\ Return(t, map[arg[t].key])
     \/ ~due[t] /\ Return(t, None)

Next ==
  \E t \in Threads :
    \/ \E v \in Values : Call(t, KeyOf[v], v)
    \/ \E k \in Keys : Call(t, k, None)
    \/ Collect(t) \/ Put(t) \/ EndInsert(t) \/ EndQuery(t)

Spec == Init /\ [][Next]_vars
=============================================================================
