----------------------------- MODULE BlockFiles -----------------------------
(***************************************************************************)
(* What the flatfs datastore promises to concurrent callers, over crashes. *)
(*                                                                         *)
(* An operation on a key takes effect at one moment between its call and   *)
(* its return, and a "put" that did so and succeeded stays over a crash.   *)
(* Operations of the same key that overlap may be settled by one of them:  *)
(* when it succeeds, the others may succeed with it and have no effect of  *)
(* their own ("we cannot guarantee which one will win").  A "rename", the  *)
(* part of a batch that stores one key, succeeds before it is durable.     *)
(***************************************************************************)
CONSTANTS Keys, Threads, None

VARIABLES
  present,   \* the keys that a reader finds
  limbo,     \* the keys of which a crash may or may not undo the last change
  pending    \* the operation each thread is in, if any

contractVars == <<present, limbo, pending>>

Operation(typ, key, state) == [typ |-> typ, key |-> key, state |-> state]

Becomes(t, state) ==
  pending' = [pending EXCEPT ![t] = Operation(pending[t].typ, pending[t].key, state)]

InState(t, state) == pending[t] # None /\ pending[t].state = state

ContractInit ==
  /\ present \in SUBSET Keys
  /\ limbo = {}
  /\ pending = [t \in Threads |-> None]

Invoke(t, typ, k) ==
  /\ pending[t] = None
  /\ pending' = [pending EXCEPT ![t] = Operation(typ, k, "called")]
  /\ UNCHANGED <<present, limbo>>

\* A delete takes effect only on a key that is there.
TakeEffect(t) ==
  /\ InState(t, "called")
  /\ IF pending[t].typ = "delete"
       THEN pending[t].key \in present /\ present' = present \ {pending[t].key}
       ELSE present' = present \cup {pending[t].key}
  /\ limbo' \in {limbo, limbo \cup {pending[t].key}}
  /\ Becomes(t, "effective")

\* Some directories are synchronised.
Settle ==
  /\ limbo' \in SUBSET limbo
  /\ UNCHANGED <<present, pending>>

\* It succeeds, and so do others that wait for the same key.
Succeed(t, others) ==
  /\ InState(t, "effective")
  /\ pending[t].typ = "put" => pending[t].key \notin limbo
  /\ \A s \in others : InState(s, "called") /\ pending[s].key = pending[t].key
  /\ pending' = [s \in Threads |-> IF s = t \/ s \in others
                                     THEN Operation(pending[s].typ, pending[s].key, "ok")
                                     ELSE pending[s]]
  /\ UNCHANGED <<present, limbo>>

\* A delete finds nothing to delete.
Miss(t) ==
  /\ InState(t, "called")
  /\ pending[t].typ = "delete" /\ pending[t].key \notin present
  /\ Becomes(t, "notfound")
  /\ UNCHANGED <<present, limbo>>

\* It fails.  Only a put may have taken effect before.
Fail(t) ==
  /\ InState(t, "called") \/ (InState(t, "effective") /\ pending[t].typ = "put")
  /\ Becomes(t, "error")
  /\ UNCHANGED <<present, limbo>>

\* A put that failed may be tried again before it returns.
Retry(t) ==
  /\ InState(t, "error") /\ pending[t].typ = "put"
  /\ Becomes(t, "called")
  /\ UNCHANGED <<present, limbo>>

Respond(t) ==
  /\ pending[t] # None /\ pending[t].state \in {"ok", "notfound", "error"}
  /\ pending' = [pending EXCEPT ![t] = None]
  /\ UNCHANGED <<present, limbo>>

Restart ==
  /\ present \ limbo \subseteq present' /\ present' \subseteq present \cup limbo
  /\ limbo' = {}
  /\ pending' = [t \in Threads |-> None]

ContractNext ==
  \/ \E t \in Threads :
       \/ \E typ \in {"put", "rename", "delete"}, k \in Keys : Invoke(t, typ, k)
       \/ TakeEffect(t) \/ Miss(t) \/ Fail(t) \/ Retry(t) \/ Respond(t)
       \/ \E others \in SUBSET Threads : Succeed(t, others)
  \/ Settle
  \/ Restart

Contract == ContractInit /\ [][ContractNext]_contractVars
=============================================================================
