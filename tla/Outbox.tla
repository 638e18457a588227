------------------------------- MODULE Outbox -------------------------------
(***************************************************************************)
(* What a write-ahead outbox promises of each message: once it is held it  *)
(* stays held until it is accounted for, that is, sent in full, withdrawn  *)
(* or filed as failed. A message that is accounted for may be held again,  *)
(* and then sent again: the promise is at least once, not exactly once.    *)
(***************************************************************************)
CONSTANT Messages

VARIABLES held, accounted

vars == <<held, accounted>>

Init ==
  /\ held = {}
  /\ accounted = {}

(***************************************************************************)
(* A message is taken in, or, after it was accounted for, comes back.      *)
(***************************************************************************)
Accept(m) ==
  /\ m \notin held
  /\ held' = held \cup {m}
  /\ UNCHANGED accounted

Account(m) ==
  /\ accounted' = accounted \cup {m}
  /\ UNCHANGED held

Release(m) ==
  /\ m \in accounted
  /\ held' = held \ {m}
  /\ UNCHANGED accounted

(***************************************************************************)
(* Filing a message as failed lets it go and accounts for it at once.      *)
(***************************************************************************)
FileAsFailed(m) ==
  /\ held' = held \ {m}
  /\ accounted' = accounted \cup {m}

Next == \E m \in Messages : Accept(m) \/ Account(m) \/ Release(m) \/ FileAsFailed(m)

Spec == Init /\ [][Next]_vars
=============================================================================
