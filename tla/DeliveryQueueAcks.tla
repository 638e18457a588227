-------------------------- MODULE DeliveryQueueAcks --------------------------
(***************************************************************************)
(* DeliveryQueue with a history variable: the entries that a recovery pass *)
(* has acknowledged.                                                       *)
(***************************************************************************)
EXTENDS DeliveryQueue

VARIABLE recovered

AckedBy(r) == at[Pass(r)] = "acking" /\ json[item[r]] # Absent /\ json'[item[r]] = Absent

AckInit == Init /\ recovered = {}

AckNext ==
  /\ Next
  /\ recovered' = recovered \cup {item[r] : r \in {r \in Passes : AckedBy(r)}}

AckSpec == AckInit /\ [][AckNext]_<<vars, recovered>>

(***************************************************************************)
(* "Re-read after claim so the queue file remains the source of truth.     *)
(* This prevents stale startup/reconnect snapshots from re-sending an      *)
(* entry that another recovery path already acked"                         *)
(* (delivery-queue-recovery.ts). The code does not keep it: a live call    *)
(* and the deferral of a startup pass call failDelivery without a claim,   *)
(* which may write back a file that a pass has acknowledged since it was   *)
(* read.                                                                   *)
(***************************************************************************)
AckedNotResent ==
  [][\A r \in Passes :
       at[Pass(r)] = "loading" /\ at'[Pass(r)] = "sending" => item[r] \notin recovered
    ]_<<vars, recovered>>
=============================================================================
