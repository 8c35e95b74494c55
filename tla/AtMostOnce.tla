----------------------------- MODULE AtMostOnce -----------------------------
(***************************************************************************)
(* What the claim-before-send discipline promises about one idempotency    *)
(* key, whatever the number of processes, redeliveries and crashes: the    *)
(* work of a key is started at most once per claim; it ends as sent,       *)
(* reported (system.error) or, when the process running it dies, lost; and *)
(* an ended key stays as it is until its claim expires.                    *)
(***************************************************************************)
CONSTANT Key

VARIABLE status   \* [Key -> {"fresh", "running", "sent", "reported", "lost"}]

Status == {"fresh", "running", "sent", "reported", "lost"}

AMOInit == status = [k \in Key |-> "fresh"]

Move(k, from, to) ==
    /\ status[k] \in from
    /\ \E s \in to : status' = [status EXCEPT ![k] = s]

Begin(k)  == Move(k, {"fresh"}, {"running"})
Finish(k) == Move(k, {"running"}, {"sent", "reported", "lost"})
Forget(k) == Move(k, {"sent", "reported", "lost"}, {"fresh"})

AMONext == \E k \in Key : Begin(k) \/ Finish(k) \/ Forget(k)

AMOSpec == AMOInit /\ [][AMONext]_status
=============================================================================
