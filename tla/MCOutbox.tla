------------------------------ MODULE MCOutbox ------------------------------
(* The instances of Outbox that TLC checks.                                *)
EXTENDS Outbox

(* The mails about the two ends, to the recipient of both.                 *)
RejectedAndCompleted == {<<"REJECTED", "AGENT">>, <<"COMPLETED", "AGENT">>}

=============================================================================
