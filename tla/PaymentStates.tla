--------------------------- MODULE PaymentStates ---------------------------
(***************************************************************************)
(* The payment life cycle: the statuses of app/domain/enums.py and the     *)
(* transition graph of app/domain/state_machine.py.                        *)
(***************************************************************************)

PaymentStatus == {"requires_confirmation", "authorized", "captured",
                  "partially_refunded", "refunded", "canceled", "failed"}

(***************************************************************************)
(* _ALLOWED as a relation: the pairs <<current, target>> it permits.       *)
(***************************************************************************)
Allowed ==
    ({"requires_confirmation"} \X {"authorized", "captured", "canceled", "failed"})
    \cup ({"authorized"} \X {"captured", "canceled", "failed"})
    \cup ({"captured", "partially_refunded"} \X {"partially_refunded", "refunded"})

CanTransition(current, target) == <<current, target>> \in Allowed

(* _REFUNDABLE_STATES of the refund service. *)
RefundableStates == {"captured", "partially_refunded"}
=============================================================================
