------------------------------- MODULE Dialogue -------------------------------
(***************************************************************************)
(* What a customer sees of the cash machine of concurrent/appendixc: the   *)
(* order in which the terminal shows things, and the money it hands out.   *)
(***************************************************************************)
EXTENDS Integers

CONSTANTS InitialBalance, Amount

VARIABLES shown, issued

\* What may be displayed next.
Follows ==
    [blank                         |-> {"display_enter_card"},
     display_enter_card            |-> {"display_enter_pin"},
     display_enter_pin             |-> {"display_withdrawal_options",
                                        "display_pin_incorrect_message",
                                        "eject_card"},
     display_pin_incorrect_message |-> {"eject_card"},
     display_withdrawal_options    |-> {"issue_money",
                                        "display_insufficient_funds",
                                        "display_withdrawal_cancelled",
                                        "display_balance", "eject_card"},
     display_balance               |-> {"display_withdrawal_options"},
     issue_money                   |-> {"eject_card"},
     display_insufficient_funds    |-> {"eject_card"},
     display_withdrawal_cancelled  |-> {"eject_card"},
     eject_card                    |-> {"display_enter_card"}]

Init == shown = "blank" /\ issued = 0

Show ==
    /\ shown' \in Follows[shown] \ {"issue_money", "display_insufficient_funds"}
    /\ UNCHANGED issued

\* Money is handed out only in answer to a choice, and within the account.
IssueMoney ==
    /\ "issue_money" \in Follows[shown]
    /\ issued + Amount <= InitialBalance
    /\ shown' = "issue_money"
    /\ issued' = issued + Amount

\* A customer is turned away only when the account really holds too little.
Refuse ==
    /\ "display_insufficient_funds" \in Follows[shown]
    /\ issued + Amount > InitialBalance
    /\ shown' = "display_insufficient_funds"
    /\ UNCHANGED issued

Next == Show \/ IssueMoney \/ Refuse

Spec == Init /\ [][Next]_<<shown, issued>>
==============================================================================
