--------------------------------- MODULE ATM ---------------------------------
(***************************************************************************)
(* The actor system of concurrent/appendixc/main.cpp: the driver (main), a *)
(* cash machine (atm), a bank (bank_machine) and the terminal              *)
(* (interface_machine), each a thread that owns one message queue.  A      *)
(* queue is the FIFO that MessageQueue.tla shows messaging::queue to be.   *)
(*                                                                         *)
(* What a handler does to the thread's own data cannot be seen by the      *)
(* other threads, so receiving a message and updating that data is one     *)
(* step; every send is a step of its own.  outbox[t] holds the sends that  *)
(* thread t still has to make, in program order, before it goes on.        *)
(***************************************************************************)
EXTENDS Integers, Sequences, FiniteSets

CONSTANTS
    PinLength,       \* digits in a PIN (4 in getting_pin)
    InitialBalance,  \* money on the account at start (199 in bank_machine)
    Amount,          \* money a withdrawal asks for (50 in main)
    MaxTypeAhead     \* bound: the user types only while fewer inputs wait

ASSUME ATMAssumption ==
    /\ PinLength \in Nat \ {0}
    /\ InitialBalance \in Nat
    /\ Amount \in Nat \ {0}
    /\ MaxTypeAhead \in Nat \ {0}

VARIABLES
    queue,        \* the incoming queue of each machine
    outbox,       \* what each thread still has to send
    running,      \* machines whose run() has not returned
    state,        \* atm::state
    pin,          \* atm::pin, a digit being TRUE when it is the expected one
    balance,      \* bank_machine::balance
    debit,        \* approved by the bank, not yet subtracted from balance
    screen,       \* what the interface displayed last
    issued,       \* money the interface has handed out
    quit_pressed, \* of main
    returned      \* main has joined the three threads and returned

vars == <<queue, outbox, running, state, pin, balance, debit, screen, issued,
          quit_pressed, returned>>

driverVars == <<quit_pressed, returned>>
atmVars == <<state, pin>>
bankVars == <<balance, debit>>
interfaceVars == <<screen, issued>>

------------------------------------------------------------------------------
(* Messages *)

Machines == {"atm", "bank", "interface"}
Threads == Machines \cup {"main"}

Signal(type) == [type |-> type]
digit_pressed(d) == [type |-> "digit_pressed", digit |-> d]
verify_pin(p) == [type |-> "verify_pin", pin |-> p]
balance_msg(n) == [type |-> "balance", amount |-> n]
display_balance(n) == [type |-> "display_balance", amount |-> n]

\* 'w' sends withdraw_pressed(50): the amount of a withdrawal is always Amount.
KeySignals == {"balance_pressed", "withdraw_pressed", "card_inserted"}
InputTypes == KeySignals \cup {"digit_pressed", "cancel_pressed"}
RequestTypes == {"verify_pin", "withdraw", "get_balance"}
ReplyTypes == {"pin_verified", "pin_incorrect", "withdraw_ok", "withdraw_denied",
               "balance"}
NoticeTypes == {"withdrawal_processed", "cancel_withdrawal"}
DisplayTypes == {"issue_money", "display_insufficient_funds", "display_enter_pin",
                 "display_enter_card", "display_balance",
                 "display_withdrawal_options", "display_withdrawal_cancelled",
                 "display_pin_incorrect_message", "eject_card"}

Pins == UNION {[1..n -> BOOLEAN] : n \in 0..PinLength}
CorrectPin == [i \in 1..PinLength |-> TRUE]

Message ==
    (UNION {{Signal(type)} : type \in (InputTypes \cup RequestTypes \cup ReplyTypes
                \cup NoticeTypes \cup DisplayTypes \cup {"close_queue"})
                \ {"digit_pressed", "verify_pin", "balance", "display_balance"}})
    \cup {digit_pressed(d) : d \in BOOLEAN}
    \cup {verify_pin(p) : p \in Pins}
    \cup {balance_msg(n) : n \in 0..InitialBalance}
    \cup {display_balance(n) : n \in 0..InitialBalance}

Sends == [to : Machines, msg : Message]
To(machine, msg) == [to |-> machine, msg |-> msg]

------------------------------------------------------------------------------
(* Sending and receiving *)

\* Thread t goes on with its program only when it has made its sends.
Ready(t) == outbox[t] = <<>>

Send(t) ==
    /\ outbox[t] # <<>>
    /\ LET s == Head(outbox[t])
       IN queue' = [queue EXCEPT ![s.to] = Append(@, s.msg)]
    /\ outbox' = [outbox EXCEPT ![t] = Tail(@)]
    /\ UNCHANGED <<running, driverVars, atmVars, bankVars, interfaceVars>>

\* Machine t is waiting, and a message of the given type is first in its queue.
Arrived(t, type) ==
    /\ t \in running
    /\ Ready(t)
    /\ queue[t] # <<>>
    /\ Head(queue[t]).type = type

\* wait_and_pop hands that message to the handler.
Take(t, type) ==
    /\ Arrived(t, type)
    /\ queue' = [queue EXCEPT ![t] = Tail(@)]

\* dispatcher::dispatch throws close_queue, run() catches it and returns; the
\* machine is in a state that waits for messages.
Close(t) ==
    /\ t = "atm" => state # "done_processing"
    /\ t = "bank" => debit = 0
    /\ Take(t, "close_queue")
    /\ running' = running \ {t}
    /\ UNCHANGED <<outbox, driverVars, atmVars, bankVars, interfaceVars>>

------------------------------------------------------------------------------
(* main *)

\* Mutant of Closing: machine.done() is forgotten.
Closing_AtmForgotten ==
    <<To("bank", Signal("close_queue")), To("interface", Signal("close_queue"))>>

Closing == <<To("bank", Signal("close_queue")), To("atm", Signal("close_queue")),
             To("interface", Signal("close_queue"))>>

\* getchar() returns a key; the user never gets more than MaxTypeAhead ahead
\* of the cash machine and of its terminal.
KeyPressed ==
    /\ ~quit_pressed
    /\ Ready("main")
    /\ Len(queue["atm"]) < MaxTypeAhead
    /\ Len(queue["interface"]) < MaxTypeAhead

MainPosts(sends) ==
    /\ outbox' = [outbox EXCEPT !["main"] = sends]
    /\ UNCHANGED <<queue, running, returned, atmVars, bankVars, interfaceVars>>

Key(msg) ==
    /\ KeyPressed
    /\ MainPosts(<<To("atm", msg)>>)
    /\ UNCHANGED quit_pressed

PressDigit == \E d \in BOOLEAN : Key(digit_pressed(d))
PressKey == \E type \in KeySignals : Key(Signal(type))

\* Mutant of PressCancel: case 'c' has the break it lacks.
PressCancel_Break == Key(Signal("cancel_pressed"))

\* case 'c' has no break: it sends cancel_pressed and goes on with case 'q'.
PressCancel ==
    /\ KeyPressed
    /\ MainPosts(<<To("atm", Signal("cancel_pressed"))>> \o Closing)
    /\ quit_pressed' = TRUE

PressQuit ==
    /\ KeyPressed
    /\ MainPosts(Closing)
    /\ quit_pressed' = TRUE

Join ==
    /\ quit_pressed
    /\ Ready("main")
    /\ running = {}
    /\ ~returned
    /\ returned' = TRUE
    /\ UNCHANGED <<queue, outbox, running, quit_pressed, atmVars, bankVars,
                   interfaceVars>>

------------------------------------------------------------------------------
(* atm *)

ToInterface(type) == To("interface", Signal(type))

\* What a state function sends before it waits.
Entry(s) ==
    CASE s = "wait_for_action"  -> <<ToInterface("display_withdrawal_options")>>
      [] s = "waiting_for_card" -> <<ToInterface("display_enter_card")>>
      [] OTHER                  -> <<>>

\* The messages a state function has a handler for.
Handled ==
    [waiting_for_card   |-> {"card_inserted"},
     getting_pin        |-> {"digit_pressed", "cancel_pressed"},
     verifying_pin      |-> {"pin_verified", "pin_incorrect", "cancel_pressed"},
     wait_for_action    |-> {"withdraw_pressed", "balance_pressed",
                             "cancel_pressed"},
     process_balance    |-> {"balance", "cancel_pressed"},
     process_withdrawal |-> {"withdraw_ok", "withdraw_denied", "cancel_pressed"},
     done_processing    |-> {}]

AtmStates == DOMAIN Handled

\* In state s a message of the given type makes the sends and leads to next.
OnMessage(s, type, sends, next) ==
    /\ state = s
    /\ Take("atm", type)
    /\ state' = next
    /\ outbox' = [outbox EXCEPT !["atm"] = sends \o Entry(next)]
    /\ UNCHANGED <<running, driverVars, bankVars, interfaceVars>>

CardInserted ==
    /\ OnMessage("waiting_for_card", "card_inserted",
                 <<ToInterface("display_enter_pin")>>, "getting_pin")
    /\ pin' = <<>>

DigitPressed ==
    /\ Arrived("atm", "digit_pressed")
    /\ pin' = Append(pin, Head(queue["atm"]).digit)
    /\ IF Len(pin') = PinLength
       THEN OnMessage("getting_pin", "digit_pressed",
                      <<To("bank", verify_pin(pin'))>>, "verifying_pin")
       ELSE OnMessage("getting_pin", "digit_pressed", <<>>, "getting_pin")

PinVerified ==
    /\ OnMessage("verifying_pin", "pin_verified", <<>>, "wait_for_action")
    /\ UNCHANGED pin

PinIncorrect ==
    /\ OnMessage("verifying_pin", "pin_incorrect",
                 <<ToInterface("display_pin_incorrect_message")>>,
                 "done_processing")
    /\ UNCHANGED pin

WithdrawPressed ==
    /\ OnMessage("wait_for_action", "withdraw_pressed",
                 <<To("bank", Signal("withdraw"))>>, "process_withdrawal")
    /\ UNCHANGED pin

BalancePressed ==
    /\ OnMessage("wait_for_action", "balance_pressed",
                 <<To("bank", Signal("get_balance"))>>, "process_balance")
    /\ UNCHANGED pin

BalanceArrived ==
    /\ OnMessage("process_balance", "balance",
                 <<To("interface", display_balance(Head(queue["atm"]).amount))>>,
                 "wait_for_action")
    /\ UNCHANGED pin

WithdrawOk ==
    /\ OnMessage("process_withdrawal", "withdraw_ok",
                 <<ToInterface("issue_money"),
                   To("bank", Signal("withdrawal_processed"))>>,
                 "done_processing")
    /\ UNCHANGED pin

WithdrawDenied ==
    /\ OnMessage("process_withdrawal", "withdraw_denied",
                 <<ToInterface("display_insufficient_funds")>>,
                 "done_processing")
    /\ UNCHANGED pin

CancelWithdrawal ==
    /\ OnMessage("process_withdrawal", "cancel_pressed",
                 <<To("bank", Signal("cancel_withdrawal")),
                   ToInterface("display_withdrawal_cancelled")>>,
                 "done_processing")
    /\ UNCHANGED pin

CancelPressed ==
    /\ \E s \in {"getting_pin", "verifying_pin", "wait_for_action",
                 "process_balance"} :
           OnMessage(s, "cancel_pressed", <<>>, "done_processing")
    /\ UNCHANGED pin

\* wait_and_dispatch pops a message no handler matches, and drops it.
AtmDiscards ==
    /\ state # "done_processing"
    /\ \E type \in (InputTypes \cup ReplyTypes) \ Handled[state] : Take("atm", type)
    /\ UNCHANGED <<outbox, running, driverVars, atmVars, bankVars, interfaceVars>>

\* Mutant of DoneProcessing: the card stays in.
DoneProcessing_KeepsCard ==
    /\ state = "done_processing"
    /\ Ready("atm")
    /\ state' = "waiting_for_card"
    /\ outbox' = [outbox EXCEPT !["atm"] = Entry("waiting_for_card")]
    /\ UNCHANGED <<queue, running, pin, driverVars, bankVars, interfaceVars>>

DoneProcessing ==
    /\ state = "done_processing"
    /\ Ready("atm")
    /\ state' = "waiting_for_card"
    /\ outbox' = [outbox EXCEPT !["atm"] = <<ToInterface("eject_card")>>
                                           \o Entry("waiting_for_card")]
    /\ UNCHANGED <<queue, running, pin, driverVars, bankVars, interfaceVars>>

------------------------------------------------------------------------------
(* bank_machine *)

BankReplies(msg) ==
    /\ outbox' = [outbox EXCEPT !["bank"] = <<To("atm", msg)>>]
    /\ UNCHANGED <<running, balance, driverVars, atmVars, interfaceVars>>

\* Mutant of VerifyPin: a wrong PIN gets no answer.
VerifyPin_SilentWhenWrong ==
    /\ debit = 0
    /\ Take("bank", "verify_pin")
    /\ IF Head(queue["bank"]).pin = CorrectPin
       THEN BankReplies(Signal("pin_verified"))
       ELSE UNCHANGED <<outbox, running, balance, driverVars, atmVars, interfaceVars>>
    /\ UNCHANGED debit

VerifyPin ==
    /\ debit = 0
    /\ Take("bank", "verify_pin")
    /\ BankReplies(Signal(IF Head(queue["bank"]).pin = CorrectPin
                          THEN "pin_verified" ELSE "pin_incorrect"))
    /\ UNCHANGED debit

\* Mutant of Withdraw: the balance is not compared with the amount.
Withdraw_Unchecked ==
    /\ debit = 0
    /\ Take("bank", "withdraw")
    /\ BankReplies(Signal("withdraw_ok"))
    /\ debit' = Amount

\* Mutant of Withdraw: the amount is subtracted after either answer.
Withdraw_DebitsRefusals ==
    /\ debit = 0
    /\ Take("bank", "withdraw")
    /\ BankReplies(Signal(IF balance >= Amount THEN "withdraw_ok"
                          ELSE "withdraw_denied"))
    /\ debit' = Amount

\* The bank sends withdraw_ok before it subtracts the amount (Debit below).
Withdraw ==
    /\ debit = 0
    /\ Take("bank", "withdraw")
    /\ IF balance >= Amount
       THEN /\ BankReplies(Signal("withdraw_ok"))
            /\ debit' = Amount
       ELSE /\ BankReplies(Signal("withdraw_denied"))
            /\ UNCHANGED debit

\* Mutant of Debit: the balance stays as it was.
Debit_Forgotten ==
    /\ debit > 0
    /\ Ready("bank")
    /\ debit' = 0
    /\ UNCHANGED <<queue, outbox, running, balance, driverVars, atmVars, interfaceVars>>

Debit ==
    /\ debit > 0
    /\ Ready("bank")
    /\ balance' = balance - debit
    /\ debit' = 0
    /\ UNCHANGED <<queue, outbox, running, driverVars, atmVars, interfaceVars>>

GetBalance ==
    /\ debit = 0
    /\ Take("bank", "get_balance")
    /\ BankReplies(balance_msg(balance))
    /\ UNCHANGED debit

\* The handlers of withdrawal_processed and of cancel_withdrawal are empty.
BankNotified ==
    /\ debit = 0
    /\ \E type \in NoticeTypes : Take("bank", type)
    /\ UNCHANGED <<outbox, running, driverVars, atmVars, bankVars, interfaceVars>>

------------------------------------------------------------------------------
(* interface_machine *)

Display ==
    /\ \E type \in DisplayTypes :
          /\ Take("interface", type)
          /\ issued' = IF type = "issue_money" THEN issued + Amount ELSE issued
    /\ screen' = Head(queue["interface"])
    /\ UNCHANGED <<outbox, running, driverVars, atmVars, bankVars>>

------------------------------------------------------------------------------
Init ==
    /\ queue = [m \in Machines |-> <<>>]
    /\ outbox = [t \in Threads |->
                   IF t = "atm" THEN Entry("waiting_for_card") ELSE <<>>]
    /\ running = Machines
    /\ state = "waiting_for_card"
    /\ pin = <<>>
    /\ balance = InitialBalance
    /\ debit = 0
    /\ screen = Signal("blank")
    /\ issued = 0
    /\ quit_pressed = FALSE
    /\ returned = FALSE

Keyboard == PressDigit \/ PressKey \/ PressCancel \/ PressQuit

AtmHandler ==
    \/ CardInserted \/ DigitPressed \/ PinVerified \/ PinIncorrect
    \/ WithdrawPressed \/ BalancePressed \/ BalanceArrived
    \/ WithdrawOk \/ WithdrawDenied \/ CancelWithdrawal \/ CancelPressed
    \/ AtmDiscards \/ DoneProcessing

BankHandler == VerifyPin \/ Withdraw \/ Debit \/ GetBalance \/ BankNotified

\* The whole program has ended: the only state in which it may stop.
Terminated == returned /\ UNCHANGED vars

MainStep == Send("main") \/ Join
AtmStep == Send("atm") \/ Close("atm") \/ AtmHandler
BankStep == Send("bank") \/ Close("bank") \/ BankHandler
InterfaceStep == Close("interface") \/ Display

Next == Keyboard \/ MainStep \/ AtmStep \/ BankStep \/ InterfaceStep \/ Terminated

\* Each thread is scheduled whenever it can take a step; nothing makes the
\* user press a key.
Fairness ==
    /\ WF_vars(MainStep)
    /\ WF_vars(AtmStep)
    /\ WF_vars(BankStep)
    /\ WF_vars(InterfaceStep)

Spec == Init /\ [][Next]_vars /\ Fairness

------------------------------------------------------------------------------
(* Properties *)

\* Every variable holds a value of its type (for proofs: the queues hold
\* messages of the program only).
TypeOK ==
    /\ queue \in [Machines -> Seq(Message)]
    /\ outbox \in [Threads -> Seq(Sends)]
    /\ running \subseteq Machines
    /\ state \in AtmStates
    /\ pin \in Pins
    /\ balance \in 0..InitialBalance
    /\ debit \in {0, Amount}
    /\ screen \in Message \cup {Signal("blank")}
    /\ issued \in Nat
    /\ quit_pressed \in BOOLEAN
    /\ returned \in BOOLEAN

InSession == {"wait_for_action", "process_balance", "process_withdrawal"}
Awaiting == {"verifying_pin", "process_balance", "process_withdrawal"}

\* The cash machine offers, and carries out, an action only for the PIN typed
\* in this session: no answer of the bank about an earlier PIN is taken for an
\* answer about this one (verifying_pin takes any pin_verified it finds).
OnlyVerifiedSessions == state \in InSession => pin = CorrectPin

\* How many of the messages in a sequence have one of the types.
CountIn(seq, types) == Cardinality({i \in DOMAIN seq : seq[i].type \in types})
Unsent(t) == [i \in DOMAIN outbox[t] |-> outbox[t][i].msg]
InFlight(types) ==
    CountIn(queue["atm"], types) + CountIn(queue["bank"], types)
      + CountIn(queue["interface"], types)
      + CountIn(Unsent("atm"), types) + CountIn(Unsent("bank"), types)

\* Until the user quits, the cash machine waits for the bank exactly when one
\* request or its answer is under way: it never waits for nothing, and no
\* answer is left over for a later session to find.
OneRequestPerWait ==
    ~quit_pressed =>
        InFlight(RequestTypes \cup ReplyTypes) = IF state \in Awaiting THEN 1 ELSE 0

\* Money approved by the bank and still to be handed out.
CashUnderWay == Amount * InFlight({"withdraw_ok", "issue_money"})
Debited == InitialBalance - balance + debit

\* No money is handed out that the bank has not charged or is about to
\* charge, in any order of the bank's reply, its debit, cancels and shutdown.
NoFreeMoney == issued + CashUnderWay <= Debited

\* Until the user quits no charged money is lost: all of it has been handed
\* out or is on its way.  (After quit it may be lost: cancel_withdrawal refunds
\* nothing, and a queue closed first drops what is behind.)
NoMoneyLost == ~quit_pressed => issued + CashUnderWay = Debited

\* A balance on the screen is the account's at that moment: all the money
\* handed out so far has been subtracted, and no more.
BalanceShownIsCurrent ==
    [][screen'.type = "display_balance" /\ screen' # screen
         => screen'.amount = InitialBalance - issued]_vars

\* What the terminal shows follows the dialogue of Dialogue.tla, and the money
\* it hands out never exceeds the account.
Dialogue == INSTANCE Dialogue WITH shown <- screen.type
DialogueSpec == Dialogue!Spec

\* Once the user quits, all three threads return and main joins them, whatever
\* state they are in and whatever they wait for.
QuitTerminates == quit_pressed ~> returned

\* The cash machine never waits for the bank forever.
WaitsEnd == \A s \in Awaiting : state = s ~> (state # s \/ "atm" \notin running)
==============================================================================
