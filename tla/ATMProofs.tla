------------------------------ MODULE ATMProofs ------------------------------
(***************************************************************************)
(* Why the cash machine waits for one answer at a time, serves verified    *)
(* cards only, neither gives money away nor loses any, keeps its dialogue  *)
(* with the user and shows a balance that is true, for every PIN length,   *)
(* balance and amount, however far the user types ahead and in every order *)
(* in which the threads run.                                               *)
(***************************************************************************)
EXTENDS ATM, SequenceTheorems, FiniteSetTheorems, TLAPS

\* The bank subtracts only what is there, and the cash machine collects digits
\* only while the PIN is short.
IInv ==
    /\ TypeOK
    /\ balance >= debit
    /\ state = "getting_pin" => Len(pin) < PinLength

------------------------------------------------------------------------------
(* The messages the program sends are messages *)

LEMMA SignalsAreMessages ==
  \A type \in InputTypes \cup RequestTypes \cup ReplyTypes \cup NoticeTypes
                \cup DisplayTypes \cup {"close_queue"} :
      type \notin {"digit_pressed", "verify_pin", "balance", "display_balance"}
         => Signal(type) \in Message
  BY DEF Message

\* What the fields of a message received are.
LEMMA MessageFields ==
  ASSUME NEW msg \in Message
  PROVE  /\ msg.type = "digit_pressed" => msg.digit \in BOOLEAN
         /\ msg.type = "balance" => msg.amount \in 0..InitialBalance
  BY DEF Message, Signal, digit_pressed, verify_pin, balance_msg, display_balance

LEMMA SignalSends ==
  /\ \A type \in DisplayTypes \ {"display_balance"} : ToInterface(type) \in Sends
  /\ \A type \in {"close_queue", "card_inserted", "balance_pressed",
                  "withdraw_pressed", "cancel_pressed", "withdraw", "get_balance",
                  "withdrawal_processed", "cancel_withdrawal", "pin_verified",
                  "pin_incorrect", "withdraw_ok", "withdraw_denied"} :
        \A to \in Machines : To(to, Signal(type)) \in Sends
  BY SignalsAreMessages DEF ToInterface, To, Sends, Machines, InputTypes, KeySignals,
     RequestTypes, ReplyTypes, NoticeTypes, DisplayTypes

LEMMA EntrySends == \A s \in AtmStates : Entry(s) \in Seq(Sends)
  BY SignalSends DEF Entry, DisplayTypes

\* To take a message leaves queues of messages, and what is taken is one.
LEMMA Taken ==
  ASSUME TypeOK, NEW t \in Machines, NEW type, Take(t, type)
  PROVE  /\ queue' \in [Machines -> Seq(Message)]
         /\ Head(queue[t]) \in Message /\ Head(queue[t]).type = type
         /\ outbox[t] = <<>>
  BY DEF Take, Arrived, Ready, TypeOK

------------------------------------------------------------------------------
(* Each step keeps the types *)

LEMMA StatesOfAtm ==
  AtmStates = {"waiting_for_card", "getting_pin", "verifying_pin",
               "wait_for_action", "process_balance", "process_withdrawal",
               "done_processing"}
  BY DEF AtmStates, Handled

LEMMA InitIInv == Init => IInv
  <1> SUFFICES ASSUME Init PROVE IInv
    OBVIOUS
  <1> USE ATMAssumption
  <1>1. outbox \in [Threads -> Seq(Sends)]
    BY EntrySends, StatesOfAtm DEF Init
  <1>2. pin \in Pins /\ state \in AtmStates
    <2>1. <<>> \in [1..0 -> BOOLEAN]
      OBVIOUS
    <2>2. 0 \in 0..PinLength
      OBVIOUS
    <2> QED
      BY <2>1, <2>2, StatesOfAtm DEF Init, Pins
  <1>3. queue \in [Machines -> Seq(Message)]
    BY DEF Init
  <1>4. /\ balance \in 0..InitialBalance /\ debit \in {0, Amount} /\ balance >= debit
        /\ issued \in Nat
    BY DEF Init
  <1>5. screen \in Message \cup {Signal("blank")}
    BY DEF Init
  <1>6. running \subseteq Machines /\ quit_pressed \in BOOLEAN /\ returned \in BOOLEAN
        /\ state # "getting_pin"
    BY DEF Init
  <1> QED
    BY <1>1, <1>2, <1>3, <1>4, <1>5, <1>6 DEF IInv, TypeOK

\* A handler of the cash machine, but for what it does to the PIN.
LEMMA OnMessageTypes ==
  ASSUME IInv, NEW s, NEW type, NEW sends \in Seq(Sends), NEW next \in AtmStates,
         OnMessage(s, type, sends, next)
  PROVE  /\ queue' \in [Machines -> Seq(Message)]
         /\ outbox' \in [Threads -> Seq(Sends)]
         /\ state' \in AtmStates
         /\ UNCHANGED <<running, driverVars, bankVars, interfaceVars>>
  <1>1. queue' \in [Machines -> Seq(Message)]
    BY Taken DEF OnMessage, Machines, IInv
  <1>2. sends \o Entry(next) \in Seq(Sends)
    BY EntrySends
  <1> QED
    BY <1>1, <1>2 DEF OnMessage, IInv, TypeOK

\* ... and when it leaves the PIN alone.
LEMMA HandlerIInv ==
  ASSUME IInv, NEW s, NEW type, NEW sends \in Seq(Sends),
         NEW next \in AtmStates \ {"getting_pin"},
         OnMessage(s, type, sends, next), UNCHANGED pin
  PROVE  IInv'
  <1>1. state' \in AtmStates /\ state' # "getting_pin"
    BY OnMessageTypes DEF OnMessage
  <1>2. /\ queue' \in [Machines -> Seq(Message)]
        /\ outbox' \in [Threads -> Seq(Sends)]
        /\ UNCHANGED <<running, driverVars, bankVars, interfaceVars>>
    BY OnMessageTypes
  <1> QED
    BY <1>1, <1>2 DEF IInv, TypeOK, driverVars, bankVars, interfaceVars

LEMMA CardInsertedIInv == ASSUME IInv, CardInserted PROVE IInv'
  <1>1. <<ToInterface("display_enter_pin")>> \in Seq(Sends)
    BY SignalSends DEF DisplayTypes
  <1>2. "getting_pin" \in AtmStates
    BY StatesOfAtm
  <1>3. /\ queue' \in [Machines -> Seq(Message)]
        /\ outbox' \in [Threads -> Seq(Sends)]
        /\ state' \in AtmStates
        /\ UNCHANGED <<running, driverVars, bankVars, interfaceVars>>
    BY <1>1, <1>2, OnMessageTypes DEF CardInserted
  <1>4. pin' \in Pins /\ Len(pin') < PinLength
    <2>1. <<>> \in [1..0 -> BOOLEAN]
      OBVIOUS
    <2>2. 0 \in 0..PinLength
      BY ATMAssumption
    <2> QED
      BY <2>1, <2>2, ATMAssumption DEF CardInserted, Pins
  <1> QED
    BY <1>3, <1>4 DEF IInv, TypeOK, driverVars, bankVars, interfaceVars

LEMMA DigitPressedIInv == ASSUME IInv, DigitPressed PROVE IInv'
  <1>1. PICK d : d = Head(queue["atm"]).digit
    OBVIOUS
  <1>2. /\ state = "getting_pin" /\ Take("atm", "digit_pressed")
        /\ pin' = Append(pin, d)
    BY <1>1 DEF DigitPressed, OnMessage
  <1>3. d \in BOOLEAN
    BY <1>1, <1>2, Taken, MessageFields DEF IInv, Machines
  <1>4. pin' \in Pins /\ Len(pin') <= PinLength
    <2>1. PICK n \in 0..PinLength : pin \in [1..n -> BOOLEAN]
      BY DEF IInv, TypeOK, Pins
    <2>2. pin \in Seq(BOOLEAN) /\ Len(pin) = n /\ n < PinLength
      BY <1>2, <2>1, ATMAssumption DEF IInv
    <2>3. Append(pin, d) \in Seq(BOOLEAN) /\ Len(Append(pin, d)) = n + 1
      BY <1>3, <2>2, AppendProperties
    <2>4. PICK longer \in Seq(BOOLEAN) : longer = Append(pin, d)
      BY <2>3
    <2>5. longer \in [1..Len(longer) -> BOOLEAN]
      BY LenProperties
    <2>6. longer \in [1..n+1 -> BOOLEAN] /\ Len(longer) = n + 1
      BY <2>3, <2>4, <2>5
    <2>7. n + 1 \in 0..PinLength
      BY <2>2, ATMAssumption
    <2> QED
      BY <1>2, <2>4, <2>6, <2>7, ATMAssumption DEF Pins
  <1>5. /\ queue' \in [Machines -> Seq(Message)]
        /\ outbox' \in [Threads -> Seq(Sends)]
        /\ state' \in AtmStates
        /\ state' = "getting_pin" => Len(pin') # PinLength
        /\ UNCHANGED <<running, driverVars, bankVars, interfaceVars>>
    <2>1. CASE Len(pin') = PinLength
      <3>1. OnMessage("getting_pin", "digit_pressed",
                      <<To("bank", verify_pin(pin'))>>, "verifying_pin")
        BY <2>1 DEF DigitPressed
      <3>2. <<To("bank", verify_pin(pin'))>> \in Seq(Sends)
        BY <1>4 DEF To, Sends, Machines, Message
      <3>3. "verifying_pin" \in AtmStates
        BY StatesOfAtm
      <3> QED
        BY <3>1, <3>2, <3>3, OnMessageTypes DEF OnMessage
    <2>2. CASE Len(pin') # PinLength
      <3>1. OnMessage("getting_pin", "digit_pressed", <<>>, "getting_pin")
        BY <2>2 DEF DigitPressed
      <3>2. "getting_pin" \in AtmStates
        BY StatesOfAtm
      <3>3. <<>> \in Seq(Sends)
        OBVIOUS
      <3> QED
        BY <2>2, <3>1, <3>2, <3>3, OnMessageTypes
    <2> QED
      BY <2>1, <2>2
  <1>6. Len(pin') \in Nat
    BY <1>4, ATMAssumption DEF Pins
  <1> QED
    BY <1>4, <1>5, <1>6, ATMAssumption DEF IInv, TypeOK, driverVars, bankVars, interfaceVars

\* A message that is taken, when nothing else that has a bound changes.
LEMMA MessageGone ==
  ASSUME IInv, NEW t \in Machines, NEW type, Take(t, type),
         UNCHANGED <<outbox, running, quit_pressed, returned, state, pin, balance,
                     debit>>,
         screen' \in Message \cup {Signal("blank")}, issued' \in Nat
  PROVE  IInv'
  BY Taken DEF IInv, TypeOK

LEMMA SendIInv == ASSUME IInv, NEW t \in Threads, Send(t) PROVE IInv'
  <1>1. PICK s \in Sends : s = Head(outbox[t])
    BY DEF Send, IInv, TypeOK
  <1>2. queue' \in [Machines -> Seq(Message)]
    BY <1>1 DEF Send, Sends, IInv, TypeOK
  <1>3. outbox' \in [Threads -> Seq(Sends)]
    BY DEF Send, IInv, TypeOK
  <1> QED
    BY <1>2, <1>3 DEF Send, IInv, TypeOK, driverVars, atmVars, bankVars, interfaceVars

LEMMA KeyboardIInv == ASSUME IInv, Keyboard PROVE IInv'
  <1>1. ASSUME NEW sends \in Seq(Sends), MainPosts(sends), quit_pressed' \in BOOLEAN
        PROVE  IInv'
    BY <1>1 DEF MainPosts, IInv, TypeOK, Threads, atmVars, bankVars, interfaceVars
  <1>2. ASSUME NEW msg \in Message, Key(msg) PROVE IInv'
    <2>1. <<To("atm", msg)>> \in Seq(Sends)
      BY <1>2 DEF To, Sends, Machines
    <2>2. quit_pressed' \in BOOLEAN
      BY <1>2 DEF Key, IInv, TypeOK
    <2> QED
      BY <1>1, <1>2, <2>1, <2>2 DEF Key
  <1>3. Closing \in Seq(Sends)
    BY SignalSends DEF Closing, Machines
  <1>4. CASE PressDigit
    <2>1. PICK d \in BOOLEAN : Key(digit_pressed(d))
      BY <1>4 DEF PressDigit
    <2> QED
      BY <1>2, <2>1 DEF Message
  <1>5. CASE PressKey
    <2>1. PICK type \in KeySignals : Key(Signal(type))
      BY <1>5 DEF PressKey
    <2>2. Signal(type) \in Message
      BY SignalsAreMessages DEF KeySignals, InputTypes
    <2> QED
      BY <1>2, <2>1, <2>2
  <1>6. CASE PressCancel
    <2>1. <<To("atm", Signal("cancel_pressed"))>> \o Closing \in Seq(Sends)
      BY <1>3, SignalSends DEF Machines
    <2> QED
      BY <1>1, <1>6, <2>1 DEF PressCancel
  <1>7. CASE PressQuit
    BY <1>1, <1>3, <1>7 DEF PressQuit
  <1> QED
    BY <1>4, <1>5, <1>6, <1>7 DEF Keyboard

LEMMA JoinIInv == ASSUME IInv, Join PROVE IInv'
  BY DEF IInv, TypeOK, Join, atmVars, bankVars, interfaceVars

LEMMA CloseIInv == ASSUME IInv, NEW t \in Machines, Close(t) PROVE IInv'
  BY Taken DEF Close, IInv, TypeOK, driverVars, atmVars, bankVars, interfaceVars

LEMMA AtmHandlerIInv == ASSUME IInv, AtmHandler PROVE IInv'
  <1> USE SignalSends DEF Machines, DisplayTypes
  <1>0. {"verifying_pin", "wait_for_action", "process_balance", "process_withdrawal",
         "done_processing"} \subseteq AtmStates \ {"getting_pin"}
    BY StatesOfAtm
  <1>1. <<>> \in Seq(Sends)
    OBVIOUS
  <1>2. CASE PinVerified
    BY <1>0, <1>1, <1>2, HandlerIInv DEF PinVerified
  <1>3. CASE PinIncorrect
    <2>1. <<ToInterface("display_pin_incorrect_message")>> \in Seq(Sends)
      OBVIOUS
    <2> QED
      BY <1>0, <1>3, <2>1, HandlerIInv DEF PinIncorrect
  <1>4. CASE WithdrawPressed
    <2>1. <<To("bank", Signal("withdraw"))>> \in Seq(Sends)
      OBVIOUS
    <2> QED
      BY <1>0, <1>4, <2>1, HandlerIInv DEF WithdrawPressed
  <1>5. CASE BalancePressed
    <2>1. <<To("bank", Signal("get_balance"))>> \in Seq(Sends)
      OBVIOUS
    <2> QED
      BY <1>0, <1>5, <2>1, HandlerIInv DEF BalancePressed
  <1>6. CASE BalanceArrived
    <2>1. PICK n : n = Head(queue["atm"]).amount
      OBVIOUS
    <2>2. OnMessage("process_balance", "balance",
                    <<To("interface", display_balance(n))>>, "wait_for_action")
      BY <1>6, <2>1 DEF BalanceArrived
    <2>3. n \in 0..InitialBalance
      BY <2>1, <2>2, Taken, MessageFields DEF OnMessage, IInv
    <2>4. <<To("interface", display_balance(n))>> \in Seq(Sends)
      BY <2>3 DEF To, Sends, Message
    <2> QED
      BY <1>0, <1>6, <2>2, <2>4, HandlerIInv DEF BalanceArrived
  <1>7. CASE WithdrawOk
    <2>1. <<ToInterface("issue_money"), To("bank", Signal("withdrawal_processed"))>>
            \in Seq(Sends)
      OBVIOUS
    <2> QED
      BY <1>0, <1>7, <2>1, HandlerIInv DEF WithdrawOk
  <1>8. CASE WithdrawDenied
    <2>1. <<ToInterface("display_insufficient_funds")>> \in Seq(Sends)
      OBVIOUS
    <2> QED
      BY <1>0, <1>8, <2>1, HandlerIInv DEF WithdrawDenied
  <1>9. CASE CancelWithdrawal
    <2>1. <<To("bank", Signal("cancel_withdrawal")),
            ToInterface("display_withdrawal_cancelled")>> \in Seq(Sends)
      OBVIOUS
    <2> QED
      BY <1>0, <1>9, <2>1, HandlerIInv DEF CancelWithdrawal
  <1>10. CASE CancelPressed
    BY <1>0, <1>1, <1>10, HandlerIInv DEF CancelPressed
  <1>11. CASE AtmDiscards
    BY <1>11, MessageGone
       DEF AtmDiscards, driverVars, atmVars, bankVars, interfaceVars, IInv, TypeOK
  <1>12. CASE DoneProcessing
    <2>1. <<ToInterface("eject_card")>> \o Entry("waiting_for_card") \in Seq(Sends)
      BY EntrySends, StatesOfAtm
    <2>2. outbox' \in [Threads -> Seq(Sends)] /\ state' = "waiting_for_card"
      BY <1>12, <2>1 DEF DoneProcessing, IInv, TypeOK
    <2> QED
      BY <1>12, <2>2, StatesOfAtm
         DEF DoneProcessing, IInv, TypeOK, driverVars, bankVars, interfaceVars
  <1> QED
    BY <1>2, <1>3, <1>4, <1>5, <1>6, <1>7, <1>8, <1>9, <1>10, <1>11, <1>12,
       CardInsertedIInv, DigitPressedIInv DEF AtmHandler

\* The bank takes a request, answers it and perhaps has a debit to make.
LEMMA AnswerIInv ==
  ASSUME IInv, NEW type, Take("bank", type), NEW msg \in Message, BankReplies(msg),
         debit' \in {0, Amount}, balance >= debit'
  PROVE  IInv'
  <1>1. <<To("atm", msg)>> \in Seq(Sends)
    BY DEF To, Sends, Machines
  <1>2. outbox' \in [Threads -> Seq(Sends)]
    BY <1>1 DEF BankReplies, IInv, TypeOK
  <1> QED
    BY <1>2, Taken
       DEF BankReplies, IInv, TypeOK, Machines, driverVars, atmVars, interfaceVars

LEMMA BankHandlerIInv == ASSUME IInv, BankHandler PROVE IInv'
  <1> USE ATMAssumption
  <1>0. {Signal("pin_verified"), Signal("pin_incorrect"), Signal("withdraw_ok"),
         Signal("withdraw_denied")} \subseteq Message
    BY SignalsAreMessages DEF ReplyTypes
  <1>1. CASE VerifyPin
    <2>1. PICK msg \in Message : BankReplies(msg)
      BY <1>0, <1>1 DEF VerifyPin
    <2> QED
      BY <1>1, <2>1, AnswerIInv DEF VerifyPin, IInv, TypeOK
  <1>2. CASE Withdraw
    <2>1. CASE balance >= Amount
      BY <1>0, <1>2, <2>1, AnswerIInv DEF Withdraw
    <2>2. CASE ~(balance >= Amount)
      BY <1>0, <1>2, <2>2, AnswerIInv DEF Withdraw, IInv, TypeOK
    <2> QED
      BY <2>1, <2>2
  <1>3. CASE Debit
    <2>1. balance' \in 0..InitialBalance /\ debit' = 0
      BY <1>3 DEF Debit, IInv, TypeOK
    <2> QED
      BY <1>3, <2>1 DEF Debit, IInv, TypeOK, driverVars, atmVars, interfaceVars
  <1>4. CASE GetBalance
    <2>1. balance_msg(balance) \in Message
      BY DEF Message, IInv, TypeOK
    <2> QED
      BY <1>4, <2>1, AnswerIInv DEF GetBalance, IInv, TypeOK
  <1>5. CASE BankNotified
    BY <1>5, MessageGone
       DEF BankNotified, Machines, driverVars, atmVars, bankVars, interfaceVars, IInv,
           TypeOK
  <1> QED
    BY <1>1, <1>2, <1>3, <1>4, <1>5 DEF BankHandler

LEMMA DisplayIInv == ASSUME IInv, Display PROVE IInv'
  <1>1. PICK type \in DisplayTypes :
           /\ Take("interface", type)
           /\ issued' = IF type = "issue_money" THEN issued + Amount ELSE issued
    BY DEF Display
  <1>2. screen' \in Message
    BY <1>1, Taken DEF Display, Machines, IInv
  <1>3. issued' \in Nat
    BY <1>1, ATMAssumption DEF IInv, TypeOK
  <1> QED
    BY <1>1, <1>2, <1>3, MessageGone DEF Display, Machines, driverVars, atmVars, bankVars

------------------------------------------------------------------------------
\* IInv is inductive.
THEOREM Invariance == Spec => []IInv
  <1>1. ASSUME IInv, [Next]_vars PROVE IInv'
    <2>0. {"atm", "bank", "interface"} \subseteq Machines /\ Machines \subseteq Threads
          /\ "main" \in Threads
      BY DEF Machines, Threads
    <2>1. CASE Keyboard
      BY <1>1, <2>1, KeyboardIInv
    <2>2. CASE MainStep
      BY <1>1, <2>0, <2>2, SendIInv, JoinIInv DEF MainStep
    <2>3. CASE AtmStep
      BY <1>1, <2>0, <2>3, SendIInv, CloseIInv, AtmHandlerIInv DEF AtmStep
    <2>4. CASE BankStep
      BY <1>1, <2>0, <2>4, SendIInv, CloseIInv, BankHandlerIInv DEF BankStep
    <2>5. CASE InterfaceStep
      BY <1>1, <2>0, <2>5, CloseIInv, DisplayIInv DEF InterfaceStep
    <2>6. CASE UNCHANGED vars
      BY <1>1, <2>6 DEF vars, IInv, TypeOK
    <2> QED
      BY <1>1, <2>1, <2>2, <2>3, <2>4, <2>5, <2>6 DEF Next, Terminated
  <1> QED
    BY InitIInv, <1>1, PTL DEF Spec

\* The program keeps its types whatever is typed: the balance never goes below
\* zero, where an unsigned one would wrap around, and the queues hold the
\* messages of the program only.
THEOREM TypeCorrect == Spec => []TypeOK
  <1>1. IInv => TypeOK
    BY DEF IInv
  <1> QED
    BY Invariance, <1>1, PTL

------------------------------------------------------------------------------
(* What is on its way *)

Types(seq) == {seq[i].type : i \in DOMAIN seq}

\* main sends one input, then close_queue to all.
MainSends(sends) ==
    \A i \in DOMAIN sends :
        /\ sends[i].msg.type \in InputTypes \cup {"close_queue"}
        /\ sends[i].msg.type \in InputTypes => i = 1 /\ sends[i].to = "atm"
        /\ sends[i].msg.type \in {"close_queue", "cancel_pressed"} => quit_pressed

\* What the cash machine has still to send in state s.
AtmSends(s, sends) ==
    \/ s = "waiting_for_card" /\ sends \in
           {<<ToInterface("display_enter_card")>>,
            <<ToInterface("eject_card"), ToInterface("display_enter_card")>>}
    \/ s = "getting_pin" /\ sends = <<ToInterface("display_enter_pin")>>
    \/ s = "verifying_pin" /\ sends = <<To("bank", verify_pin(pin))>>
    \/ s = "wait_for_action" /\ sends = <<ToInterface("display_withdrawal_options")>>
    \/ s = "wait_for_action" /\ \E n \in 0..InitialBalance :
          sends = <<To("interface", display_balance(n)),
                    ToInterface("display_withdrawal_options")>>
    \/ s = "process_balance" /\ sends = <<To("bank", Signal("get_balance"))>>
    \/ s = "process_withdrawal" /\ sends = <<To("bank", Signal("withdraw"))>>
    \/ s = "done_processing" /\ sends \in
           {<<ToInterface("display_pin_incorrect_message")>>,
            <<ToInterface("issue_money"), To("bank", Signal("withdrawal_processed"))>>,
            <<To("bank", Signal("withdrawal_processed"))>>,
            <<ToInterface("display_insufficient_funds")>>,
            <<To("bank", Signal("cancel_withdrawal")),
              ToInterface("display_withdrawal_cancelled")>>,
            <<ToInterface("display_withdrawal_cancelled")>>}

\* Each thread sends only what the others expect of it.
Outboxes ==
    /\ MainSends(outbox["main"])
    /\ outbox["atm"] # <<>> => AtmSends(state, outbox["atm"])
    /\ outbox["bank"] # <<>> =>
         \E msg \in Message : msg.type \in ReplyTypes /\ outbox["bank"] = <<To("atm", msg)>>
    /\ outbox["interface"] = <<>>

Queues ==
    /\ Types(queue["atm"]) \subseteq InputTypes \cup ReplyTypes \cup {"close_queue"}
    /\ Types(queue["bank"]) \subseteq RequestTypes \cup NoticeTypes \cup {"close_queue"}
    /\ Types(queue["interface"]) \subseteq DisplayTypes \cup {"close_queue"}
    /\ \A m \in Machines :
          Types(queue[m]) \cap {"close_queue", "cancel_pressed"} # {} => quit_pressed

\* 'c' is the last key: no input is behind cancel_pressed.
CancelLast ==
    \A i \in DOMAIN queue["atm"] : queue["atm"][i].type = "cancel_pressed" =>
        /\ Types(Unsent("main")) \cap InputTypes = {}
        /\ \A j \in DOMAIN queue["atm"] : j > i => queue["atm"][j].type \notin InputTypes

Flow == IInv /\ Outboxes /\ Queues /\ CancelLast

\* The last session has ended: no key will ever start another.
Over ==
    /\ quit_pressed
    /\ state \in {"done_processing", "waiting_for_card"}
    /\ (Types(queue["atm"]) \cup Types(Unsent("main"))) \cap InputTypes = {}

------------------------------------------------------------------------------
(* Requests, answers and money *)

\* The state that waits for each answer, and the messages it waits for.
Exchange ==
    [verifying_pin      |-> {"verify_pin", "pin_verified", "pin_incorrect"},
     process_balance    |-> {"get_balance", "balance"},
     process_withdrawal |-> {"withdraw", "withdraw_ok", "withdraw_denied"}]

\* As OneRequestPerWait, for each kind of request and until the last session is over.
OneOfEach ==
    ~Over => \A s \in Awaiting :
        InFlight(Exchange[s]) = IF state = s THEN 1 ELSE 0

\* What is asked and answered about a PIN is about the one of this session.
PinAsked ==
    ~Over =>
        /\ \A i \in DOMAIN queue["bank"] :
              queue["bank"][i].type = "verify_pin" => queue["bank"][i].pin = pin
        /\ \/ state \in InSession
           \/ "pin_verified" \in Types(queue["atm"]) \cup Types(Unsent("bank"))
           => pin = CorrectPin

SessionInv == Flow /\ OneOfEach /\ PinAsked

\* What has been charged and is neither handed out nor on its way.
CashTypes == {"withdraw_ok", "issue_money"}
Lost == Debited - (issued + CashUnderWay)

MoneyInv == SessionInv /\ Lost >= 0 /\ (~Over => Lost = 0)

------------------------------------------------------------------------------
(* Sequences of messages *)

\* The types of the messages in a queue that grows, or loses its first.
LEMMA TypesOfQueue ==
  /\ Types(<<>>) = {}
  /\ \A seq \in Seq(Message), msg \in Message :
        Types(Append(seq, msg)) = Types(seq) \cup {msg.type}
  /\ \A seq \in Seq(Message) : seq # <<>> =>
        /\ Head(seq).type \in Types(seq)
        /\ Types(Tail(seq)) \subseteq Types(seq)
  <1>1. Types(<<>>) = {}
    BY DEF Types
  <1>2. ASSUME NEW seq \in Seq(Message), NEW msg \in Message
        PROVE  Types(Append(seq, msg)) = Types(seq) \cup {msg.type}
    <2>1. DOMAIN Append(seq, msg) = (DOMAIN seq) \cup {Len(seq) + 1}
          /\ \A i \in DOMAIN seq : Append(seq, msg)[i] = seq[i]
          /\ Append(seq, msg)[Len(seq) + 1] = msg
      OBVIOUS
    <2> QED
      BY <2>1 DEF Types
  <1>3. ASSUME NEW seq \in Seq(Message), seq # <<>>
        PROVE  Head(seq).type \in Types(seq) /\ Types(Tail(seq)) \subseteq Types(seq)
    <2>1. 1 \in DOMAIN seq /\ Head(seq) = seq[1]
          /\ \A i \in DOMAIN Tail(seq) : i + 1 \in DOMAIN seq /\ Tail(seq)[i] = seq[i + 1]
      BY <1>3
    <2> QED
      BY <2>1 DEF Types
  <1> QED
    BY <1>1, <1>2, <1>3

\* The elements of a tail are elements of the sequence, one place further.
LEMMA TailElements ==
  ASSUME NEW seq \in Seq(Message), seq # <<>>
  PROVE  \A i \in DOMAIN Tail(seq) :
            i + 1 \in DOMAIN seq /\ i \in Nat \ {0} /\ Tail(seq)[i] = seq[i + 1]
  OBVIOUS

\* The types of what a thread has still to send.
LEMMA TypesUnsent ==
  ASSUME NEW t
  PROVE  Types(Unsent(t)) = {outbox[t][i].msg.type : i \in DOMAIN outbox[t]}
  BY DEF Types, Unsent

\* Sequences of one to four elements.
LEMMA ConcatOne ==
  ASSUME NEW S, NEW a \in S, NEW b \in S
  PROVE  <<a>> \o <<b>> = <<a, b>> /\ Append(<<a>>, b) = <<a, b>>
  <1>1. /\ <<a>> \in Seq(S) /\ <<b>> \in Seq(S) /\ <<a, b>> \in Seq(S)
        /\ Len(<<a>>) = 1 /\ Len(<<b>>) = 1 /\ Len(<<a, b>>) = 2
    OBVIOUS
  <1>2. (<<a>> \o <<b>>) \in Seq(S) /\ Len(<<a>> \o <<b>>) = 2
    BY <1>1, ConcatProperties
  <1>3. Append(<<a>>, b) \in Seq(S) /\ Len(Append(<<a>>, b)) = 2
    BY <1>1, AppendProperties
  <1>4. \A i \in 1..2 : (<<a>> \o <<b>>)[i] = <<a, b>>[i]
    BY <1>1
  <1>5. \A i \in 1..2 : Append(<<a>>, b)[i] = <<a, b>>[i]
    BY <1>1
  <1> QED
    BY <1>1, <1>2, <1>3, <1>4, <1>5, SeqEqual

\* Main sends one message and then three.
LEMMA ConcatThree ==
  ASSUME NEW S, NEW a \in S, NEW b \in S, NEW c \in S, NEW d \in S
  PROVE  <<a>> \o <<b, c, d>> = <<a, b, c, d>>
  <1>1. /\ <<a>> \in Seq(S) /\ <<b, c, d>> \in Seq(S) /\ <<a, b, c, d>> \in Seq(S)
        /\ Len(<<a>>) = 1 /\ Len(<<b, c, d>>) = 3 /\ Len(<<a, b, c, d>>) = 4
    OBVIOUS
  <1>2. (<<a>> \o <<b, c, d>>) \in Seq(S) /\ Len(<<a>> \o <<b, c, d>>) = 4
    BY <1>1, ConcatProperties
  <1>3. \A i \in 1..4 : (<<a>> \o <<b, c, d>>)[i] = <<a, b, c, d>>[i]
    BY <1>1
  <1> QED
    BY <1>1, <1>2, <1>3, SeqEqual

\* The threads by name.
LEMMA ThreadNames ==
  /\ {"atm", "bank", "interface"} = Machines
  /\ Threads = Machines \cup {"main"}
  BY DEF Machines, Threads

------------------------------------------------------------------------------
(* The flow of messages *)

\* At the start the cash machine has one thing to display.
LEMMA InitFlow == Init => Flow
  <1> SUFFICES ASSUME Init PROVE Flow
    OBVIOUS
  <1>1. IInv
    BY InitIInv
  <1>2. /\ outbox["atm"] = <<ToInterface("display_enter_card")>>
        /\ outbox["main"] = <<>> /\ outbox["bank"] = <<>> /\ outbox["interface"] = <<>>
        /\ \A m \in Machines : queue[m] = <<>>
    BY ThreadNames DEF Init, Entry
  <1>3. Outboxes
    <2>1. MainSends(outbox["main"])
      BY <1>2 DEF MainSends
    <2>2. AtmSends(state, outbox["atm"])
      BY <1>2 DEF AtmSends, Init
    <2> QED
      BY <1>2, <2>1, <2>2 DEF Outboxes
  <1>4. Queues /\ CancelLast
    BY <1>2, TypesOfQueue, ThreadNames DEF Queues, CancelLast
  <1> QED
    BY <1>1, <1>3, <1>4 DEF Flow

\* A message that is taken leaves the others in their places.
LEMMA TakeFlow ==
  ASSUME Flow, NEW t \in Machines, NEW type, Take(t, type),
         outbox'["main"] = outbox["main"], UNCHANGED quit_pressed
  PROVE  Queues' /\ CancelLast'
  <1>1. /\ queue \in [Machines -> Seq(Message)] /\ queue[t] # <<>>
        /\ queue' = [queue EXCEPT ![t] = Tail(@)]
    BY DEF Take, Arrived, Flow, IInv, TypeOK
  <1>2. \A m \in Machines : Types(queue'[m]) \subseteq Types(queue[m])
    BY <1>1, TypesOfQueue
  <1>3. Queues'
    BY <1>2, ThreadNames DEF Queues, Flow
  <1>4. Types(Unsent("main"))' = Types(Unsent("main"))
    BY DEF Types, Unsent
  <1> SUFFICES CancelLast'
    BY <1>3
  <1>5. CASE t # "atm"
    BY <1>1, <1>4, <1>5, ThreadNames DEF CancelLast, Flow
  <1>6. CASE t = "atm"
    <2>1. \A i \in DOMAIN queue'["atm"] :
             i + 1 \in DOMAIN queue["atm"] /\ queue'["atm"][i] = queue["atm"][i + 1]
      BY <1>1, <1>6, ThreadNames
    <2> QED
      BY <1>1, <1>4, <2>1 DEF CancelLast, Flow
  <1> QED
    BY <1>5, <1>6

\* Nor does a step that leaves the queues alone.
LEMMA SameQueuesFlow ==
  ASSUME Flow, UNCHANGED <<queue, quit_pressed>>, outbox'["main"] = outbox["main"]
  PROVE  Queues' /\ CancelLast'
  <1>1. Types(Unsent("main"))' = Types(Unsent("main"))
    BY DEF Types, Unsent
  <1>2. Queues'
    BY DEF Queues, Flow, Types
  <1>3. CancelLast'
    BY <1>1 DEF CancelLast, Flow
  <1> QED
    BY <1>2, <1>3

\* A step that touches no message keeps the flow.
LEMMA SameFlow ==
  ASSUME Flow, IInv', UNCHANGED <<queue, outbox, state, pin, quit_pressed>>
  PROVE  Flow'
  <1>1. Outboxes'
    BY DEF Flow, Outboxes, MainSends, AtmSends
  <1>2. Queues' /\ CancelLast'
    BY SameQueuesFlow
  <1> QED
    BY <1>1, <1>2 DEF Flow

\* A key adds one input, and close_queue to all after the last one.
LEMMA KeyboardFlow == ASSUME Flow, Keyboard PROVE Flow'
  <1>0. IInv' /\ ~quit_pressed
    BY KeyboardIInv DEF Flow, Keyboard, PressDigit, PressKey, Key, PressCancel, PressQuit,
       KeyPressed
  <1>1. ASSUME NEW sends, MainPosts(sends), MainSends(sends)', quit_pressed' \in BOOLEAN
        PROVE  Flow'
    <2>1. /\ outbox'["main"] = sends
          /\ \A t \in Machines : outbox'[t] = outbox[t]
          /\ UNCHANGED <<queue, state, pin>>
      BY <1>1, ThreadNames DEF MainPosts, atmVars, Flow, IInv, TypeOK
    <2>2. Outboxes'
      BY <1>1, <2>1, ThreadNames DEF Outboxes, Flow, AtmSends
    <2>3. Queues'
      BY <1>0, <2>1 DEF Queues, Flow, Types
    <2>4. \A i \in DOMAIN queue["atm"] : queue["atm"][i].type # "cancel_pressed"
      BY <1>0, ThreadNames DEF Queues, Flow, Types
    <2> QED
      BY <1>0, <2>1, <2>2, <2>3, <2>4 DEF CancelLast, Flow
  <1>3. ASSUME NEW msg, msg.type \in InputTypes \ {"cancel_pressed"}, Key(msg)
        PROVE  Flow'
    <2>1. MainSends(<<To("atm", msg)>>)'
      BY <1>3 DEF MainSends, To, InputTypes, KeySignals
    <2> QED
      BY <1>0, <1>1, <1>3, <2>1 DEF Key, Flow, IInv, TypeOK
  <1>4. CASE PressDigit \/ PressKey
    <2>1. \A d : digit_pressed(d).type = "digit_pressed"
      BY DEF digit_pressed
    <2>2. \A type \in KeySignals : Signal(type).type \in InputTypes \ {"cancel_pressed"}
      BY DEF Signal, KeySignals, InputTypes
    <2> QED
      BY <1>3, <1>4, <2>1, <2>2 DEF PressDigit, PressKey, InputTypes
  <1>5. CASE PressCancel
    <2> DEFINE keys == <<To("atm", Signal("cancel_pressed")), To("bank", Signal("close_queue")),
                         To("atm", Signal("close_queue")), To("interface", Signal("close_queue"))>>
    <2>1. \A i \in DOMAIN keys : /\ keys[i].msg.type \in {"cancel_pressed", "close_queue"}
                                 /\ i = 1 => keys[i].to = "atm"
                                 /\ i # 1 => keys[i].msg.type = "close_queue"
      BY DEF To, Signal
    <2>2. MainSends(keys)'
      <3> HIDE DEF keys
      <3> QED
        BY <1>5, <2>1 DEF MainSends, InputTypes, KeySignals, PressCancel
    <2>3. <<To("atm", Signal("cancel_pressed"))>> \o Closing = keys
      BY SignalSends, ConcatThree DEF Closing, Machines
    <2> QED
      BY <1>1, <1>5, <2>2, <2>3 DEF PressCancel
  <1>6. CASE PressQuit
    <2>1. MainSends(Closing)'
      BY <1>6 DEF MainSends, Closing, To, Signal, InputTypes, KeySignals, PressQuit
    <2> QED
      BY <1>1, <1>6, <2>1 DEF PressQuit
  <1> QED
    BY <1>4, <1>5, <1>6 DEF Keyboard

\* A message of main, of the cash machine and of the bank reaches a queue it is for.
LEMMA SendFlow == ASSUME Flow, NEW t \in Threads, Send(t) PROVE Flow'
  <1> DEFINE s == Head(outbox[t])
  <1>1. /\ outbox \in [Threads -> Seq(Sends)] /\ queue \in [Machines -> Seq(Message)]
        /\ outbox[t] # <<>> /\ s \in Sends /\ s = outbox[t][1]
        /\ queue' = [queue EXCEPT ![s.to] = Append(@, s.msg)]
        /\ outbox' = [outbox EXCEPT ![t] = Tail(@)]
        /\ UNCHANGED <<quit_pressed, state, pin>>
    BY DEF Send, Flow, IInv, TypeOK, driverVars, atmVars
  <1>2. /\ s.to \in Machines /\ s.msg \in Message
        /\ Types(queue'[s.to]) = Types(queue[s.to]) \cup {s.msg.type}
        /\ \A m \in Machines : m # s.to => queue'[m] = queue[m]
    BY <1>1, TypesOfQueue DEF Sends
  <1>3. IInv'
    BY SendIInv DEF Flow
  <1>4. ASSUME Outboxes',
               \/ s.to = "atm" /\ s.msg.type \in InputTypes \cup ReplyTypes
               \/ s.to = "bank" /\ s.msg.type \in RequestTypes \cup NoticeTypes
               \/ s.to = "interface" /\ s.msg.type \in DisplayTypes
               \/ s.msg.type = "close_queue",
               s.msg.type \in {"close_queue", "cancel_pressed"} => quit_pressed,
               s.msg.type \in InputTypes => t = "main",
               t = "main" => /\ Types(Unsent("main"))' \cap InputTypes = {}
                             /\ s.msg.type \in Types(Unsent("main"))
        PROVE  Flow'
    <2>1. Queues'
      BY ZenonT(40), <1>1, <1>2, <1>4, ThreadNames DEF Queues, Flow, InputTypes, KeySignals,
         ReplyTypes, RequestTypes, NoticeTypes, DisplayTypes
    <2>2. t # "main" => Types(Unsent("main"))' = Types(Unsent("main"))
      BY <1>1, ThreadNames DEF Types, Unsent
    <2>3. CancelLast'
      <3>1. CASE s.to # "atm"
        BY <1>1, <1>2, <1>4, <2>2, <3>1, ThreadNames DEF CancelLast, Flow
      <3>2. CASE s.to = "atm"
        <4>1. PICK q \in Seq(Message) : q = queue["atm"]
          BY <1>1, ThreadNames
        <4>2. queue'["atm"] = Append(q, s.msg)
          BY <1>1, <3>2, <4>1, ThreadNames
        <4>3. /\ DOMAIN Append(q, s.msg) = 1..Len(q) + 1 /\ DOMAIN q = 1..Len(q)
              /\ Len(q) \in Nat
              /\ \A i \in 1..Len(q) : Append(q, s.msg)[i] = q[i]
              /\ Append(q, s.msg)[Len(q) + 1] = s.msg
          BY <1>2, <4>1
        <4>4. s.msg.type \in InputTypes =>
                \A i \in DOMAIN q : q[i].type # "cancel_pressed"
          BY <1>4, <4>1 DEF CancelLast, Flow
        <4>5. s.msg.type = "cancel_pressed" => Types(Unsent("main"))' \cap InputTypes = {}
          BY <1>4 DEF InputTypes
        <4> HIDE DEF s
        <4>6. SUFFICES ASSUME NEW i \in 1..Len(q) + 1,
                              queue'["atm"][i].type = "cancel_pressed"
                       PROVE  /\ Types(Unsent("main"))' \cap InputTypes = {}
                              /\ \A j \in 1..Len(q) + 1 :
                                    j > i => queue'["atm"][j].type \notin InputTypes
          BY <4>2, <4>3 DEF CancelLast
        <4>7. CASE i = Len(q) + 1
          BY <4>2, <4>3, <4>5, <4>6, <4>7
        <4>8. CASE i \in 1..Len(q)
          <5>1. q[i].type = "cancel_pressed"
            BY <4>2, <4>3, <4>6, <4>8
          <5>2. /\ Types(Unsent("main")) \cap InputTypes = {}
                /\ \A j \in 1..Len(q) : j > i => q[j].type \notin InputTypes
            BY <4>1, <4>3, <4>8, <5>1 DEF CancelLast, Flow
          <5>3. s.msg.type \notin InputTypes
            BY <4>3, <4>4, <4>8, <5>1
          <5> QED
            BY <1>4, <2>2, <4>2, <4>3, <5>2, <5>3
        <4> QED
          BY <4>3, <4>7, <4>8
      <3> QED
        BY <3>1, <3>2
    <2> QED
      BY <1>3, <1>4, <2>1, <2>3 DEF Flow
  <1>5. CASE t = "main"
    <2>1. PICK sends \in Seq(Sends) : sends = outbox["main"] /\ sends # <<>>
      BY <1>1, <1>5
    <2>2. MainSends(sends) /\ s = sends[1] /\ outbox'["main"] = Tail(sends)
          /\ \A m \in Machines : outbox'[m] = outbox[m]
      BY <1>1, <1>5, <2>1, ThreadNames DEF Flow, Outboxes
    <2>3. /\ 1 \in DOMAIN sends
          /\ \A i \in DOMAIN Tail(sends) :
                i \in Nat \ {0} /\ i + 1 \in DOMAIN sends /\ Tail(sends)[i] = sends[i + 1]
      BY <2>1
    <2>4. \A i \in DOMAIN Tail(sends) :
             /\ Tail(sends)[i].msg.type = "close_queue"
             /\ quit_pressed
      BY <2>2, <2>3 DEF MainSends
    <2>5. Outboxes'
      <3>1. MainSends(Tail(sends))'
        BY <1>1, <2>4 DEF MainSends, InputTypes, KeySignals
      <3> QED
        BY <1>1, <2>2, <3>1, ThreadNames DEF Outboxes, Flow, AtmSends
    <2>6. \A i \in DOMAIN Tail(sends) : Tail(sends)[i].msg.type \notin InputTypes
      BY <2>4 DEF InputTypes, KeySignals
    <2>7. Types(Unsent("main"))' \cap InputTypes = {}
      BY <2>2, <2>6 DEF Types, Unsent
    <2>8. s.msg.type \in Types(Unsent("main"))
      BY <2>1, <2>2, <2>3 DEF Types, Unsent
    <2>9. /\ s.msg.type \in InputTypes \cup {"close_queue"}
          /\ s.msg.type \in InputTypes => s.to = "atm"
          /\ s.msg.type \in {"close_queue", "cancel_pressed"} => quit_pressed
      BY <2>2, <2>3 DEF MainSends
    <2> QED
      BY <1>4, <1>5, <2>5, <2>7, <2>8, <2>9
  <1>6. CASE t = "atm"
    <2>1. /\ \A m \in Threads : m # "atm" => outbox'[m] = outbox[m]
          /\ outbox'["atm"] = Tail(outbox["atm"])
          /\ AtmSends(state, outbox["atm"])
      BY <1>1, <1>6, ThreadNames DEF Flow, Outboxes
    <2>2. /\ outbox'["atm"] # <<>> => AtmSends(state, outbox'["atm"])
          /\ \/ s.to = "bank" /\ s.msg.type \in {"verify_pin", "withdraw", "get_balance",
                                   "withdrawal_processed", "cancel_withdrawal"}
             \/ s.to = "interface" /\ s.msg.type \in DisplayTypes
      <3>1. \A a : outbox["atm"] = <<a>> => s = a /\ outbox'["atm"] = <<>>
        BY <1>6, <2>1
      <3>2. \A a, b : outbox["atm"] = <<a, b>> => s = a /\ outbox'["atm"] = <<b>>
        BY <1>6, <2>1
      <3> HIDE DEF s
      <3> USE DEF AtmSends, To, ToInterface, Signal, verify_pin, display_balance,
                  DisplayTypes
      <3>3. CASE state \in {"waiting_for_card", "getting_pin", "verifying_pin"}
        BY <2>1, <3>1, <3>2, <3>3
      <3>4. CASE state = "wait_for_action"
        <4>1. CASE outbox["atm"] = <<ToInterface("display_withdrawal_options")>>
          BY <3>1, <3>4, <4>1
        <4>2. ASSUME NEW n \in 0..InitialBalance,
                     outbox["atm"] = <<To("interface", display_balance(n)),
                                       ToInterface("display_withdrawal_options")>>
              PROVE  /\ s = To("interface", display_balance(n))
                     /\ outbox'["atm"] = <<ToInterface("display_withdrawal_options")>>
          BY <3>2, <4>2
        <4>3. ASSUME NEW n \in 0..InitialBalance,
                     outbox["atm"] = <<To("interface", display_balance(n)),
                                       ToInterface("display_withdrawal_options")>>
              PROVE  /\ AtmSends(state, outbox'["atm"])
                     /\ s.to = "interface" /\ s.msg.type \in DisplayTypes
          BY <3>4, <4>2, <4>3
        <4> QED
          BY <2>1, <3>4, <4>1, <4>3
      <3>5. CASE state \in {"process_balance", "process_withdrawal"}
        BY <2>1, <3>1, <3>2, <3>5
      <3>6. CASE state = "done_processing"
        BY <2>1, <3>1, <3>2, <3>6
      <3> QED
        BY <2>1, <3>3, <3>4, <3>5, <3>6
    <2>3. Outboxes'
      <3>1. MainSends(outbox["main"])'
        BY SMTT(30), <1>1, <2>1, ThreadNames DEF Outboxes, Flow, MainSends
      <3>2. outbox'["atm"] # <<>> => AtmSends(state, outbox["atm"])'
        BY <1>1, <2>2 DEF AtmSends
      <3> QED
        BY <2>1, <3>1, <3>2, ThreadNames DEF Outboxes, Flow
    <2> QED
      BY <1>4, <1>6, <2>2, <2>3 DEF RequestTypes, NoticeTypes, InputTypes, KeySignals,
         DisplayTypes
  <1>7. CASE t = "bank"
    <2>1. /\ \A m \in Threads : m # "bank" => outbox'[m] = outbox[m]
          /\ outbox'["bank"] = Tail(outbox["bank"])
          /\ \E msg \in Message : /\ msg.type \in ReplyTypes
                                  /\ outbox["bank"] = <<To("atm", msg)>>
      BY <1>1, <1>7, ThreadNames DEF Flow, Outboxes
    <2>2. /\ outbox'["bank"] = <<>>
          /\ s.to = "atm" /\ s.msg.type \in ReplyTypes
      BY <1>7, <2>1 DEF To
    <2>3. Outboxes'
      BY ZenonT(40), <1>1, <2>1, <2>2, ThreadNames DEF Outboxes, Flow, AtmSends, MainSends
    <2> QED
      BY <1>4, <1>7, <2>2, <2>3 DEF ReplyTypes, InputTypes, KeySignals
  <1>8. CASE t = "interface"
    BY <1>1, <1>8 DEF Flow, Outboxes
  <1> QED
    BY <1>5, <1>6, <1>7, <1>8, ThreadNames

\* A handler of the cash machine leaves it with what its next state sends.
LEMMA HandlerFlow ==
  ASSUME Flow, IInv', NEW s, NEW type, NEW sends, NEW next,
         OnMessage(s, type, sends, next),
         \/ sends \o Entry(next) = <<>>
         \/ AtmSends(next, sends \o Entry(next))'
  PROVE  Flow'
  <1>1. /\ Take("atm", type) /\ state' = next
        /\ outbox'["atm"] = sends \o Entry(next)
        /\ \A t \in Threads : t # "atm" => outbox'[t] = outbox[t]
        /\ UNCHANGED <<quit_pressed, debit>>
    BY ThreadNames DEF OnMessage, driverVars, bankVars, Flow, IInv, TypeOK
  <1>2. Queues' /\ CancelLast'
    BY <1>1, TakeFlow, ThreadNames
  <1>3. MainSends(outbox["main"])'
    BY <1>1, ThreadNames DEF MainSends, Outboxes, Flow
  <1>4. outbox'["atm"] # <<>> => AtmSends(state, outbox["atm"])'
    BY <1>1 DEF AtmSends
  <1>5. Outboxes'
    BY <1>1, <1>3, <1>4, ThreadNames DEF Outboxes, Flow
  <1> QED
    BY <1>2, <1>5 DEF Flow

\* What is sent, in its final form.
LEMMA SendsOfHandlers ==
  /\ \A s : s \notin {"wait_for_action", "waiting_for_card"} => Entry(s) = <<>>
  /\ Entry("wait_for_action") = <<ToInterface("display_withdrawal_options")>>
  /\ Entry("waiting_for_card") = <<ToInterface("display_enter_card")>>
  /\ \A a : <<a>> \o <<>> = <<a>>
  /\ \A a, b : <<a, b>> \o <<>> = <<a, b>>
  /\ <<>> \o <<>> = <<>>
  /\ \A a : <<>> \o <<a>> = <<a>>
  /\ \A n \in 0..InitialBalance :
       <<To("interface", display_balance(n))>> \o Entry("wait_for_action")
          = <<To("interface", display_balance(n)), ToInterface("display_withdrawal_options")>>
  /\ <<ToInterface("eject_card")>> \o Entry("waiting_for_card")
          = <<ToInterface("eject_card"), ToInterface("display_enter_card")>>
  <1>1. \A s : s \notin {"wait_for_action", "waiting_for_card"} => Entry(s) = <<>>
    BY DEF Entry
  <1>2. /\ Entry("wait_for_action") = <<ToInterface("display_withdrawal_options")>>
        /\ Entry("waiting_for_card") = <<ToInterface("display_enter_card")>>
    BY DEF Entry
  <1>3. /\ \A a : <<a>> \o <<>> = <<a>>
        /\ \A a, b : <<a, b>> \o <<>> = <<a, b>>
        /\ <<>> \o <<>> = <<>>
        /\ \A a : <<>> \o <<a>> = <<a>>
    OBVIOUS
  <1>4. \A n \in 0..InitialBalance : To("interface", display_balance(n)) \in Sends
    BY DEF To, Sends, Message, Machines
  <1>5. /\ ToInterface("display_withdrawal_options") \in Sends
        /\ ToInterface("display_enter_card") \in Sends
        /\ ToInterface("eject_card") \in Sends
    BY SignalSends DEF DisplayTypes
  <1> QED
    BY <1>1, <1>2, <1>3, <1>4, <1>5, ConcatOne

\* Each handler of the cash machine sends what its next state allows.
LEMMA AtmHandlerFlow == ASSUME Flow, AtmHandler PROVE Flow'
  <1>0. IInv'
    BY AtmHandlerIInv DEF Flow
  <1> USE SendsOfHandlers
  <1>1. CASE CardInserted
    BY <1>0, <1>1, HandlerFlow DEF CardInserted, AtmSends
  <1>2. CASE DigitPressed
    <2>1. CASE Len(pin') = PinLength
      <3>1. OnMessage("getting_pin", "digit_pressed",
                      <<To("bank", verify_pin(pin'))>>, "verifying_pin")
        BY <1>2, <2>1 DEF DigitPressed
      <3> QED
        BY <1>0, <3>1, HandlerFlow DEF AtmSends
    <2>2. CASE Len(pin') # PinLength
      <3>1. OnMessage("getting_pin", "digit_pressed", <<>>, "getting_pin")
        BY <1>2, <2>2 DEF DigitPressed
      <3> QED
        BY <1>0, <3>1, HandlerFlow
    <2> QED
      BY <2>1, <2>2
  <1>3. CASE PinVerified
    BY <1>0, <1>3, HandlerFlow DEF PinVerified, AtmSends
  <1>4. CASE PinIncorrect
    BY <1>0, <1>4, HandlerFlow DEF PinIncorrect, AtmSends
  <1>5. CASE WithdrawPressed
    BY <1>0, <1>5, HandlerFlow DEF WithdrawPressed, AtmSends
  <1>6. CASE BalancePressed
    BY <1>0, <1>6, HandlerFlow DEF BalancePressed, AtmSends
  <1>7. CASE BalanceArrived
    <2>1. PICK n : n = Head(queue["atm"]).amount
      OBVIOUS
    <2>2. OnMessage("process_balance", "balance",
                    <<To("interface", display_balance(n))>>, "wait_for_action")
      BY <1>7, <2>1 DEF BalanceArrived
    <2>3. n \in 0..InitialBalance
      BY <2>1, <2>2, Taken, MessageFields, ThreadNames DEF OnMessage, Flow, IInv
    <2>4. AtmSends("wait_for_action",
                   <<To("interface", display_balance(n))>> \o Entry("wait_for_action"))'
      BY <2>3 DEF AtmSends
    <2> QED
      BY <1>0, <2>2, <2>4, HandlerFlow
  <1>8. CASE WithdrawOk
    <2> DEFINE sends == <<ToInterface("issue_money"), To("bank", Signal("withdrawal_processed"))>>
    <2>1. sends \o Entry("done_processing") = sends
      OBVIOUS
    <2>2. AtmSends("done_processing", sends)'
      BY DEF AtmSends
    <2> QED
      BY <1>0, <1>8, <2>1, <2>2, HandlerFlow DEF WithdrawOk
  <1>9. CASE WithdrawDenied
    BY <1>0, <1>9, HandlerFlow DEF WithdrawDenied, AtmSends
  <1>10. CASE CancelWithdrawal
    <2> DEFINE sends == <<To("bank", Signal("cancel_withdrawal")),
                          ToInterface("display_withdrawal_cancelled")>>
    <2>1. sends \o Entry("done_processing") = sends
      OBVIOUS
    <2>2. AtmSends("done_processing", sends)'
      BY DEF AtmSends
    <2> QED
      BY <1>0, <1>10, <2>1, <2>2, HandlerFlow DEF CancelWithdrawal
  <1>11. CASE CancelPressed
    BY <1>0, <1>11, HandlerFlow DEF CancelPressed
  <1>12. CASE AtmDiscards
    <2>1. PICK type : Take("atm", type)
      BY <1>12 DEF AtmDiscards
    <2>2. UNCHANGED <<outbox, state, pin, quit_pressed>>
      BY <1>12 DEF AtmDiscards, atmVars, driverVars
    <2>3. Queues' /\ CancelLast'
      BY <2>1, <2>2, TakeFlow, ThreadNames
    <2> QED
      BY <1>0, <2>2, <2>3 DEF Flow, Outboxes, AtmSends, MainSends
  <1>13. CASE DoneProcessing
    <2>1. /\ UNCHANGED <<queue, quit_pressed, pin>>
          /\ state' = "waiting_for_card"
          /\ outbox'["atm"] = <<ToInterface("eject_card"), ToInterface("display_enter_card")>>
          /\ \A t \in Threads : t # "atm" => outbox'[t] = outbox[t]
      BY <1>13, ThreadNames DEF DoneProcessing, driverVars, Flow, IInv, TypeOK
    <2>2. AtmSends(state, outbox["atm"])'
      BY <2>1 DEF AtmSends
    <2>3. Outboxes'
      BY <2>1, <2>2, ThreadNames DEF Outboxes, MainSends, Flow
    <2>4. Queues' /\ CancelLast'
      BY <2>1, ThreadNames, SameQueuesFlow
    <2> QED
      BY <1>0, <2>3, <2>4 DEF Flow
  <1> QED
    BY <1>1, <1>2, <1>3, <1>4, <1>5, <1>6, <1>7, <1>8, <1>9, <1>10, <1>11, <1>12, <1>13
       DEF AtmHandler

\* The bank answers what it takes.
LEMMA AnswerFlow ==
  ASSUME Flow, IInv', NEW type, Take("bank", type), NEW msg \in Message,
         msg.type \in ReplyTypes, BankReplies(msg)
  PROVE  Flow'
  <1>1. /\ outbox'["bank"] = <<To("atm", msg)>>
        /\ \A t \in Threads : t # "bank" => outbox'[t] = outbox[t]
        /\ UNCHANGED <<quit_pressed, state, pin>>
    BY ThreadNames DEF BankReplies, driverVars, atmVars, Flow, IInv, TypeOK
  <1>2. Queues' /\ CancelLast'
    BY <1>1, TakeFlow, ThreadNames
  <1>3. Outboxes'
    BY <1>1, ThreadNames DEF Outboxes, MainSends, AtmSends, Flow
  <1> QED
    BY <1>2, <1>3 DEF Flow

\* Each handler of the bank keeps the flow.
LEMMA BankHandlerFlow == ASSUME Flow, BankHandler PROVE Flow'
  <1>0. IInv'
    BY BankHandlerIInv DEF Flow
  <1>1. /\ \A type \in {"pin_verified", "pin_incorrect", "withdraw_ok", "withdraw_denied"} :
             Signal(type) \in Message /\ Signal(type).type \in ReplyTypes
        /\ balance_msg(balance) \in Message /\ balance_msg(balance).type \in ReplyTypes
    <2>1. balance_msg(balance) \in Message
      BY DEF Message, Flow, IInv, TypeOK
    <2> QED
      BY <2>1, SignalsAreMessages DEF ReplyTypes, Signal, balance_msg
  <1>2. CASE VerifyPin
    BY <1>0, <1>1, <1>2, AnswerFlow DEF VerifyPin
  <1>3. CASE Withdraw
    BY <1>0, <1>1, <1>3, AnswerFlow DEF Withdraw
  <1>4. CASE GetBalance
    BY <1>0, <1>1, <1>4, AnswerFlow DEF GetBalance
  <1>5. CASE Debit
    BY <1>0, <1>5, SameFlow DEF Debit, driverVars, atmVars
  <1>6. CASE BankNotified
    <2>1. PICK type : Take("bank", type)
      BY <1>6 DEF BankNotified
    <2>2. UNCHANGED <<outbox, state, pin, quit_pressed>>
      BY <1>6 DEF BankNotified, atmVars, driverVars
    <2>3. Queues' /\ CancelLast'
      BY <2>1, <2>2, TakeFlow, ThreadNames
    <2> QED
      BY <1>0, <2>2, <2>3 DEF Flow, Outboxes, AtmSends, MainSends
  <1> QED
    BY <1>2, <1>3, <1>4, <1>5, <1>6 DEF BankHandler

\* The other steps only take messages, or do not touch them.
LEMMA OtherFlow ==
  ASSUME Flow, \/ \E t \in Machines : Close(t)
               \/ Display
               \/ Join \/ UNCHANGED vars
  PROVE  Flow'
  <1>1. IInv'
    <2>1. UNCHANGED vars => IInv'
      BY DEF vars, Flow, IInv, TypeOK
    <2> QED
      BY <2>1, CloseIInv, DisplayIInv, JoinIInv DEF Flow
  <1>2. ASSUME NEW t \in Machines, NEW type, Take(t, type),
               UNCHANGED <<outbox, state, pin, quit_pressed>>
        PROVE  Flow'
    <2>1. Queues' /\ CancelLast'
      BY <1>2, TakeFlow
    <2> QED
      BY <1>1, <1>2, <2>1 DEF Flow, Outboxes, AtmSends, MainSends
  <1>3. ASSUME UNCHANGED <<queue, outbox, state, pin, quit_pressed>> PROVE Flow'
    BY <1>1, <1>3, SameFlow
  <1>4. CASE \E t \in Machines : Close(t)
    BY <1>2, <1>4 DEF Close, driverVars, atmVars
  <1>5. CASE Display
    BY <1>2, <1>5, ThreadNames DEF Display, driverVars, atmVars
  <1>6. CASE Join
    BY <1>3, <1>6 DEF Join, atmVars
  <1>7. CASE UNCHANGED vars
    BY <1>3, <1>7 DEF vars
  <1> QED
    BY <1>4, <1>5, <1>6, <1>7

------------------------------------------------------------------------------
(* Counting messages *)

One(condition) == IF condition THEN 1 ELSE 0

\* How a count changes as a queue does.
LEMMA CountFinite ==
  ASSUME NEW seq \in Seq(Message), NEW T
  PROVE  /\ IsFiniteSet({i \in DOMAIN seq : seq[i].type \in T})
         /\ CountIn(seq, T) \in Nat
         /\ CountIn(seq, T) = 0 <=> Types(seq) \cap T = {}
  <1> DEFINE P == {i \in DOMAIN seq : seq[i].type \in T}
  <1>1. IsFiniteSet(P)
    <2>1. IsFiniteSet(1..Len(seq)) /\ P \in SUBSET (1..Len(seq))
      BY FS_Interval
    <2> QED
      BY <2>1, FS_Subset
  <1>2. Cardinality(P) \in Nat /\ (Cardinality(P) = 0 <=> P = {})
    BY <1>1, FS_CardinalityType, FS_EmptySet
  <1>3. P = {} <=> Types(seq) \cap T = {}
    BY DEF Types
  <1> QED
    BY <1>1, <1>2, <1>3 DEF CountIn

\* Nothing is counted in an empty queue, ...
LEMMA CountEmpty == \A T : CountIn(<<>>, T) = 0
  <1>1. ASSUME NEW T PROVE {i \in DOMAIN <<>> : <<>>[i].type \in T} = {}
    OBVIOUS
  <1> QED
    BY <1>1, FS_EmptySet DEF CountIn

\* ... a message that is added counts if its type does, ...
LEMMA CountAppend ==
  ASSUME NEW seq \in Seq(Message), NEW msg \in Message, NEW T
  PROVE  CountIn(Append(seq, msg), T) = CountIn(seq, T) + One(msg.type \in T)
  <1> DEFINE P == {i \in DOMAIN seq : seq[i].type \in T}
             more == Append(seq, msg)
             Q == {i \in DOMAIN more : more[i].type \in T}
  <1>1. /\ DOMAIN more = (DOMAIN seq) \cup {Len(seq) + 1} /\ Len(seq) + 1 \notin DOMAIN seq
        /\ \A i \in DOMAIN seq : more[i] = seq[i]
        /\ more[Len(seq) + 1] = msg
    OBVIOUS
  <1>2. Q = IF msg.type \in T THEN P \cup {Len(seq) + 1} ELSE P
    <2> HIDE DEF more
    <2> QED
      BY <1>1
  <1>3. IsFiniteSet(P) /\ Cardinality(P) \in Nat
    BY CountFinite DEF CountIn
  <1>4. Len(seq) + 1 \notin P
    BY <1>1
  <1> HIDE DEF P, more, Q
  <1>5. Cardinality(Q) = Cardinality(P) + One(msg.type \in T)
    <2>1. Cardinality(P \cup {Len(seq) + 1}) = Cardinality(P) + 1
      BY <1>3, <1>4, FS_AddElement
    <2> QED
      BY <1>2, <1>3, <2>1 DEF One
  <1> QED
    BY <1>5 DEF P, Q, more, CountIn

\* ... and no longer when it has been taken.
LEMMA CountTail ==
  ASSUME NEW seq \in Seq(Message), seq # <<>>, NEW T
  PROVE  CountIn(Tail(seq), T) = CountIn(seq, T) - One(Head(seq).type \in T)
  <1> DEFINE P == {i \in DOMAIN seq : seq[i].type \in T}
             rest == Tail(seq)
             Q == {i \in DOMAIN rest : rest[i].type \in T}
             back == [i \in P \ {1} |-> i - 1]
  <1>1. /\ DOMAIN seq = 1..Len(seq) /\ DOMAIN rest = 1..Len(seq) - 1 /\ Len(seq) \in Nat \ {0}
        /\ \A i \in DOMAIN rest : rest[i] = seq[i + 1]
        /\ Head(seq) = seq[1]
    OBVIOUS
  <1>2. IsFiniteSet(P) /\ Cardinality(P) \in Nat
    BY CountFinite DEF CountIn
  <1>3. /\ IsFiniteSet(P \ {1})
        /\ Cardinality(P \ {1}) = Cardinality(P) - One(Head(seq).type \in T)
    <2>1. 1 \in P <=> Head(seq).type \in T
      BY <1>1
    <2> HIDE DEF P
    <2> QED
      BY <1>2, <2>1, FS_RemoveElement DEF One
  <1>4. \A i \in P \ {1} : i - 1 \in Q
    <2> HIDE DEF rest
    <2> QED
      BY <1>1
  <1>5. \A i \in Q : i + 1 \in P \ {1}
    <2> HIDE DEF rest
    <2> QED
      BY <1>1
  <1>6. P \subseteq Int /\ Q \subseteq Int
    BY <1>1
  <1>7. back \in Bijection(P \ {1}, Q)
    <2> HIDE DEF P, Q
    <2>1. back \in [P \ {1} -> Q]
      BY <1>4
    <2>2. back \in Injection(P \ {1}, Q)
      BY <1>6, <2>1 DEF Injection, IsInjective
    <2>3. ASSUME NEW i \in Q PROVE i + 1 \in P \ {1} /\ back[i + 1] = i
      BY <1>5, <1>6
    <2>4. back \in Surjection(P \ {1}, Q)
      BY <2>1, <2>3 DEF Surjection
    <2> QED
      BY <2>2, <2>4 DEF Bijection
  <1>8. Cardinality(Q) = Cardinality(P \ {1})
    <2> HIDE DEF P, Q, back
    <2> QED
      BY <1>3, <1>7, FS_Bijection DEF ExistsBijection
  <1> QED
    BY <1>3, <1>8 DEF CountIn

\* What is counted of two disjoint sets of types.
LEMMA CountUnion ==
  ASSUME NEW seq \in Seq(Message), NEW T, NEW U, T \cap U = {}
  PROVE  CountIn(seq, T \cup U) = CountIn(seq, T) + CountIn(seq, U)
  <1> DEFINE P == {i \in DOMAIN seq : seq[i].type \in T}
             Q == {i \in DOMAIN seq : seq[i].type \in U}
             R == {i \in DOMAIN seq : seq[i].type \in T \cup U}
  <1>1. IsFiniteSet(P) /\ IsFiniteSet(Q) /\ Cardinality(P) \in Nat /\ Cardinality(Q) \in Nat
    BY CountFinite DEF CountIn
  <1>2. R = P \cup Q /\ P \cap Q = {}
    OBVIOUS
  <1> HIDE DEF P, Q, R
  <1>3. Cardinality(R) = Cardinality(P) + Cardinality(Q)
    <2>1. Cardinality(P \cup Q) = Cardinality(P) + Cardinality(Q) - Cardinality(P \cap Q)
      BY <1>1, FS_Union
    <2>2. Cardinality(P \cap Q) = 0
      BY <1>2, FS_EmptySet
    <2> QED
      BY <1>1, <1>2, <2>1, <2>2
  <1> QED
    BY <1>3 DEF CountIn, P, Q, R

\* What is counted in one or two messages.
LEMMA CountShort ==
  ASSUME NEW T, NEW a \in Message, NEW b \in Message
  PROVE  /\ CountIn(<<a>>, T) = One(a.type \in T)
         /\ CountIn(<<a, b>>, T) = One(a.type \in T) + One(b.type \in T)
  <1>1. Append(<<>>, a) = <<a>> /\ Append(<<a>>, b) = <<a, b>>
    <2>1. Append(<<>>, a) = <<a>>
      OBVIOUS
    <2> QED
      BY <2>1, ConcatOne
  <1>2. CountIn(Append(<<>>, a), T) = One(a.type \in T)
    <2>1. <<>> \in Seq(Message)
      OBVIOUS
    <2>2. CountIn(Append(<<>>, a), T) = CountIn(<<>>, T) + One(a.type \in T)
      BY <2>1, CountAppend
    <2> QED
      BY <2>2, CountEmpty DEF One
  <1>3. CountIn(Append(<<a>>, b), T) = CountIn(<<a>>, T) + One(b.type \in T)
    <2>1. <<a>> \in Seq(Message)
      OBVIOUS
    <2> QED
      BY <2>1, CountAppend
  <1> QED
    BY <1>1, <1>2, <1>3

\* A function on 1..n is a sequence of n elements.
LEMMA FunctionIsSeq ==
  ASSUME NEW S, NEW n \in Nat, NEW f \in [1..n -> S]
  PROVE  f \in Seq(S) /\ Len(f) = n
  OBVIOUS

\* The messages of an outbox.
Msgs(sends) == [i \in DOMAIN sends |-> sends[i].msg]

\* What is unsent, as a function of the outbox.
LEMMA UnsentMsgs == \A t : Unsent(t) = Msgs(outbox[t])
  BY DEF Unsent, Msgs

\* The messages of an outbox follow its sends.
LEMMA MsgsOfSends ==
  /\ Msgs(<<>>) = <<>>
  /\ \A s : Msgs(<<s>>) = <<s.msg>>
  /\ \A s, r : Msgs(<<s, r>>) = <<s.msg, r.msg>>
  /\ \A sends \in Seq(Sends) :
        /\ Msgs(sends) \in Seq(Message)
        /\ sends # <<>> => /\ Msgs(sends) # <<>>
                           /\ Head(Msgs(sends)) = Head(sends).msg
                           /\ Msgs(Tail(sends)) = Tail(Msgs(sends))
  <1>1. Msgs(<<>>) = <<>>
    BY DEF Msgs
  <1>2. ASSUME NEW s PROVE Msgs(<<s>>) = <<s.msg>>
    BY DEF Msgs
  <1>3. ASSUME NEW s, NEW r PROVE Msgs(<<s, r>>) = <<s.msg, r.msg>>
    BY DEF Msgs
  <1>4. ASSUME NEW sends \in Seq(Sends)
        PROVE  /\ Msgs(sends) \in Seq(Message)
               /\ sends # <<>> => /\ Msgs(sends) # <<>>
                                  /\ Head(Msgs(sends)) = Head(sends).msg
                                  /\ Msgs(Tail(sends)) = Tail(Msgs(sends))
    <2>0. ASSUME NEW some \in Seq(Sends)
          PROVE  /\ Msgs(some) \in Seq(Message) /\ Len(Msgs(some)) = Len(some)
                 /\ Len(some) \in Nat
                 /\ \A i \in 1..Len(some) : Msgs(some)[i] = some[i].msg
      <3>1. Len(some) \in Nat /\ DOMAIN some = 1..Len(some)
            /\ \A i \in 1..Len(some) : some[i] \in Sends
        OBVIOUS
      <3>2. \A r \in Sends : r.msg \in Message
        BY DEF Sends
      <3>3. Msgs(some) = [i \in 1..Len(some) |-> some[i].msg]
        BY <3>1 DEF Msgs
      <3>4. Msgs(some) \in [1..Len(some) -> Message]
        BY <3>1, <3>2, <3>3
      <3>5. Msgs(some) \in Seq(Message) /\ Len(Msgs(some)) = Len(some)
        BY <3>1, <3>4, FunctionIsSeq
      <3> QED
        BY <3>1, <3>3, <3>5
    <2>1. Msgs(sends) \in Seq(Message) /\ Len(Msgs(sends)) = Len(sends)
      BY <2>0
    <2>2. \A i \in 1..Len(sends) : Msgs(sends)[i] = sends[i].msg
      BY <2>0
    <2>3. ASSUME sends # <<>>
          PROVE  Msgs(Tail(sends)) = Tail(Msgs(sends))
      <3>1. Tail(sends) \in Seq(Sends) /\ Len(Tail(sends)) = Len(sends) - 1
            /\ \A i \in 1..Len(sends) - 1 : Tail(sends)[i] = sends[i + 1]
        BY <2>3
      <3>2. /\ Msgs(Tail(sends)) \in Seq(Message)
            /\ Len(Msgs(Tail(sends))) = Len(sends) - 1
            /\ \A i \in 1..Len(sends) - 1 : Msgs(Tail(sends))[i] = sends[i + 1].msg
        <4>1. PICK rest \in Seq(Sends) :
                 /\ rest = Tail(sends) /\ Len(rest) = Len(sends) - 1
                 /\ \A i \in 1..Len(sends) - 1 : rest[i] = sends[i + 1]
          BY <3>1
        <4>2. /\ Msgs(rest) \in Seq(Message) /\ Len(Msgs(rest)) = Len(rest)
              /\ \A i \in 1..Len(rest) : Msgs(rest)[i] = rest[i].msg
          BY <2>0
        <4> QED
          BY <4>1, <4>2
      <3>3. /\ Tail(Msgs(sends)) \in Seq(Message)
            /\ Len(Tail(Msgs(sends))) = Len(sends) - 1
            /\ \A i \in 1..Len(sends) - 1 : Tail(Msgs(sends))[i] = sends[i + 1].msg
        BY <2>1, <2>2, <2>3
      <3> QED
        BY <3>2, <3>3, SeqEqual
    <2> QED
      BY <2>1, <2>2, <2>3
  <1> QED
    BY <1>1, <1>2, <1>3, <1>4

\* Counts are numbers.
LEMMA CountTypes ==
  ASSUME Flow, NEW T
  PROVE  /\ \A m \in Machines : CountIn(queue[m], T) \in Nat
         /\ \A t \in Threads : Unsent(t) \in Seq(Message) /\ CountIn(Unsent(t), T) \in Nat
         /\ InFlight(T) \in Nat
  <1>1. \A m \in Machines : CountIn(queue[m], T) \in Nat
    BY CountFinite DEF Flow, IInv, TypeOK
  <1>2. \A t \in Threads : Unsent(t) \in Seq(Message) /\ CountIn(Unsent(t), T) \in Nat
    BY CountFinite, UnsentMsgs, MsgsOfSends DEF Flow, IInv, TypeOK
  <1> QED
    BY SMTT(30), <1>1, <1>2, ThreadNames DEF InFlight


\* The sum that InFlight is, by queues and outboxes.
Total(c, o) == c["atm"] + c["bank"] + c["interface"] + o["atm"] + o["bank"]
InQueues(q, T) == [m \in Machines |-> CountIn(q[m], T)]
InOutboxes(b, T) == [t \in {"atm", "bank"} |-> CountIn(Msgs(b[t]), T)]

\* InFlight as the sum over queues and outboxes, before and after a step.
LEMMA InFlightTotal ==
  ASSUME NEW T
  PROVE  /\ InFlight(T) = Total(InQueues(queue, T), InOutboxes(outbox, T))
         /\ InFlight(T)' = Total(InQueues(queue', T), InOutboxes(outbox', T))
  BY ThreadNames DEF InFlight, Total, InQueues, InOutboxes, Unsent, Msgs

\* Its summands are numbers.
LEMMA CountsAreNumbers ==
  ASSUME NEW q \in [Machines -> Seq(Message)], NEW b \in [Threads -> Seq(Sends)], NEW T
  PROVE  /\ InQueues(q, T) \in [Machines -> Nat]
         /\ InOutboxes(b, T) \in [{"atm", "bank"} -> Nat]
  <1>1. \A m \in Machines : CountIn(q[m], T) \in Nat
    BY CountFinite
  <1>2. \A t \in {"atm", "bank"} : CountIn(Msgs(b[t]), T) \in Nat
    BY CountFinite, MsgsOfSends, ThreadNames
  <1> QED
    BY <1>1, <1>2 DEF InQueues, InOutboxes

\* One queue and one outbox change.
LEMMA TotalChange ==
  ASSUME NEW c \in [Machines -> Nat], NEW o \in [{"atm", "bank"} -> Nat],
         NEW d \in [Machines -> Nat], NEW p \in [{"atm", "bank"} -> Nat],
         NEW m \in Machines, NEW t \in {"atm", "bank"},
         \A u \in Machines : u # m => d[u] = c[u],
         \A u \in {"atm", "bank"} : u # t => p[u] = o[u]
  PROVE  Total(d, p) = Total(c, o) + (d[m] - c[m]) + (p[t] - o[t])
  <1>1. /\ c["atm"] \in Int /\ c["bank"] \in Int /\ c["interface"] \in Int
        /\ d["atm"] \in Int /\ d["bank"] \in Int /\ d["interface"] \in Int
        /\ o["atm"] \in Int /\ o["bank"] \in Int /\ p["atm"] \in Int /\ p["bank"] \in Int
    BY ThreadNames
  <1>2. d["atm"] + d["bank"] + d["interface"]
          = c["atm"] + c["bank"] + c["interface"] + (d[m] - c[m])
    BY <1>1, ThreadNames
  <1>3. p["atm"] + p["bank"] = o["atm"] + o["bank"] + (p[t] - o[t])
    BY <1>1
  <1>4. d[m] - c[m] \in Int /\ p[t] - o[t] \in Int
    OBVIOUS
  <1> QED
    BY <1>1, <1>2, <1>3, <1>4 DEF Total

\* How what is in flight changes with the queue of one machine and the outbox of another.
LEMMA InFlightChange ==
  ASSUME queue \in [Machines -> Seq(Message)], outbox \in [Threads -> Seq(Sends)],
         queue' \in [Machines -> Seq(Message)], outbox' \in [Threads -> Seq(Sends)],
         NEW T, NEW m \in Machines, NEW t \in {"atm", "bank"},
         \A u \in Machines : u # m => queue'[u] = queue[u],
         \A u \in {"atm", "bank"} : u # t => outbox'[u] = outbox[u]
  PROVE  /\ InFlight(T)' = InFlight(T) + (CountIn(queue'[m], T) - CountIn(queue[m], T))
                            + (CountIn(Msgs(outbox'[t]), T) - CountIn(Msgs(outbox[t]), T))
         /\ InFlight(T) \in Nat /\ InFlight(T) >= CountIn(queue[m], T)
         /\ CountIn(queue[m], T) \in Nat /\ CountIn(queue'[m], T) \in Nat
         /\ CountIn(Msgs(outbox[t]), T) \in Nat /\ CountIn(Msgs(outbox'[t]), T) \in Nat
  <1> DEFINE c == InQueues(queue, T)
             o == InOutboxes(outbox, T)
             d == InQueues(queue', T)
             p == InOutboxes(outbox', T)
  <1>1. /\ c \in [Machines -> Nat] /\ o \in [{"atm", "bank"} -> Nat]
        /\ d \in [Machines -> Nat] /\ p \in [{"atm", "bank"} -> Nat]
    BY CountsAreNumbers
  <1>2. /\ \A u \in Machines : u # m => d[u] = c[u]
        /\ d[m] = CountIn(queue'[m], T) /\ c[m] = CountIn(queue[m], T)
    BY DEF InQueues
  <1>3. /\ \A u \in {"atm", "bank"} : u # t => p[u] = o[u]
        /\ p[t] = CountIn(Msgs(outbox'[t]), T) /\ o[t] = CountIn(Msgs(outbox[t]), T)
    BY DEF InOutboxes
  <1>4. InFlight(T) = Total(c, o) /\ InFlight(T)' = Total(d, p)
    BY InFlightTotal
  <1> HIDE DEF c, o, d, p
  <1>5. Total(d, p) = Total(c, o) + (d[m] - c[m]) + (p[t] - o[t])
    BY ZenonT(40), <1>1, <1>2, <1>3, TotalChange
  <1>6. Total(c, o) \in Nat /\ Total(c, o) >= c[m]
    <2>1. /\ c["atm"] \in Nat /\ c["bank"] \in Nat /\ c["interface"] \in Nat
          /\ o["atm"] \in Nat /\ o["bank"] \in Nat
      BY <1>1, ThreadNames
    <2>2. \A a, b, x, y, z \in Nat :
             a + b + x + y + z \in Nat /\ a + b + x + y + z >= a
               /\ a + b + x + y + z >= b /\ a + b + x + y + z >= x
      OBVIOUS
    <2>3. m = "atm" \/ m = "bank" \/ m = "interface"
      BY DEF Machines
    <2> QED
      BY ZenonT(40), <2>1, <2>2, <2>3 DEF Total
  <1>7. c[m] \in Nat /\ d[m] \in Nat /\ o[t] \in Nat /\ p[t] \in Nat
    BY <1>1
  <1> QED
    BY <1>2, <1>3, <1>4, <1>5, <1>6, <1>7

\* A message is counted in the outbox, then in the queue.
LEMMA SendCounts ==
  ASSUME Flow, NEW t \in Threads, Send(t), NEW T,
         t = "main" => T \cap (InputTypes \cup {"close_queue"}) = {}
  PROVE  InFlight(T)' = InFlight(T)
  <1>1. PICK s \in Sends : s = Head(outbox[t])
    BY DEF Send, Flow, IInv, TypeOK
  <1>2. /\ queue \in [Machines -> Seq(Message)] /\ outbox \in [Threads -> Seq(Sends)]
        /\ outbox[t] # <<>>
        /\ s.to \in Machines /\ s.msg \in Message
        /\ queue' = [queue EXCEPT ![s.to] = Append(@, s.msg)]
        /\ outbox' = [outbox EXCEPT ![t] = Tail(@)]
    BY <1>1 DEF Send, Flow, IInv, TypeOK, Sends
  <1>3. queue' \in [Machines -> Seq(Message)] /\ outbox' \in [Threads -> Seq(Sends)]
    BY SendFlow DEF Flow, IInv, TypeOK
  <1>4. /\ \A u \in Machines : u # s.to => queue'[u] = queue[u]
        /\ queue'[s.to] = Append(queue[s.to], s.msg)
        /\ outbox'[t] = Tail(outbox[t])
        /\ \A u \in {"atm", "bank"} : u # t => outbox'[u] = outbox[u]
    BY <1>2, ThreadNames
  <1>5. PICK k \in Nat : k = One(s.msg.type \in T)
    BY DEF One
  <1>6. CountIn(queue'[s.to], T) = CountIn(queue[s.to], T) + k
    BY <1>2, <1>4, <1>5, CountAppend
  <1>7. CountIn(Msgs(outbox'[t]), T) = CountIn(Msgs(outbox[t]), T) - k
    <2>1. /\ Msgs(outbox[t]) \in Seq(Message) /\ Msgs(outbox[t]) # <<>>
          /\ Head(Msgs(outbox[t])) = s.msg
          /\ Msgs(Tail(outbox[t])) = Tail(Msgs(outbox[t]))
      BY <1>1, <1>2, MsgsOfSends
    <2> QED
      BY <1>4, <1>5, <2>1, CountTail
  <1>8. CASE t \in {"atm", "bank"}
    <2>1. /\ InFlight(T)' = InFlight(T) + (CountIn(queue'[s.to], T) - CountIn(queue[s.to], T))
                            + (CountIn(Msgs(outbox'[t]), T) - CountIn(Msgs(outbox[t]), T))
          /\ InFlight(T) \in Nat
          /\ CountIn(queue[s.to], T) \in Nat /\ CountIn(Msgs(outbox[t]), T) \in Nat
      BY <1>2, <1>3, <1>4, <1>8, InFlightChange
    <2> QED
      BY <1>6, <1>7, <2>1
  <1>9. CASE t = "main"
    <2>1. s.msg.type \in InputTypes \cup {"close_queue"}
      BY <1>1, <1>2, <1>9 DEF Flow, Outboxes, MainSends
    <2>2. k = 0
      BY <1>5, <1>9, <2>1 DEF One
    <2>3. /\ InFlight(T)' = InFlight(T) + (CountIn(queue'[s.to], T) - CountIn(queue[s.to], T))
                  + (CountIn(Msgs(outbox'["atm"]), T) - CountIn(Msgs(outbox["atm"]), T))
          /\ InFlight(T) \in Nat
          /\ CountIn(queue[s.to], T) \in Nat /\ CountIn(Msgs(outbox["atm"]), T) \in Nat
      <3>1. \A u \in {"atm", "bank"} : u # "atm" => outbox'[u] = outbox[u]
        BY <1>4, <1>9
      <3> QED
        BY <1>2, <1>3, <1>4, <3>1, InFlightChange
    <2>4. outbox'["atm"] = outbox["atm"]
      BY <1>4, <1>9
    <2> QED
      BY <1>6, <2>2, <2>3, <2>4
  <1>10. t # "interface"
    BY <1>2 DEF Flow, Outboxes
  <1> QED
    BY <1>8, <1>9, <1>10, ThreadNames

Posts(t, sends) == outbox' = [outbox EXCEPT ![t] = sends]

\* A message that is taken is replaced by those its handler sends.
LEMMA TakeCounts ==
  ASSUME Flow, NEW t \in Machines, NEW type, Take(t, type), NEW T,
         NEW sends \in Seq(Sends), Posts(t, sends),
         t = "interface" => sends = <<>>
  PROVE  /\ InFlight(T)' = InFlight(T) - One(type \in T) + CountIn(Msgs(sends), T)
         /\ type \in T => InFlight(T) > 0
         /\ InFlight(T) \in Nat /\ CountIn(Msgs(sends), T) \in Nat
  <1>1. /\ queue \in [Machines -> Seq(Message)] /\ outbox \in [Threads -> Seq(Sends)]
        /\ queue[t] # <<>> /\ Head(queue[t]).type = type
        /\ queue' = [queue EXCEPT ![t] = Tail(@)]
        /\ outbox[t] = <<>>
    BY DEF Take, Arrived, Ready, Flow, IInv, TypeOK
  <1>0. outbox' = [outbox EXCEPT ![t] = sends]
    BY DEF Posts
  <1>2. queue' \in [Machines -> Seq(Message)] /\ outbox' \in [Threads -> Seq(Sends)]
    BY <1>0, <1>1, ThreadNames
  <1>3. /\ \A u \in Machines : u # t => queue'[u] = queue[u]
        /\ queue'[t] = Tail(queue[t])
        /\ outbox'[t] = sends
        /\ \A u \in {"atm", "bank"} : u # t => outbox'[u] = outbox[u]
    BY <1>0, <1>1, ThreadNames
  <1>4. PICK k \in Nat : k = One(type \in T) /\ (type \in T => k = 1)
    BY DEF One
  <1>5. CountIn(queue'[t], T) = CountIn(queue[t], T) - k
    BY <1>1, <1>3, <1>4, CountTail
  <1>6. CountIn(Msgs(<<>>), T) = 0
    BY MsgsOfSends, CountEmpty
  <1>7. CASE t \in {"atm", "bank"}
    <2>1. /\ InFlight(T)' = InFlight(T) + (CountIn(queue'[t], T) - CountIn(queue[t], T))
                            + (CountIn(Msgs(outbox'[t]), T) - CountIn(Msgs(outbox[t]), T))
          /\ InFlight(T) \in Nat /\ InFlight(T) >= CountIn(queue[t], T)
          /\ CountIn(queue[t], T) \in Nat /\ CountIn(queue'[t], T) \in Nat
          /\ CountIn(Msgs(outbox'[t]), T) \in Nat
      BY <1>1, <1>2, <1>3, <1>7, InFlightChange
    <2>2. CountIn(Msgs(outbox[t]), T) = 0 /\ Msgs(outbox'[t]) = Msgs(sends)
      BY <1>1, <1>3, <1>6
    <2>3. CountIn(queue[t], T) >= k
      BY <1>4, <1>5, <2>1
    <2>4. InFlight(T)' = InFlight(T) - k + CountIn(Msgs(sends), T)
      BY <1>4, <1>5, <2>1, <2>2
    <2>5. type \in T => InFlight(T) > 0
      BY <1>4, <2>1, <2>3
    <2> QED
      BY <1>4, <2>1, <2>2, <2>4, <2>5
  <1>8. CASE t = "interface"
    <2>1. \A u \in {"atm", "bank"} : u # "atm" => outbox'[u] = outbox[u]
      BY <1>3, <1>8
    <2>2. /\ InFlight(T)' = InFlight(T) + (CountIn(queue'[t], T) - CountIn(queue[t], T))
                  + (CountIn(Msgs(outbox'["atm"]), T) - CountIn(Msgs(outbox["atm"]), T))
          /\ InFlight(T) \in Nat /\ InFlight(T) >= CountIn(queue[t], T)
          /\ CountIn(queue[t], T) \in Nat /\ CountIn(queue'[t], T) \in Nat
          /\ CountIn(Msgs(outbox["atm"]), T) \in Nat
      BY <1>1, <1>2, <1>3, <2>1, InFlightChange
    <2>3. outbox'["atm"] = outbox["atm"]
      BY <1>3, <1>8
    <2> QED
      BY <1>3, <1>4, <1>5, <1>6, <1>8, <2>2, <2>3
  <1> QED
    BY <1>7, <1>8, ThreadNames

\* Nothing is counted anew when no queue and no machine's outbox changes.
LEMMA SameCounts ==
  ASSUME NEW T, UNCHANGED queue, \A m \in Machines : outbox'[m] = outbox[m]
  PROVE  InFlight(T)' = InFlight(T)
  BY ThreadNames DEF InFlight, Unsent

\* The messages sent, or not, by a step that takes none.
LEMMA PostCounts ==
  ASSUME Flow, NEW T, UNCHANGED queue, outbox["atm"] = <<>>,
         NEW sends \in Seq(Sends), outbox' = [outbox EXCEPT !["atm"] = sends]
  PROVE  InFlight(T)' = InFlight(T) + CountIn(Msgs(sends), T)
  <1>1. /\ queue \in [Machines -> Seq(Message)] /\ outbox \in [Threads -> Seq(Sends)]
        /\ queue' = queue
    BY DEF Flow, IInv, TypeOK
  <1>2. outbox' \in [Threads -> Seq(Sends)]
    BY <1>1, ThreadNames
  <1>3. /\ outbox'["atm"] = sends
        /\ \A u \in {"atm", "bank"} : u # "atm" => outbox'[u] = outbox[u]
    BY <1>1, ThreadNames
  <1>4. /\ InFlight(T)' = InFlight(T) + (CountIn(queue'["atm"], T) - CountIn(queue["atm"], T))
                  + (CountIn(Msgs(outbox'["atm"]), T) - CountIn(Msgs(outbox["atm"]), T))
        /\ InFlight(T) \in Nat
        /\ CountIn(queue["atm"], T) \in Nat /\ CountIn(Msgs(outbox'["atm"]), T) \in Nat
    <2>1. \A u \in Machines : u # "atm" => queue'[u] = queue[u]
      BY <1>1
    <2> QED
      BY <1>1, <1>2, <1>3, <2>1, InFlightChange, ThreadNames
  <1>5. CountIn(Msgs(outbox["atm"]), T) = 0
    BY MsgsOfSends, CountEmpty
  <1> QED
    BY <1>1, <1>3, <1>4, <1>5

\* What is in flight of two disjoint sets of types.
LEMMA InFlightUnion ==
  ASSUME Flow, NEW T, NEW U, T \cap U = {}
  PROVE  InFlight(T \cup U) = InFlight(T) + InFlight(U)
  <1>1. \A m \in Machines :
           /\ CountIn(queue[m], T \cup U) = CountIn(queue[m], T) + CountIn(queue[m], U)
           /\ CountIn(queue[m], T) \in Nat /\ CountIn(queue[m], U) \in Nat
    BY CountUnion, CountTypes DEF Flow, IInv, TypeOK
  <1>2. \A t \in Threads :
           /\ CountIn(Unsent(t), T \cup U) = CountIn(Unsent(t), T) + CountIn(Unsent(t), U)
           /\ CountIn(Unsent(t), T) \in Nat /\ CountIn(Unsent(t), U) \in Nat
    BY CountUnion, CountTypes
  <1>3. \A a, b, c, d, e, f, g, h, i, j \in Nat :
           (a + b) + (c + d) + (e + f) + (g + h) + (i + j)
              = (a + c + e + g + i) + (b + d + f + h + j)
    OBVIOUS
  <1>4. /\ CountIn(queue["atm"], T \cup U) = CountIn(queue["atm"], T) + CountIn(queue["atm"], U)
        /\ CountIn(queue["atm"], T) \in Nat /\ CountIn(queue["atm"], U) \in Nat
    BY <1>1, ThreadNames
  <1>5. /\ CountIn(queue["bank"], T \cup U) = CountIn(queue["bank"], T) + CountIn(queue["bank"], U)
        /\ CountIn(queue["bank"], T) \in Nat /\ CountIn(queue["bank"], U) \in Nat
    BY <1>1, ThreadNames
  <1>6. /\ CountIn(queue["interface"], T \cup U)
              = CountIn(queue["interface"], T) + CountIn(queue["interface"], U)
        /\ CountIn(queue["interface"], T) \in Nat /\ CountIn(queue["interface"], U) \in Nat
    BY <1>1, ThreadNames
  <1>7. /\ CountIn(Unsent("atm"), T \cup U) = CountIn(Unsent("atm"), T) + CountIn(Unsent("atm"), U)
        /\ CountIn(Unsent("atm"), T) \in Nat /\ CountIn(Unsent("atm"), U) \in Nat
    BY <1>2, ThreadNames
  <1>8. /\ CountIn(Unsent("bank"), T \cup U)
              = CountIn(Unsent("bank"), T) + CountIn(Unsent("bank"), U)
        /\ CountIn(Unsent("bank"), T) \in Nat /\ CountIn(Unsent("bank"), U) \in Nat
    BY <1>2, ThreadNames
  <1> QED
    BY <1>3, <1>4, <1>5, <1>6, <1>7, <1>8 DEF InFlight

\* Every step keeps the flow.
LEMMA NextFlow == ASSUME Flow, [Next]_vars PROVE Flow'
  <1>0. {"atm", "bank", "interface"} \subseteq Machines /\ Machines \subseteq Threads
        /\ "main" \in Threads
    BY DEF Machines, Threads
  <1>1. CASE Keyboard
    BY <1>1, KeyboardFlow
  <1>2. CASE MainStep
    BY <1>0, <1>2, SendFlow, OtherFlow DEF MainStep
  <1>3. CASE AtmStep
    BY <1>0, <1>3, SendFlow, OtherFlow, AtmHandlerFlow DEF AtmStep
  <1>4. CASE BankStep
    BY <1>0, <1>4, SendFlow, OtherFlow, BankHandlerFlow DEF BankStep
  <1>5. CASE InterfaceStep
    BY <1>0, <1>5, OtherFlow DEF InterfaceStep
  <1>6. CASE UNCHANGED vars
    BY <1>6, OtherFlow
  <1> QED
    BY <1>1, <1>2, <1>3, <1>4, <1>5, <1>6 DEF Next, Terminated

------------------------------------------------------------------------------
(* The last session *)

\* No step starts another session when the last one is over.
LEMMA OverStays == ASSUME Flow, [Next]_vars, Over PROVE Over'
  <1>0. /\ queue \in [Machines -> Seq(Message)] /\ outbox \in [Threads -> Seq(Sends)]
        /\ quit_pressed
        /\ state \in {"done_processing", "waiting_for_card"}
        /\ Types(queue["atm"]) \cap InputTypes = {}
        /\ Types(Unsent("main")) \cap InputTypes = {}
    BY DEF Over, Flow, IInv, TypeOK
  <1>1. ASSUME UNCHANGED <<quit_pressed, state, queue>>, outbox'["main"] = outbox["main"]
        PROVE  Over'
    BY <1>0, <1>1 DEF Over, Types, Unsent
  <1>2. ASSUME NEW t \in Machines, NEW type, Take(t, type), UNCHANGED <<quit_pressed, state>>,
               outbox'["main"] = outbox["main"]
        PROVE  Over'
    <2>1. Types(queue'["atm"]) \subseteq Types(queue["atm"])
      BY <1>0, <1>2, TypesOfQueue, ThreadNames DEF Take, Arrived
    <2>2. Types(Unsent("main"))' = Types(Unsent("main"))
      BY <1>2 DEF Types, Unsent
    <2> QED
      BY <1>0, <1>2, <2>1, <2>2 DEF Over
  <1>3. ASSUME NEW t \in Threads, Send(t) PROVE Over'
    <2>1. PICK s \in Sends : s = Head(outbox[t]) /\ s = outbox[t][1] /\ 1 \in DOMAIN outbox[t]
      BY <1>0, <1>3 DEF Send
    <2>2. /\ s.to \in Machines /\ s.msg \in Message
          /\ queue' = [queue EXCEPT ![s.to] = Append(@, s.msg)]
          /\ outbox' = [outbox EXCEPT ![t] = Tail(@)]
          /\ UNCHANGED <<quit_pressed, state>>
      BY <1>3, <2>1 DEF Send, Sends, driverVars, atmVars
    <2>3. s.to = "atm" => s.msg.type \notin InputTypes
      <3>1. CASE t = "main"
        BY <1>0, <2>1, <3>1 DEF Types, Unsent
      <3>2. CASE t # "main" /\ s.to = "atm"
        <4>1. s.msg.type \in InputTypes => Types(queue'["atm"]) \cap InputTypes # {}
          BY <1>0, <2>2, <3>2, TypesOfQueue, ThreadNames
        <4>2. CASE t = "bank"
          <5>1. PICK msg \in Message :
                   msg.type \in ReplyTypes /\ outbox["bank"] = <<To("atm", msg)>>
            BY <1>3, <4>2 DEF Flow, Outboxes, Send
          <5>2. s.msg = msg
            BY <2>1, <4>2, <5>1 DEF To
          <5> QED
            BY <5>1, <5>2 DEF ReplyTypes, InputTypes, KeySignals
        <4>3. CASE t = "atm"
          <5>1. AtmSends(state, outbox["atm"])
            BY <1>3, <4>3 DEF Flow, Outboxes, Send
          <5>2. s.to # "atm"
            BY <1>0, <2>1, <4>3, <5>1 DEF AtmSends, To, ToInterface
          <5> QED
            BY <3>2, <5>2
        <4>4. t # "interface"
          BY <1>3 DEF Flow, Outboxes, Send
        <4> QED
          BY <3>2, <4>2, <4>3, <4>4, ThreadNames
      <3> QED
        BY <3>1, <3>2
    <2>4. Types(queue'["atm"]) \subseteq Types(queue["atm"]) \cup {s.msg.type}
          /\ (s.to # "atm" => Types(queue'["atm"]) = Types(queue["atm"]))
      BY <1>0, <2>2, TypesOfQueue, ThreadNames
    <2>5. Types(Unsent("main"))' \subseteq Types(Unsent("main"))
      <3>1. CASE t # "main"
        <4>1. outbox'["main"] = outbox["main"]
          BY <1>0, <2>2, <3>1, ThreadNames
        <4> QED
          BY <4>1 DEF Types, Unsent
      <3>2. CASE t = "main"
        <4>1. PICK sends \in Seq(Sends) : sends = outbox["main"] /\ sends # <<>>
          BY <1>0, <1>3, <3>2 DEF Send
        <4>2. outbox'["main"] = Tail(sends)
          BY <1>0, <2>2, <3>2, <4>1
        <4>3. \A i \in DOMAIN Tail(sends) :
                 i + 1 \in DOMAIN sends /\ Tail(sends)[i] = sends[i + 1]
          BY <4>1
        <4>4. /\ Types(Unsent("main")) = {sends[i].msg.type : i \in DOMAIN sends}
              /\ Types(Unsent("main"))'
                    = {Tail(sends)[i].msg.type : i \in DOMAIN Tail(sends)}
          BY <4>1, <4>2 DEF Types, Unsent
        <4> QED
          BY <4>3, <4>4
      <3> QED
        BY <3>1, <3>2
    <2> QED
      BY <1>0, <2>2, <2>3, <2>4, <2>5 DEF Over
  <1>4. ~Keyboard
    BY <1>0 DEF Keyboard, PressDigit, PressKey, Key, PressCancel, PressQuit, KeyPressed
  <1>5. ASSUME NEW t \in Machines, Close(t) PROVE Over'
    BY <1>2, <1>5 DEF Close, driverVars, atmVars
  <1>6. CASE AtmHandler
    <2>1. CASE DoneProcessing
      <3>1. /\ UNCHANGED <<quit_pressed, queue>> /\ state' = "waiting_for_card"
            /\ outbox'["main"] = outbox["main"]
        BY <1>0, <2>1, ThreadNames DEF DoneProcessing, driverVars
      <3> QED
        BY <1>0, <3>1 DEF Over, Types, Unsent
    <2>2. CASE AtmDiscards
      BY <1>2, <2>2, ThreadNames DEF AtmDiscards, driverVars, atmVars
    <2>3. CASE CardInserted
      <3>1. "card_inserted" \in Types(queue["atm"])
        BY <1>0, <2>3, TypesOfQueue, ThreadNames DEF CardInserted, OnMessage, Take, Arrived
      <3> QED
        BY <1>0, <3>1 DEF InputTypes, KeySignals
    <2>4. ASSUME NEW s, NEW type, NEW sends, NEW next, OnMessage(s, type, sends, next)
          PROVE  s \in {"done_processing", "waiting_for_card"}
      BY <1>0, <2>4 DEF OnMessage
    <2>5. CASE CancelPressed
      BY <2>4, <2>5 DEF CancelPressed
    <2>6. CASE DigitPressed
      BY <2>4, <2>6 DEF DigitPressed
    <2> QED
      BY <1>6, <2>1, <2>2, <2>3, <2>4, <2>5, <2>6
         DEF AtmHandler, PinVerified, PinIncorrect, WithdrawPressed, BalancePressed,
             BalanceArrived, WithdrawOk, WithdrawDenied, CancelWithdrawal
  <1>7. CASE BankHandler
    <2>1. ASSUME NEW msg, BankReplies(msg)
          PROVE  UNCHANGED <<quit_pressed, state>> /\ outbox'["main"] = outbox["main"]
      BY <1>0, <2>1, ThreadNames DEF BankReplies, driverVars, atmVars
    <2>2. CASE Debit
      BY <1>1, <2>2 DEF Debit, driverVars, atmVars
    <2>3. CASE BankNotified
      BY <1>2, <2>3, ThreadNames DEF BankNotified, driverVars, atmVars
    <2>4. CASE VerifyPin
      BY <1>2, <2>1, <2>4, ThreadNames DEF VerifyPin
    <2>5. CASE Withdraw
      BY <1>2, <2>1, <2>5, ThreadNames DEF Withdraw
    <2>6. CASE GetBalance
      BY <1>2, <2>1, <2>6, ThreadNames DEF GetBalance
    <2> QED
      BY <1>7, <2>2, <2>3, <2>4, <2>5, <2>6 DEF BankHandler
  <1>8. CASE Display
    BY <1>2, <1>8, ThreadNames DEF Display, driverVars, atmVars
  <1>9. CASE Join \/ UNCHANGED vars
    BY <1>1, <1>9 DEF Join, atmVars, vars
  <1> QED
    BY <1>3, <1>4, <1>5, <1>6, <1>7, <1>8, <1>9, ThreadNames
       DEF Next, Terminated, MainStep, AtmStep, BankStep, InterfaceStep

------------------------------------------------------------------------------
(* One request at a time, and about the PIN of this session *)

\* What the few messages of a handler count.
LEMMA SendsCount ==
  ASSUME NEW T
  PROVE  /\ CountIn(Msgs(<<>>), T) = 0
         /\ \A a \in Sends : CountIn(Msgs(<<a>>), T) = One(a.msg.type \in T)
         /\ \A a, b \in Sends :
               CountIn(Msgs(<<a, b>>), T) = One(a.msg.type \in T) + One(b.msg.type \in T)
  <1>1. CountIn(Msgs(<<>>), T) = 0
    BY MsgsOfSends, CountEmpty
  <1>2. \A a \in Sends : a.msg \in Message
    BY DEF Sends
  <1>3. ASSUME NEW a \in Sends PROVE CountIn(Msgs(<<a>>), T) = One(a.msg.type \in T)
    <2>1. Msgs(<<a>>) = <<a.msg>>
      BY MsgsOfSends
    <2> QED
      BY <1>2, <2>1, CountShort
  <1>4. ASSUME NEW a \in Sends, NEW b \in Sends
        PROVE  CountIn(Msgs(<<a, b>>), T) = One(a.msg.type \in T) + One(b.msg.type \in T)
    <2>1. Msgs(<<a, b>>) = <<a.msg, b.msg>>
      BY MsgsOfSends
    <2> QED
      BY <1>2, <2>1, CountShort
  <1> QED
    BY <1>1, <1>3, <1>4

\* The three exchanges have no message in common with each other or with the keys.
LEMMA Exchanges ==
  /\ Awaiting = {"verifying_pin", "process_balance", "process_withdrawal"}
  /\ Exchange["verifying_pin"] = {"verify_pin", "pin_verified", "pin_incorrect"}
  /\ Exchange["process_balance"] = {"get_balance", "balance"}
  /\ Exchange["process_withdrawal"] = {"withdraw", "withdraw_ok", "withdraw_denied"}
  /\ \A x \in Awaiting :
        Exchange[x] \cap (InputTypes \cup DisplayTypes \cup NoticeTypes \cup {"close_queue"}) = {}
  <1>1. /\ Exchange["verifying_pin"] = {"verify_pin", "pin_verified", "pin_incorrect"}
        /\ Exchange["process_balance"] = {"get_balance", "balance"}
        /\ Exchange["process_withdrawal"] = {"withdraw", "withdraw_ok", "withdraw_denied"}
    BY DEF Exchange
  <1> QED
    BY <1>1 DEF Awaiting, InputTypes, KeySignals, DisplayTypes, NoticeTypes

\* Nothing is asked or answered anew, and the session goes on or ends.
LEMMA KeepPin ==
  ASSUME SessionInv, ~Over, pin' = pin,
         Types(queue'["atm"]) \cup Types(Unsent("bank"))'
            \subseteq Types(queue["atm"]) \cup Types(Unsent("bank")),
         \A i \in DOMAIN queue'["bank"] :
            \E j \in DOMAIN queue["bank"] : queue'["bank"][i] = queue["bank"][j],
         state' \in InSession =>
            state \in InSession \/ "pin_verified" \in Types(queue["atm"])
  PROVE  PinAsked'
  <1> SUFFICES /\ \A i \in DOMAIN queue'["bank"] :
                     queue'["bank"][i].type = "verify_pin" => queue'["bank"][i].pin = pin
               /\ \/ state' \in InSession
                  \/ "pin_verified" \in Types(queue'["atm"]) \cup Types(Unsent("bank"))'
                  => pin = CorrectPin
    BY DEF PinAsked, Types
  <1>1. \A i \in DOMAIN queue["bank"] :
           queue["bank"][i].type = "verify_pin" => queue["bank"][i].pin = pin
    BY DEF SessionInv, PinAsked
  <1>2. \/ state \in InSession
        \/ "pin_verified" \in Types(queue["atm"]) \cup Types(Unsent("bank"))
        => pin = CorrectPin
    BY DEF SessionInv, PinAsked
  <1> QED
    BY <1>1, <1>2

\* A message that is no part of an exchange is taken.
LEMMA TakeOther ==
  ASSUME SessionInv, ~Over, NEW t \in Machines, NEW type, Take(t, type),
         \A x \in Awaiting : type \notin Exchange[x],
         UNCHANGED <<outbox, state, pin>>
  PROVE  OneOfEach' /\ PinAsked'
  <1>1. /\ queue \in [Machines -> Seq(Message)] /\ outbox \in [Threads -> Seq(Sends)]
        /\ queue[t] # <<>> /\ outbox[t] = <<>>
        /\ queue' = [queue EXCEPT ![t] = Tail(@)]
        /\ outbox' = outbox
    BY DEF Take, Arrived, Ready, SessionInv, Flow, IInv, TypeOK
  <1>2. ASSUME NEW x \in Awaiting PROVE InFlight(Exchange[x])' = InFlight(Exchange[x])
    <2>1. <<>> \in Seq(Sends) /\ Posts(t, <<>>)
      BY <1>1, ThreadNames DEF Posts
    <2>2. PICK T : T = Exchange[x]
      OBVIOUS
    <2>3. Flow /\ (t = "interface" => <<>> = <<>>)
      BY DEF SessionInv
    <2>4. /\ InFlight(T)' = InFlight(T) - One(type \in T) + CountIn(Msgs(<<>>), T)
          /\ InFlight(T) \in Nat
      BY <2>1, <2>3, TakeCounts
    <2>5. One(type \in T) = 0 /\ CountIn(Msgs(<<>>), T) = 0
      BY <2>2, SendsCount DEF One
    <2> QED
      BY <2>2, <2>4, <2>5
  <1>3. OneOfEach'
    BY <1>2 DEF OneOfEach, SessionInv
  <1>4. Types(queue'["atm"]) \cup Types(Unsent("bank"))'
            \subseteq Types(queue["atm"]) \cup Types(Unsent("bank"))
    <2>1. Types(queue'["atm"]) \subseteq Types(queue["atm"])
      BY <1>1, TypesOfQueue, ThreadNames
    <2> QED
      BY <1>1, <2>1 DEF Types, Unsent
  <1>5. \A i \in DOMAIN queue'["bank"] :
            \E j \in DOMAIN queue["bank"] : queue'["bank"][i] = queue["bank"][j]
    BY <1>1, ThreadNames, TailElements
  <1> QED
    BY <1>3, <1>4, <1>5, KeepPin

\* A message of this type is part of the exchange state s waits for, or of none.
Expected(type, s) == \A x \in Awaiting : type \in Exchange[x] <=> s = x

\* These sends begin the exchange state s waits for, or none.
Begins(sends, s) ==
    \A x \in Awaiting : CountIn(Msgs(sends), Exchange[x]) = IF s = x THEN 1 ELSE 0

\* A handler of the cash machine sends what its next state waits for.
LEMMA HandlerOneOfEach ==
  ASSUME SessionInv, ~Over, NEW s, NEW type, NEW sends, NEW next,
         OnMessage(s, type, sends, next),
         NEW all \in Seq(Sends), sends \o Entry(next) = all,
         Expected(type, s), Begins(all, next)
  PROVE  OneOfEach'
  <1>1. /\ state = s /\ state' = next /\ Take("atm", type)
        /\ Posts("atm", all)
    BY DEF OnMessage, Posts
  <1>2. ASSUME NEW x \in Awaiting PROVE InFlight(Exchange[x])' = IF next = x THEN 1 ELSE 0
    <2>0. Flow /\ "atm" \in Machines
      BY ThreadNames DEF SessionInv
    <2>1. /\ InFlight(Exchange[x])' = InFlight(Exchange[x]) - One(type \in Exchange[x])
                                        + CountIn(Msgs(all), Exchange[x])
          /\ InFlight(Exchange[x]) \in Nat
      BY <1>1, <2>0, TakeCounts
    <2>2. InFlight(Exchange[x]) = IF s = x THEN 1 ELSE 0
      BY <1>1 DEF SessionInv, OneOfEach
    <2>3. One(type \in Exchange[x]) = IF s = x THEN 1 ELSE 0
      BY DEF One, Expected
    <2>4. CountIn(Msgs(all), Exchange[x]) = IF next = x THEN 1 ELSE 0
      BY DEF Begins
    <2> QED
      BY <2>1, <2>2, <2>3, <2>4
  <1> QED
    BY <1>1, <1>2 DEF OneOfEach

\* No PIN is asked or answered about while none has been typed.
LEMMA NoPinAsked ==
  ASSUME SessionInv, ~Over, state # "verifying_pin"
  PROVE  /\ "verify_pin" \notin Types(queue["bank"])
         /\ "pin_verified" \notin Types(queue["atm"]) \cup Types(Unsent("bank"))
  <1>1. PICK T : T = Exchange["verifying_pin"]
    OBVIOUS
  <1>2. InFlight(T) = 0
    BY <1>1, Exchanges DEF SessionInv, OneOfEach
  <1>3. /\ CountIn(queue["atm"], T) = 0 /\ CountIn(queue["bank"], T) = 0
        /\ CountIn(Unsent("bank"), T) = 0
    <2>1. CountIn(queue["atm"], T) + CountIn(queue["bank"], T) + CountIn(queue["interface"], T)
            + CountIn(Unsent("atm"), T) + CountIn(Unsent("bank"), T) = 0
      BY <1>2 DEF InFlight
    <2>2. /\ CountIn(queue["atm"], T) \in Nat /\ CountIn(queue["bank"], T) \in Nat
          /\ CountIn(queue["interface"], T) \in Nat
          /\ CountIn(Unsent("atm"), T) \in Nat /\ CountIn(Unsent("bank"), T) \in Nat
      <3>1. Flow
        BY DEF SessionInv
      <3>2. /\ \A m \in Machines : CountIn(queue[m], T) \in Nat
            /\ \A t \in Threads : CountIn(Unsent(t), T) \in Nat
        BY <3>1, CountTypes
      <3> QED
        BY <3>2, ThreadNames
    <2>3. PICK a \in Nat, b \in Nat, x \in Nat, y \in Nat, z \in Nat :
             /\ a = CountIn(queue["atm"], T) /\ b = CountIn(queue["bank"], T)
             /\ x = CountIn(queue["interface"], T)
             /\ y = CountIn(Unsent("atm"), T) /\ z = CountIn(Unsent("bank"), T)
      BY <2>2
    <2>4. a + b + x + y + z = 0
      BY <2>1, <2>3
    <2>5. a = 0 /\ b = 0 /\ z = 0
      BY <2>4
    <2> QED
      BY <2>3, <2>5
  <1>4. /\ queue["atm"] \in Seq(Message) /\ queue["bank"] \in Seq(Message)
        /\ Unsent("bank") \in Seq(Message)
    BY CountTypes, ThreadNames DEF SessionInv, Flow, IInv, TypeOK
  <1>5. /\ Types(queue["atm"]) \cap T = {} /\ Types(queue["bank"]) \cap T = {}
        /\ Types(Unsent("bank")) \cap T = {}
    BY <1>3, <1>4, CountFinite
  <1> QED
    BY <1>1, <1>5, Exchanges

\* ... so that the PIN may change then.
LEMMA NewPin ==
  ASSUME SessionInv, ~Over, state # "verifying_pin", state' \notin InSession,
         Types(queue'["atm"]) \subseteq Types(queue["atm"]),
         outbox'["bank"] = outbox["bank"], queue'["bank"] = queue["bank"]
  PROVE  PinAsked'
  <1>1. Types(Unsent("bank"))' = Types(Unsent("bank"))
    BY DEF Types, Unsent
  <1>2. "verify_pin" \notin Types(queue'["bank"])
    BY NoPinAsked
  <1>3. "pin_verified" \notin Types(queue'["atm"]) \cup Types(Unsent("bank"))'
    BY <1>1, NoPinAsked
  <1> QED
    BY <1>2, <1>3 DEF PinAsked, Types

\* What a handler of the cash machine leaves alone.
LEMMA HandlerQueues ==
  ASSUME Flow, NEW s, NEW type, NEW sends, NEW next, OnMessage(s, type, sends, next)
  PROVE  /\ Types(queue'["atm"]) \cup Types(Unsent("bank"))'
              \subseteq Types(queue["atm"]) \cup Types(Unsent("bank"))
         /\ Types(queue'["atm"]) \subseteq Types(queue["atm"])
         /\ type \in Types(queue["atm"])
         /\ outbox'["bank"] = outbox["bank"] /\ queue'["bank"] = queue["bank"]
         /\ state = s /\ state' = next
         /\ \A i \in DOMAIN queue'["bank"] :
               \E j \in DOMAIN queue["bank"] : queue'["bank"][i] = queue["bank"][j]
  <1>1. /\ queue \in [Machines -> Seq(Message)] /\ outbox \in [Threads -> Seq(Sends)]
        /\ queue["atm"] # <<>> /\ Head(queue["atm"]).type = type
        /\ queue' = [queue EXCEPT !["atm"] = Tail(@)]
        /\ outbox' = [outbox EXCEPT !["atm"] = sends \o Entry(next)]
        /\ state = s /\ state' = next
    BY DEF OnMessage, Take, Arrived, Flow, IInv, TypeOK
  <1>2. outbox'["bank"] = outbox["bank"] /\ queue'["bank"] = queue["bank"]
    BY <1>1, ThreadNames
  <1>3. Types(queue'["atm"]) \subseteq Types(queue["atm"]) /\ type \in Types(queue["atm"])
    BY <1>1, TypesOfQueue, ThreadNames
  <1>4. Types(Unsent("bank"))' = Types(Unsent("bank"))
    BY <1>2 DEF Types, Unsent
  <1> QED
    BY <1>1, <1>2, <1>3, <1>4

\* A handler that leaves the PIN alone, and starts no session but after pin_verified.
LEMMA HandlerPin ==
  ASSUME SessionInv, ~Over, NEW s, NEW type, NEW sends, NEW next,
         OnMessage(s, type, sends, next), pin' = pin,
         next \in InSession => s \in InSession \/ type = "pin_verified"
  PROVE  PinAsked'
  <1>1. Flow
    BY DEF SessionInv
  <1>2. state' \in InSession => state \in InSession \/ "pin_verified" \in Types(queue["atm"])
    BY <1>1, HandlerQueues
  <1>3. /\ Types(queue'["atm"]) \cup Types(Unsent("bank"))'
              \subseteq Types(queue["atm"]) \cup Types(Unsent("bank"))
        /\ \A i \in DOMAIN queue'["bank"] :
               \E j \in DOMAIN queue["bank"] : queue'["bank"][i] = queue["bank"][j]
    BY <1>1, HandlerQueues
  <1> QED
    BY <1>2, <1>3, KeepPin

\* A cancelled session is the last one.
LEMMA CancelEnds ==
  ASSUME Flow, NEW s, NEW sends,
         OnMessage(s, "cancel_pressed", sends, "done_processing")
  PROVE  Over'
  <1>1. /\ queue \in [Machines -> Seq(Message)] /\ outbox \in [Threads -> Seq(Sends)]
        /\ queue["atm"] # <<>> /\ Head(queue["atm"]).type = "cancel_pressed"
        /\ queue' = [queue EXCEPT !["atm"] = Tail(@)]
        /\ outbox' = [outbox EXCEPT !["atm"] = sends \o Entry("done_processing")]
        /\ state' = "done_processing" /\ quit_pressed' = quit_pressed
    BY DEF OnMessage, Take, Arrived, Flow, IInv, TypeOK, driverVars
  <1>2. PICK q \in Seq(Message) : q = queue["atm"] /\ q # <<>>
    BY <1>1, ThreadNames
  <1>3. 1 \in DOMAIN q /\ q[1].type = "cancel_pressed" /\ queue'["atm"] = Tail(q)
    BY <1>1, <1>2, ThreadNames
  <1>4. quit_pressed
    BY <1>2, <1>3, ThreadNames DEF Flow, Queues, Types
  <1>5. /\ Types(Unsent("main")) \cap InputTypes = {}
        /\ \A j \in DOMAIN q : j > 1 => q[j].type \notin InputTypes
    BY <1>2, <1>3 DEF Flow, CancelLast
  <1>6. \A i \in DOMAIN Tail(q) : Tail(q)[i].type \notin InputTypes
    <2>1. \A i \in DOMAIN Tail(q) : i + 1 \in DOMAIN q /\ i + 1 > 1 /\ Tail(q)[i] = q[i + 1]
      BY <1>2
    <2> QED
      BY <1>5, <2>1
  <1>7. Types(Unsent("main"))' = Types(Unsent("main"))
    <2>1. outbox'["main"] = outbox["main"]
      BY <1>1, ThreadNames
    <2> QED
      BY <2>1 DEF Types, Unsent
  <1>8. Types(queue'["atm"]) \cap InputTypes = {}
    BY <1>3, <1>6 DEF Types
  <1> QED
    BY <1>1, <1>4, <1>5, <1>7, <1>8 DEF Over

\* Which message is part of which exchange.
LEMMA PartOf ==
  \A type : \A x \in Awaiting :
     type \in Exchange[x] <=>
        \/ x = "verifying_pin" /\ type \in {"verify_pin", "pin_verified", "pin_incorrect"}
        \/ x = "process_balance" /\ type \in {"get_balance", "balance"}
        \/ x = "process_withdrawal" /\ type \in {"withdraw", "withdraw_ok", "withdraw_denied"}
  BY Exchanges

\* What is sent on the way to a state is what that state waits for: nothing, ...
LEMMA NoSend ==
  ASSUME NEW next, next \notin Awaiting
  PROVE  Begins(<<>>, next)
  BY SendsCount DEF One, Begins

\* ... one message, ...
LEMMA OneSend ==
  ASSUME NEW next, NEW a \in Sends, Expected(a.msg.type, next)
  PROVE  Begins(<<a>>, next)
  <1>1. ASSUME NEW x \in Awaiting
        PROVE  CountIn(Msgs(<<a>>), Exchange[x]) = IF next = x THEN 1 ELSE 0
    <2>1. CountIn(Msgs(<<a>>), Exchange[x]) = One(a.msg.type \in Exchange[x])
      BY SendsCount
    <2> QED
      BY <2>1 DEF One, Expected
  <1> QED
    BY <1>1 DEF Begins

\* ... or two that are no part of an exchange.
LEMMA TwoSends ==
  ASSUME NEW next, next \notin Awaiting, NEW a \in Sends, NEW b \in Sends,
         \A x \in Awaiting : a.msg.type \notin Exchange[x] /\ b.msg.type \notin Exchange[x]
  PROVE  Begins(<<a, b>>, next)
  <1>1. ASSUME NEW x \in Awaiting
        PROVE  CountIn(Msgs(<<a, b>>), Exchange[x]) = IF next = x THEN 1 ELSE 0
    <2>1. CountIn(Msgs(<<a, b>>), Exchange[x])
            = One(a.msg.type \in Exchange[x]) + One(b.msg.type \in Exchange[x])
      BY SendsCount
    <2> QED
      BY <2>1 DEF One, Expected
  <1> QED
    BY <1>1 DEF Begins

\* Nothing that is asked or answered is dropped.
LEMMA NoneDiscarded ==
  ASSUME SessionInv, ~Over, NEW type \in (InputTypes \cup ReplyTypes) \ Handled[state],
         Take("atm", type), UNCHANGED outbox
  PROVE  \A x \in Awaiting : type \notin Exchange[x]
  <1> SUFFICES ASSUME NEW x \in Awaiting, type \in Exchange[x] PROVE FALSE
    OBVIOUS
  <1>0. Flow
    BY DEF SessionInv
  <1>1. /\ queue \in [Machines -> Seq(Message)] /\ outbox \in [Threads -> Seq(Sends)]
        /\ outbox["atm"] = <<>>
    BY <1>0 DEF Take, Arrived, Ready, Flow, IInv, TypeOK
  <1>2. <<>> \in Seq(Sends) /\ Posts("atm", <<>>)
    BY <1>1, ThreadNames DEF Posts
  <1>3. InFlight(Exchange[x]) > 0 /\ InFlight(Exchange[x]) \in Nat
    BY <1>0, <1>2, TakeCounts, ThreadNames
  <1>4. state = x
    BY <1>3 DEF SessionInv, OneOfEach
  <1>5. Exchange[x] \cap ReplyTypes \subseteq Handled[x]
    BY Exchanges DEF ReplyTypes, Handled
  <1>6. type \notin InputTypes
    BY Exchanges
  <1> QED
    BY <1>4, <1>5, <1>6

\* The cash machine's handlers keep one request or answer under way, and the
\* PIN of the session the one the bank is asked about.
LEMMA AtmHandlerSession ==
  ASSUME SessionInv, ~Over, ~Over', AtmHandler
  PROVE  OneOfEach' /\ PinAsked'
  <1>0. Flow
    BY DEF SessionInv
  <1>1. /\ \A type \in DisplayTypes \cup NoticeTypes \cup InputTypes, x \in Awaiting :
              type \notin Exchange[x]
        /\ \A type \in DisplayTypes \ {"display_balance"} :
              ToInterface(type) \in Sends /\ ToInterface(type).msg.type = type
        /\ \A type \in NoticeTypes : To("bank", Signal(type)) \in Sends
                                     /\ To("bank", Signal(type)).msg.type = type
    BY Exchanges, SignalSends, ThreadNames DEF NoticeTypes, ToInterface, To, Signal
  <1>2. CASE CardInserted
    <2>1. PICK a \in Sends : a = ToInterface("display_enter_pin")
                               /\ a.msg.type = "display_enter_pin"
      BY <1>1 DEF DisplayTypes
    <2>2. OnMessage("waiting_for_card", "card_inserted", <<a>>, "getting_pin")
      BY <1>2, <2>1 DEF CardInserted
    <2>3. <<a>> \in Seq(Sends) /\ <<a>> \o Entry("getting_pin") = <<a>>
      <3>1. <<a>> \in Seq(Sends)
        OBVIOUS
      <3> QED
        BY <3>1, SendsOfHandlers
    <2>4. Begins(<<a>>, "getting_pin")
      <3>1. Expected(a.msg.type, "getting_pin")
        BY <2>1, PartOf DEF Awaiting, Expected
      <3> QED
        BY <3>1, OneSend
    <2>5. Expected("card_inserted", "waiting_for_card")
      BY PartOf DEF Awaiting, Expected
    <2>6. OneOfEach'
      BY <2>2, <2>3, <2>4, <2>5, HandlerOneOfEach
    <2>7. PinAsked'
      BY <1>0, <2>2, HandlerQueues, NewPin DEF InSession
    <2> QED
      BY <2>6, <2>7
  <1>3. CASE DigitPressed
    <2>1. CASE Len(pin') = PinLength
      <3>1. PICK a \in Sends : a = To("bank", verify_pin(pin')) /\ a.msg.type = "verify_pin"
        <4>1. pin' \in Pins
          BY <1>0, AtmHandlerFlow DEF Flow, IInv, TypeOK
        <4>2. To("bank", verify_pin(pin')) \in Sends
          BY <4>1 DEF To, Sends, Machines, Message
        <4> QED
          BY <4>2 DEF To, verify_pin
      <3>2. OnMessage("getting_pin", "digit_pressed", <<a>>, "verifying_pin")
        BY <1>3, <2>1, <3>1 DEF DigitPressed
      <3>3. <<a>> \in Seq(Sends) /\ <<a>> \o Entry("verifying_pin") = <<a>>
        <4>1. <<a>> \in Seq(Sends)
          OBVIOUS
        <4> QED
          BY <4>1, SendsOfHandlers
      <3>4. Expected(a.msg.type, "verifying_pin")
        BY <3>1, PartOf DEF Awaiting, Expected
      <3>5. Begins(<<a>>, "verifying_pin")
        BY <3>4, OneSend
      <3>6. Expected("digit_pressed", "getting_pin")
        BY PartOf DEF Awaiting, Expected
      <3>7. OneOfEach'
        BY <3>2, <3>3, <3>5, <3>6, HandlerOneOfEach
      <3>8. PinAsked'
        BY <1>0, <3>2, HandlerQueues, NewPin DEF InSession
      <3> QED
        BY <3>7, <3>8
    <2>2. CASE Len(pin') # PinLength
      <3>1. OnMessage("getting_pin", "digit_pressed", <<>>, "getting_pin")
        BY <1>3, <2>2 DEF DigitPressed
      <3>2. <<>> \in Seq(Sends) /\ <<>> \o Entry("getting_pin") = <<>>
        <4>1. <<>> \in Seq(Sends)
          OBVIOUS
        <4> QED
          BY <4>1, SendsOfHandlers
      <3>3. Begins(<<>>, "getting_pin")
        BY NoSend DEF Awaiting
      <3>4. Expected("digit_pressed", "getting_pin")
        BY PartOf DEF Awaiting, Expected
      <3>5. OneOfEach'
        BY <3>1, <3>2, <3>3, <3>4, HandlerOneOfEach
      <3>6. PinAsked'
        BY <1>0, <3>1, HandlerQueues, NewPin DEF InSession
      <3> QED
        BY <3>5, <3>6
    <2> QED
      BY <2>1, <2>2
  <1>4. CASE PinVerified
    <2>1. PICK a \in Sends : a = ToInterface("display_withdrawal_options")
                               /\ a.msg.type = "display_withdrawal_options"
      BY <1>1 DEF DisplayTypes
    <2>2. OnMessage("verifying_pin", "pin_verified", <<>>, "wait_for_action") /\ pin' = pin
      BY <1>4 DEF PinVerified
    <2>3. <<a>> \in Seq(Sends) /\ <<>> \o Entry("wait_for_action") = <<a>>
      <3>1. <<a>> \in Seq(Sends)
        OBVIOUS
      <3> QED
        BY <3>1, <2>1, SendsOfHandlers
    <2>4. Begins(<<a>>, "wait_for_action")
      <3>1. Expected(a.msg.type, "wait_for_action")
        BY <2>1, PartOf DEF Awaiting, Expected
      <3> QED
        BY <3>1, OneSend
    <2>5. Expected("pin_verified", "verifying_pin")
      BY PartOf DEF Awaiting, Expected
    <2>6. OneOfEach'
      BY <2>2, <2>3, <2>4, <2>5, HandlerOneOfEach
    <2> QED
      BY <2>2, <2>6, HandlerPin
  <1>5. CASE PinIncorrect
    <2>1. PICK a \in Sends : a = ToInterface("display_pin_incorrect_message")
                               /\ a.msg.type = "display_pin_incorrect_message"
      BY <1>1 DEF DisplayTypes
    <2>2. OnMessage("verifying_pin", "pin_incorrect", <<a>>, "done_processing") /\ pin' = pin
      BY <1>5, <2>1 DEF PinIncorrect
    <2>3. <<a>> \in Seq(Sends) /\ <<a>> \o Entry("done_processing") = <<a>>
      <3>1. <<a>> \in Seq(Sends)
        OBVIOUS
      <3> QED
        BY <3>1, SendsOfHandlers
    <2>4. Begins(<<a>>, "done_processing")
      <3>1. Expected(a.msg.type, "done_processing")
        BY <2>1, PartOf DEF Awaiting, Expected
      <3> QED
        BY <3>1, OneSend
    <2>5. Expected("pin_incorrect", "verifying_pin")
      BY PartOf DEF Awaiting, Expected
    <2>6. OneOfEach'
      BY <2>2, <2>3, <2>4, <2>5, HandlerOneOfEach
    <2> QED
      BY <2>2, <2>6, HandlerPin DEF InSession
  <1>6. CASE WithdrawPressed
    <2>1. PICK a \in Sends : a = To("bank", Signal("withdraw")) /\ a.msg.type = "withdraw"
      BY SignalSends, ThreadNames DEF To, Signal
    <2>2. OnMessage("wait_for_action", "withdraw_pressed", <<a>>, "process_withdrawal")
          /\ pin' = pin
      BY <1>6, <2>1 DEF WithdrawPressed
    <2>3. <<a>> \in Seq(Sends) /\ <<a>> \o Entry("process_withdrawal") = <<a>>
      <3>1. <<a>> \in Seq(Sends)
        OBVIOUS
      <3> QED
        BY <3>1, SendsOfHandlers
    <2>4. Expected(a.msg.type, "process_withdrawal")
      BY <2>1, PartOf DEF Awaiting, Expected
    <2>5. Begins(<<a>>, "process_withdrawal")
      BY <2>4, OneSend
    <2>6. Expected("withdraw_pressed", "wait_for_action")
      BY PartOf DEF Awaiting, Expected
    <2>7. OneOfEach'
      BY <2>2, <2>3, <2>5, <2>6, HandlerOneOfEach
    <2> QED
      BY <2>2, <2>7, HandlerPin DEF InSession
  <1>7. CASE BalancePressed
    <2>1. PICK a \in Sends : a = To("bank", Signal("get_balance")) /\ a.msg.type = "get_balance"
      BY SignalSends, ThreadNames DEF To, Signal
    <2>2. OnMessage("wait_for_action", "balance_pressed", <<a>>, "process_balance")
          /\ pin' = pin
      BY <1>7, <2>1 DEF BalancePressed
    <2>3. <<a>> \in Seq(Sends) /\ <<a>> \o Entry("process_balance") = <<a>>
      <3>1. <<a>> \in Seq(Sends)
        OBVIOUS
      <3> QED
        BY <3>1, SendsOfHandlers
    <2>4. Expected(a.msg.type, "process_balance")
      BY <2>1, PartOf DEF Awaiting, Expected
    <2>5. Begins(<<a>>, "process_balance")
      BY <2>4, OneSend
    <2>6. Expected("balance_pressed", "wait_for_action")
      BY PartOf DEF Awaiting, Expected
    <2>7. OneOfEach'
      BY <2>2, <2>3, <2>5, <2>6, HandlerOneOfEach
    <2> QED
      BY <2>2, <2>7, HandlerPin DEF InSession
  <1>8. CASE BalanceArrived
    <2>1. PICK n : n = Head(queue["atm"]).amount
      OBVIOUS
    <2>2. OnMessage("process_balance", "balance",
                    <<To("interface", display_balance(n))>>, "wait_for_action") /\ pin' = pin
      BY <1>8, <2>1 DEF BalanceArrived
    <2>3. n \in 0..InitialBalance
      BY <1>0, <2>1, <2>2, Taken, MessageFields, ThreadNames DEF OnMessage, Flow, IInv
    <2>4. PICK a \in Sends : a = To("interface", display_balance(n))
                               /\ a.msg.type = "display_balance"
      <3>1. To("interface", display_balance(n)) \in Sends
        BY <2>3 DEF To, Sends, Message, Machines
      <3> QED
        BY <3>1 DEF To, display_balance
    <2>5. PICK b \in Sends : b = ToInterface("display_withdrawal_options")
                               /\ b.msg.type = "display_withdrawal_options"
      BY <1>1 DEF DisplayTypes
    <2>6. <<a, b>> \in Seq(Sends) /\ <<a>> \o Entry("wait_for_action") = <<a, b>>
      <3>1. <<a, b>> \in Seq(Sends)
        OBVIOUS
      <3> QED
        BY <3>1, <2>3, <2>4, <2>5, SendsOfHandlers
    <2>7. Begins(<<a, b>>, "wait_for_action")
      <3>1. "wait_for_action" \notin Awaiting
        BY Exchanges
      <3>2. \A x \in Awaiting : a.msg.type \notin Exchange[x] /\ b.msg.type \notin Exchange[x]
        BY <1>1, <2>4, <2>5 DEF DisplayTypes
      <3> QED
        BY <3>1, <3>2, TwoSends
    <2>8. Expected("balance", "process_balance")
      BY PartOf DEF Awaiting, Expected
    <2>9. OneOfEach'
      BY <2>2, <2>4, <2>6, <2>7, <2>8, HandlerOneOfEach
    <2> QED
      BY <2>2, <2>9, HandlerPin DEF InSession
  <1>9. CASE WithdrawOk
    <2>1. PICK a \in Sends : a = ToInterface("issue_money") /\ a.msg.type = "issue_money"
      BY <1>1 DEF DisplayTypes
    <2>2. PICK b \in Sends : b = To("bank", Signal("withdrawal_processed"))
                               /\ b.msg.type = "withdrawal_processed"
      BY <1>1 DEF NoticeTypes
    <2>3. OnMessage("process_withdrawal", "withdraw_ok", <<a, b>>, "done_processing")
          /\ pin' = pin
      BY <1>9, <2>1, <2>2 DEF WithdrawOk
    <2>4. <<a, b>> \in Seq(Sends) /\ <<a, b>> \o Entry("done_processing") = <<a, b>>
      <3>1. <<a, b>> \in Seq(Sends)
        OBVIOUS
      <3> QED
        BY <3>1, SendsOfHandlers
    <2>5. Begins(<<a, b>>, "done_processing")
      <3>1. "done_processing" \notin Awaiting
        BY Exchanges
      <3>2. \A x \in Awaiting : a.msg.type \notin Exchange[x] /\ b.msg.type \notin Exchange[x]
        BY <1>1, <2>1, <2>2 DEF DisplayTypes, NoticeTypes
      <3> QED
        BY <3>1, <3>2, TwoSends
    <2>6. Expected("withdraw_ok", "process_withdrawal")
      BY PartOf DEF Awaiting, Expected
    <2>7. OneOfEach'
      BY <2>3, <2>4, <2>5, <2>6, HandlerOneOfEach
    <2> QED
      BY <2>3, <2>7, HandlerPin DEF InSession
  <1>10. CASE WithdrawDenied
    <2>1. PICK a \in Sends : a = ToInterface("display_insufficient_funds")
                               /\ a.msg.type = "display_insufficient_funds"
      BY <1>1 DEF DisplayTypes
    <2>2. OnMessage("process_withdrawal", "withdraw_denied", <<a>>, "done_processing")
          /\ pin' = pin
      BY <1>10, <2>1 DEF WithdrawDenied
    <2>3. <<a>> \in Seq(Sends) /\ <<a>> \o Entry("done_processing") = <<a>>
      <3>1. <<a>> \in Seq(Sends)
        OBVIOUS
      <3> QED
        BY <3>1, SendsOfHandlers
    <2>4. Begins(<<a>>, "done_processing")
      <3>1. Expected(a.msg.type, "done_processing")
        BY <2>1, PartOf DEF Awaiting, Expected
      <3> QED
        BY <3>1, OneSend
    <2>5. Expected("withdraw_denied", "process_withdrawal")
      BY PartOf DEF Awaiting, Expected
    <2>6. OneOfEach'
      BY <2>2, <2>3, <2>4, <2>5, HandlerOneOfEach
    <2> QED
      BY <2>2, <2>6, HandlerPin DEF InSession
  <1>11. CASE CancelWithdrawal
    BY <1>0, <1>11, CancelEnds DEF CancelWithdrawal
  <1>12. CASE CancelPressed
    BY <1>0, <1>12, CancelEnds DEF CancelPressed
  <1>13. CASE AtmDiscards
    <2>1. PICK type \in (InputTypes \cup ReplyTypes) \ Handled[state] : Take("atm", type)
      BY <1>13 DEF AtmDiscards
    <2>2. UNCHANGED <<outbox, state, pin>>
      BY <1>13 DEF AtmDiscards, atmVars
    <2>3. \A x \in Awaiting : type \notin Exchange[x]
      BY <1>13, <2>1, NoneDiscarded DEF AtmDiscards
    <2> QED
      BY <2>1, <2>2, <2>3, TakeOther, ThreadNames
  <1>14. CASE DoneProcessing
    <2>1. PICK a \in Sends : a = ToInterface("eject_card") /\ a.msg.type = "eject_card"
      BY <1>1 DEF DisplayTypes
    <2>2. PICK b \in Sends : b = ToInterface("display_enter_card")
                               /\ b.msg.type = "display_enter_card"
      BY <1>1 DEF DisplayTypes
    <2>3. <<a, b>> \in Seq(Sends) /\ <<a>> \o Entry("waiting_for_card") = <<a, b>>
      <3>1. <<a, b>> \in Seq(Sends)
        OBVIOUS
      <3> QED
        BY <3>1, <2>1, <2>2, SendsOfHandlers
    <2>4. /\ outbox["atm"] = <<>> /\ outbox' = [outbox EXCEPT !["atm"] = <<a, b>>]
          /\ UNCHANGED <<queue, pin>>
          /\ state = "done_processing" /\ state' = "waiting_for_card"
      BY <1>14, <2>1, <2>3 DEF DoneProcessing, Ready
    <2>5. ASSUME NEW x \in Awaiting PROVE InFlight(Exchange[x])' = 0
      <3>1. InFlight(Exchange[x])' = InFlight(Exchange[x]) + CountIn(Msgs(<<a, b>>), Exchange[x])
        BY <1>0, <2>3, <2>4, PostCounts
      <3>2. InFlight(Exchange[x]) = 0
        BY <2>4, Exchanges DEF SessionInv, OneOfEach
      <3>3. CountIn(Msgs(<<a, b>>), Exchange[x]) = 0
        <4>1. "waiting_for_card" \notin Awaiting
          BY DEF Awaiting
        <4>2. \A y \in Awaiting : a.msg.type \notin Exchange[y] /\ b.msg.type \notin Exchange[y]
          BY <1>1, <2>1, <2>2 DEF DisplayTypes
        <4>3. Begins(<<a, b>>, "waiting_for_card")
          BY <4>1, <4>2, TwoSends
        <4> QED
          BY <4>1, <4>3 DEF Begins
      <3> QED
        BY <3>1, <3>2, <3>3
    <2>6. OneOfEach'
      BY <2>4, <2>5, Exchanges DEF OneOfEach
    <2>7. outbox'["bank"] = outbox["bank"]
      BY <1>0, <2>4, ThreadNames DEF Flow, IInv, TypeOK
    <2>8. PinAsked'
      BY <2>4, <2>7, NewPin DEF InSession
    <2> QED
      BY <2>6, <2>8
  <1> QED
    BY <1>2, <1>3, <1>4, <1>5, <1>6, <1>7, <1>8, <1>9, <1>10, <1>11, <1>12, <1>13, <1>14
       DEF AtmHandler

\* The bank answers in the exchange of the request it takes.
LEMMA AnswerOneOfEach ==
  ASSUME SessionInv, ~Over, NEW type, Take("bank", type), NEW msg \in Message,
         BankReplies(msg), NEW s \in Awaiting, Expected(type, s), Expected(msg.type, s)
  PROVE  OneOfEach'
  <1>1. Flow /\ state' = state
    BY DEF SessionInv, BankReplies, atmVars
  <1>2. PICK a \in Sends : a = To("atm", msg) /\ a.msg = msg
    <2>1. To("atm", msg) \in Sends /\ To("atm", msg).msg = msg
      BY ThreadNames DEF To, Sends
    <2> QED
      BY <2>1
  <1>3. <<a>> \in Seq(Sends) /\ Posts("bank", <<a>>)
    <2>1. <<a>> \in Seq(Sends)
      OBVIOUS
    <2> QED
      BY <1>2, <2>1 DEF BankReplies, Posts
  <1>4. ASSUME NEW x \in Awaiting PROVE InFlight(Exchange[x])' = InFlight(Exchange[x])
    <2>1. /\ InFlight(Exchange[x])' = InFlight(Exchange[x]) - One(type \in Exchange[x])
                                        + CountIn(Msgs(<<a>>), Exchange[x])
          /\ InFlight(Exchange[x]) \in Nat
      <3>1. "bank" \in Machines /\ "bank" # "interface"
        BY ThreadNames
      <3> QED
        BY <1>1, <1>3, <3>1, TakeCounts
    <2>2. CountIn(Msgs(<<a>>), Exchange[x]) = One(a.msg.type \in Exchange[x])
      BY SendsCount
    <2>3. CountIn(Msgs(<<a>>), Exchange[x]) = IF s = x THEN 1 ELSE 0
      BY <1>2, <2>2 DEF One, Expected
    <2>4. One(type \in Exchange[x]) = IF s = x THEN 1 ELSE 0
      BY DEF One, Expected
    <2> QED
      BY <2>1, <2>3, <2>4
  <1> QED
    BY <1>1, <1>4 DEF SessionInv, OneOfEach

\* What the bank changes when it answers.
LEMMA AnswerQueues ==
  ASSUME Flow, NEW type, Take("bank", type), NEW msg \in Message, BankReplies(msg)
  PROVE  /\ queue'["atm"] = queue["atm"]
         /\ Types(Unsent("bank"))' = {msg.type} /\ Types(Unsent("bank")) = {}
         /\ \A i \in DOMAIN queue'["bank"] :
               \E j \in DOMAIN queue["bank"] : queue'["bank"][i] = queue["bank"][j]
         /\ \E j \in DOMAIN queue["bank"] :
               Head(queue["bank"]) = queue["bank"][j] /\ queue["bank"][j].type = type
         /\ UNCHANGED <<state, pin, quit_pressed, issued, balance>>
  <1>1. /\ queue \in [Machines -> Seq(Message)] /\ outbox \in [Threads -> Seq(Sends)]
        /\ queue["bank"] # <<>> /\ Head(queue["bank"]).type = type /\ outbox["bank"] = <<>>
        /\ queue' = [queue EXCEPT !["bank"] = Tail(@)]
        /\ outbox' = [outbox EXCEPT !["bank"] = <<To("atm", msg)>>]
    BY DEF Take, Arrived, Ready, BankReplies, Flow, IInv, TypeOK
  <1>2. /\ queue'["atm"] = queue["atm"] /\ queue'["bank"] = Tail(queue["bank"])
        /\ outbox'["bank"] = <<To("atm", msg)>>
    BY <1>1, ThreadNames
  <1>3. Types(Unsent("bank"))' = {msg.type} /\ Types(Unsent("bank")) = {}
    <2>1. Unsent("bank") = Msgs(<<>>) /\ Unsent("bank")' = Msgs(<<To("atm", msg)>>)
      BY <1>1, <1>2 DEF Unsent, Msgs
    <2>2. Unsent("bank") = <<>> /\ Unsent("bank")' = <<msg>>
      BY <2>1, MsgsOfSends DEF To
    <2>3. Types(<<msg>>) = {msg.type} /\ Types(<<>>) = {}
      BY DEF Types
    <2>4. Types(Unsent("bank"))' = Types(<<msg>>)
      BY <2>2 DEF Types
    <2> QED
      BY <2>2, <2>3, <2>4
  <1>4. PICK q \in Seq(Message) : q = queue["bank"] /\ q # <<>>
    BY <1>1, ThreadNames
  <1>5. /\ \A i \in DOMAIN Tail(q) : \E j \in DOMAIN q : Tail(q)[i] = q[j]
        /\ 1 \in DOMAIN q /\ Head(q) = q[1]
    BY <1>4, TailElements
  <1>6. UNCHANGED <<state, pin, quit_pressed, issued, balance>>
    BY DEF BankReplies, atmVars, driverVars, interfaceVars
  <1> QED
    BY <1>1, <1>2, <1>3, <1>4, <1>5, <1>6

\* Only pin_verified tells the cash machine anything about a PIN.
LEMMA AnswerPin ==
  ASSUME SessionInv, ~Over, NEW type, Take("bank", type), NEW msg \in Message,
         BankReplies(msg), msg.type = "pin_verified" => pin = CorrectPin
  PROVE  PinAsked'
  <1>1. /\ Types(queue'["atm"]) \cup Types(Unsent("bank"))'
             \subseteq Types(queue["atm"]) \cup {msg.type}
        /\ \A i \in DOMAIN queue'["bank"] :
             \E j \in DOMAIN queue["bank"] : queue'["bank"][i] = queue["bank"][j]
        /\ UNCHANGED <<state, pin>>
    <2>1. Flow
      BY DEF SessionInv
    <2> QED
      BY <2>1, AnswerQueues
  <1>2. /\ \A i \in DOMAIN queue["bank"] :
              queue["bank"][i].type = "verify_pin" => queue["bank"][i].pin = pin
        /\ state \in InSession \/ "pin_verified" \in Types(queue["atm"]) => pin = CorrectPin
    BY DEF SessionInv, PinAsked
  <1>3. \A i \in DOMAIN queue'["bank"] :
           queue'["bank"][i].type = "verify_pin" => queue'["bank"][i].pin = pin
    BY <1>1, <1>2
  <1>4. \/ state \in InSession
        \/ "pin_verified" \in Types(queue'["atm"]) \cup Types(Unsent("bank"))'
        => pin = CorrectPin
    BY <1>1, <1>2
  <1> QED
    BY <1>1, <1>3, <1>4 DEF PinAsked, Types

\* The bank's handlers keep one request or answer under way, about this session's PIN.
LEMMA BankHandlerSession ==
  ASSUME SessionInv, ~Over, BankHandler
  PROVE  OneOfEach' /\ PinAsked'
  <1>0. Flow
    BY DEF SessionInv
  <1>1. /\ \A type \in {"pin_verified", "pin_incorrect", "withdraw_ok", "withdraw_denied"} :
             Signal(type) \in Message /\ Signal(type).type = type
        /\ balance_msg(balance) \in Message /\ balance_msg(balance).type = "balance"
    <2>1. balance_msg(balance) \in Message
      BY <1>0 DEF Message, Flow, IInv, TypeOK
    <2> QED
      BY <2>1, SignalsAreMessages DEF ReplyTypes, Signal, balance_msg
  <1>3. CASE VerifyPin
    <2>1. PICK msg \in Message :
             /\ BankReplies(msg)
             /\ msg.type \in {"pin_verified", "pin_incorrect"}
             /\ msg.type = "pin_verified" => Head(queue["bank"]).pin = CorrectPin
      BY <1>1, <1>3 DEF VerifyPin
    <2>2. Take("bank", "verify_pin")
      BY <1>3 DEF VerifyPin
    <2>3. "verifying_pin" \in Awaiting /\ Expected("verify_pin", "verifying_pin")
          /\ Expected(msg.type, "verifying_pin")
      BY <2>1, PartOf DEF Awaiting, Expected
    <2>4. OneOfEach'
      BY <2>1, <2>2, <2>3, AnswerOneOfEach
    <2>5. msg.type = "pin_verified" => pin = CorrectPin
      <3>1. PICK j \in DOMAIN queue["bank"] :
               Head(queue["bank"]) = queue["bank"][j] /\ queue["bank"][j].type = "verify_pin"
        BY <1>0, <2>1, <2>2, AnswerQueues
      <3>2. Head(queue["bank"]).pin = pin
        BY <3>1 DEF SessionInv, PinAsked
      <3> QED
        BY <2>1, <3>2
    <2>6. PinAsked'
      BY <2>1, <2>2, <2>5, AnswerPin
    <2> QED
      BY <2>4, <2>6
  <1>4. CASE Withdraw
    <2>1. PICK msg \in Message : /\ BankReplies(msg)
                                 /\ msg.type \in {"withdraw_ok", "withdraw_denied"}
      BY <1>1, <1>4 DEF Withdraw
    <2>2. Take("bank", "withdraw")
      BY <1>4 DEF Withdraw
    <2>3. "process_withdrawal" \in Awaiting /\ Expected("withdraw", "process_withdrawal")
          /\ Expected(msg.type, "process_withdrawal")
      BY <2>1, PartOf DEF Awaiting, Expected
    <2>4. OneOfEach'
      BY <2>1, <2>2, <2>3, AnswerOneOfEach
    <2>5. PinAsked'
      BY <2>1, <2>2, AnswerPin
    <2> QED
      BY <2>4, <2>5
  <1>5. CASE GetBalance
    <2>1. PICK msg \in Message : BankReplies(msg) /\ msg.type = "balance"
      BY <1>1, <1>5 DEF GetBalance
    <2>2. Take("bank", "get_balance")
      BY <1>5 DEF GetBalance
    <2>3. "process_balance" \in Awaiting /\ Expected("get_balance", "process_balance")
          /\ Expected(msg.type, "process_balance")
      BY <2>1, PartOf DEF Awaiting, Expected
    <2>4. OneOfEach'
      BY <2>1, <2>2, <2>3, AnswerOneOfEach
    <2>5. PinAsked'
      BY <2>1, <2>2, AnswerPin
    <2> QED
      BY <2>4, <2>5
  <1>6. CASE Debit
    <2>1. UNCHANGED <<queue, outbox, state, pin>>
      BY <1>6 DEF Debit, atmVars
    <2>2. ASSUME NEW x \in Awaiting PROVE InFlight(Exchange[x])' = InFlight(Exchange[x])
      BY <2>1, SameCounts
    <2>3. OneOfEach'
      BY <2>1, <2>2 DEF SessionInv, OneOfEach
    <2>4. PinAsked'
      BY <2>1, KeepPin DEF Types, Unsent
    <2> QED
      BY <2>3, <2>4
  <1>7. CASE BankNotified
    <2>1. PICK type \in NoticeTypes : Take("bank", type)
      BY <1>7 DEF BankNotified
    <2>2. UNCHANGED <<outbox, state, pin>>
      BY <1>7 DEF BankNotified, atmVars
    <2>3. \A x \in Awaiting : type \notin Exchange[x]
      BY <2>1, Exchanges
    <2> QED
      BY <2>1, <2>2, <2>3, TakeOther, ThreadNames
  <1> QED
    BY <1>3, <1>4, <1>5, <1>6, <1>7 DEF BankHandler

\* What a thread sends next, as the flow has it.
LEMMA NextSent ==
  ASSUME Flow, NEW t \in Threads, Send(t)
  PROVE  \E s \in Sends :
            /\ s = Head(outbox[t]) /\ s.to \in Machines /\ s.msg \in Message
            /\ queue' = [queue EXCEPT ![s.to] = Append(@, s.msg)]
            /\ outbox' = [outbox EXCEPT ![t] = Tail(@)]
            /\ t \in {"main", "atm", "bank"}
            /\ t = "main" => s.msg.type \in InputTypes \cup {"close_queue"}
            /\ t = "bank" => /\ s.msg.type \in ReplyTypes /\ s.to = "atm"
                             /\ Types(Unsent("bank")) = {s.msg.type}
                             /\ Types(Unsent("bank"))' = {}
            /\ t # "bank" => Types(Unsent("bank"))' = Types(Unsent("bank"))
            /\ t = "atm" => /\ s.to # "atm"
                            /\ s.msg.type = "verify_pin" => s.msg.pin = pin
            /\ UNCHANGED <<state, pin, balance, debit, issued, quit_pressed>>
  <1>1. PICK s \in Sends : s = Head(outbox[t]) /\ s = outbox[t][1] /\ 1 \in DOMAIN outbox[t]
    BY DEF Send, Flow, IInv, TypeOK
  <1>2. /\ s.to \in Machines /\ s.msg \in Message
        /\ queue' = [queue EXCEPT ![s.to] = Append(@, s.msg)]
        /\ outbox' = [outbox EXCEPT ![t] = Tail(@)]
        /\ outbox[t] # <<>>
        /\ outbox \in [Threads -> Seq(Sends)]
        /\ UNCHANGED <<state, pin, balance, debit, issued, quit_pressed>>
    BY <1>1 DEF Send, Sends, Flow, IInv, TypeOK, atmVars, bankVars, interfaceVars, driverVars
  <1>3. t \in {"main", "atm", "bank"}
    BY <1>2, ThreadNames DEF Flow, Outboxes
  <1>4. t = "main" => s.msg.type \in InputTypes \cup {"close_queue"}
    BY <1>1 DEF Flow, Outboxes, MainSends
  <1>5. t = "bank" => /\ s.msg.type \in ReplyTypes /\ s.to = "atm"
                      /\ Types(Unsent("bank")) = {s.msg.type}
                      /\ Types(Unsent("bank"))' = {}
    <2>1. SUFFICES ASSUME t = "bank"
                   PROVE  /\ s.msg.type \in ReplyTypes /\ s.to = "atm"
                          /\ Types(Unsent("bank")) = {s.msg.type}
                          /\ Types(Unsent("bank"))' = {}
      OBVIOUS
    <2>2. PICK msg \in Message :
             msg.type \in ReplyTypes /\ outbox["bank"] = <<To("atm", msg)>>
      BY <1>2, <2>1 DEF Flow, Outboxes
    <2>3. s.to = "atm" /\ s.msg = msg
      BY <1>1, <2>1, <2>2 DEF To
    <2>4. outbox'["bank"] = <<>>
      BY <1>2, <2>1, <2>2, ThreadNames
    <2>5. Types(Unsent("bank"))' = {}
      BY <2>4 DEF Types, Unsent
    <2>6. Types(Unsent("bank")) = {s.msg.type}
      <3>1. Types(Unsent("bank")) = {outbox["bank"][i].msg.type : i \in DOMAIN outbox["bank"]}
        BY TypesUnsent
      <3>2. outbox["bank"][1] = s /\ DOMAIN outbox["bank"] = {1}
        BY <1>1, <2>1, <2>2
      <3> QED
        BY <3>1, <3>2
    <2> QED
      BY <2>2, <2>3, <2>5, <2>6
  <1>6. t # "bank" => Types(Unsent("bank"))' = Types(Unsent("bank"))
    <2>1. t # "bank" => outbox'["bank"] = outbox["bank"]
      BY <1>2, ThreadNames
    <2> QED
      BY <2>1 DEF Types, Unsent
  <1>7. t = "atm" => s.to # "atm" /\ (s.msg.type = "verify_pin" => s.msg.pin = pin)
    <2>1. SUFFICES ASSUME t = "atm"
                   PROVE  s.to # "atm" /\ (s.msg.type = "verify_pin" => s.msg.pin = pin)
      OBVIOUS
    <2>2. AtmSends(state, outbox["atm"])
      BY <1>2, <2>1 DEF Flow, Outboxes
    <2>3. \/ \E type \in DisplayTypes : s = ToInterface(type)
          \/ \E n \in 0..InitialBalance : s = To("interface", display_balance(n))
          \/ s = To("bank", verify_pin(pin))
          \/ \E type \in {"get_balance", "withdraw"} \cup NoticeTypes : s = To("bank", Signal(type))
      <3>1. PICK sends : sends = outbox["atm"] /\ s = sends[1]
        BY <1>1, <2>1
      <3> QED
        BY <2>2, <3>1 DEF AtmSends, DisplayTypes, NoticeTypes
    <2> QED
      BY <2>3 DEF To, ToInterface, Signal, verify_pin, display_balance, DisplayTypes, NoticeTypes
  <1> QED
    BY <1>1, <1>2, <1>3, <1>4, <1>5, <1>6, <1>7

\* A message sent stays the one that is asked or answered.
LEMMA SendSession ==
  ASSUME SessionInv, ~Over, NEW t \in Threads, Send(t)
  PROVE  OneOfEach' /\ PinAsked'
  <1>0. Flow
    BY DEF SessionInv
  <1>1. PICK s \in Sends :
            /\ s.to \in Machines /\ s.msg \in Message
            /\ queue' = [queue EXCEPT ![s.to] = Append(@, s.msg)]
            /\ t \in {"main", "atm", "bank"}
            /\ t = "main" => s.msg.type \in InputTypes \cup {"close_queue"}
            /\ t = "bank" => /\ s.msg.type \in ReplyTypes /\ s.to = "atm"
                             /\ Types(Unsent("bank")) = {s.msg.type}
                             /\ Types(Unsent("bank"))' = {}
            /\ t # "bank" => Types(Unsent("bank"))' = Types(Unsent("bank"))
            /\ t = "atm" => /\ s.to # "atm"
                            /\ s.msg.type = "verify_pin" => s.msg.pin = pin
            /\ UNCHANGED <<state, pin>>
    BY <1>0, NextSent
  <1>2. OneOfEach'
    <2>1. ASSUME NEW x \in Awaiting PROVE InFlight(Exchange[x])' = InFlight(Exchange[x])
      <3>1. t = "main" => Exchange[x] \cap (InputTypes \cup {"close_queue"}) = {}
        BY Exchanges
      <3> QED
        BY <1>0, <3>1, SendCounts
    <2> QED
      BY <1>1, <2>1 DEF SessionInv, OneOfEach
  <1>3. /\ queue \in [Machines -> Seq(Message)]
        /\ \A i \in DOMAIN queue["bank"] :
              queue["bank"][i].type = "verify_pin" => queue["bank"][i].pin = pin
        /\ \/ state \in InSession
           \/ "pin_verified" \in Types(queue["atm"]) \cup Types(Unsent("bank"))
           => pin = CorrectPin
    BY DEF SessionInv, PinAsked, Flow, IInv, TypeOK
  <1>4. \A i \in DOMAIN queue'["bank"] :
              queue'["bank"][i].type = "verify_pin" => queue'["bank"][i].pin = pin
    <2>1. CASE s.to # "bank"
      BY <1>1, <1>3, <2>1, ThreadNames
    <2>2. CASE s.to = "bank"
      <3>1. PICK q \in Seq(Message) : q = queue["bank"]
        BY <1>3, ThreadNames
      <3>2. queue'["bank"] = Append(q, s.msg)
        BY <1>1, <1>3, <2>2, <3>1, ThreadNames
      <3>3. \A i \in DOMAIN Append(q, s.msg) :
               (i \in DOMAIN q /\ Append(q, s.msg)[i] = q[i]) \/ Append(q, s.msg)[i] = s.msg
        BY <1>1
      <3>4. s.msg.type = "verify_pin" => s.msg.pin = pin
        BY <1>1, <2>2 DEF InputTypes, KeySignals
      <3> QED
        BY <1>3, <3>1, <3>2, <3>3, <3>4
    <2> QED
      BY <2>1, <2>2
  <1>5. "pin_verified" \in Types(queue'["atm"]) \cup Types(Unsent("bank"))' =>
           "pin_verified" \in Types(queue["atm"]) \cup Types(Unsent("bank"))
    <2>1. /\ Types(queue'["atm"]) \subseteq Types(queue["atm"]) \cup {s.msg.type}
          /\ s.to # "atm" => Types(queue'["atm"]) = Types(queue["atm"])
      BY <1>1, <1>3, TypesOfQueue, ThreadNames
    <2> QED
      BY <1>1, <2>1 DEF InputTypes, KeySignals
  <1>6. \/ state \in InSession
        \/ "pin_verified" \in Types(queue'["atm"]) \cup Types(Unsent("bank"))'
        => pin = CorrectPin
    BY <1>3, <1>5
  <1>7. /\ \A i \in DOMAIN queue'["bank"] :
              queue'["bank"][i].type = "verify_pin" => queue'["bank"][i].pin = pin'
        /\ \/ state' \in InSession
           \/ "pin_verified" \in Types(queue'["atm"]) \cup Types(Unsent("bank"))'
           => pin' = CorrectPin
    BY <1>1, <1>4, <1>6
  <1>8. PinAsked'
    BY <1>7 DEF PinAsked, Types
  <1> QED
    BY <1>2, <1>8

\* Every step keeps one request per wait, and the PIN verified.
LEMMA NextSession == ASSUME SessionInv, [Next]_vars PROVE SessionInv'
  <1>0. Flow /\ Flow' /\ (Over => Over')
    BY NextFlow, OverStays DEF SessionInv
  <1>1. SUFFICES ASSUME ~Over, ~Over' PROVE OneOfEach' /\ PinAsked'
    BY <1>0 DEF SessionInv, OneOfEach, PinAsked
  <1>2. ASSUME NEW t \in Machines, NEW type, Take(t, type),
               \A x \in Awaiting : type \notin Exchange[x],
               UNCHANGED <<outbox, state, pin>>
        PROVE  OneOfEach' /\ PinAsked'
    BY <1>1, <1>2, TakeOther
  <1>3. ASSUME UNCHANGED <<queue, state, pin>>, \A m \in Machines : outbox'[m] = outbox[m]
        PROVE  OneOfEach' /\ PinAsked'
    <2>1. ASSUME NEW x \in Awaiting PROVE InFlight(Exchange[x])' = InFlight(Exchange[x])
      BY <1>3, SameCounts
    <2>2. OneOfEach'
      BY <1>1, <1>3, <2>1 DEF SessionInv, OneOfEach
    <2>3. outbox'["bank"] = outbox["bank"]
      BY <1>3, ThreadNames
    <2>4. Types(Unsent("bank"))' = Types(Unsent("bank"))
      BY <2>3 DEF Types, Unsent
    <2>5. PinAsked'
      BY <1>1, <1>3, <2>4, KeepPin
    <2> QED
      BY <2>2, <2>5
  <1>4. CASE Keyboard
    <2>1. ASSUME NEW sends, MainPosts(sends) PROVE OneOfEach' /\ PinAsked'
      BY <1>0, <1>3, <2>1, ThreadNames DEF MainPosts, atmVars, Flow, IInv, TypeOK
    <2> QED
      BY <1>4, <2>1 DEF Keyboard, PressDigit, PressKey, Key, PressCancel, PressQuit
  <1>5. ASSUME NEW t \in Machines, Close(t) PROVE OneOfEach' /\ PinAsked'
    BY <1>2, <1>5, Exchanges DEF Close, atmVars
  <1>6. CASE Display
    <2>1. PICK type \in DisplayTypes : Take("interface", type)
      BY <1>6 DEF Display
    <2>2. UNCHANGED <<outbox, state, pin>>
      BY <1>6 DEF Display, atmVars
    <2>3. \A x \in Awaiting : type \notin Exchange[x]
      BY <2>1, Exchanges
    <2> QED
      BY <1>2, <2>1, <2>2, <2>3, ThreadNames
  <1>7. CASE Join \/ UNCHANGED vars
    BY <1>3, <1>7 DEF Join, atmVars, vars
  <1>8. ASSUME NEW t \in Threads, Send(t) PROVE OneOfEach' /\ PinAsked'
    BY <1>1, <1>8, SendSession
  <1>9. CASE AtmHandler
    BY <1>1, <1>9, AtmHandlerSession
  <1>10. CASE BankHandler
    BY <1>1, <1>10, BankHandlerSession
  <1> QED
    BY <1>4, <1>5, <1>6, <1>7, <1>8, <1>9, <1>10, ThreadNames
       DEF Next, Terminated, MainStep, AtmStep, BankStep, InterfaceStep

\* At the start nothing is asked.
LEMMA InitSession == ASSUME Init PROVE SessionInv
  <1>1. Flow
    BY InitFlow
  <1>2. /\ outbox["atm"] = <<ToInterface("display_enter_card")>>
        /\ outbox["bank"] = <<>>
        /\ \A m \in Machines : queue[m] = <<>>
        /\ state = "waiting_for_card"
    BY ThreadNames DEF Init, Entry
  <1>3. PICK a \in Sends : a = ToInterface("display_enter_card")
                             /\ a.msg.type = "display_enter_card"
    <2>1. ToInterface("display_enter_card") \in Sends
      BY SignalSends DEF DisplayTypes
    <2> QED
      BY <2>1 DEF ToInterface, To, Signal
  <1>4. ASSUME NEW x \in Awaiting PROVE InFlight(Exchange[x]) = 0
    <2>1. CountIn(Msgs(<<a>>), Exchange[x]) = 0
      BY <1>3, SendsCount, Exchanges DEF One, DisplayTypes
    <2>2. CountIn(Msgs(<<>>), Exchange[x]) = 0 /\ CountIn(<<>>, Exchange[x]) = 0
      BY SendsCount, CountEmpty
    <2>3. Unsent("atm") = Msgs(<<a>>) /\ Unsent("bank") = Msgs(<<>>)
      BY <1>2, <1>3, UnsentMsgs
    <2> QED
      BY <1>2, <2>1, <2>2, <2>3, ThreadNames DEF InFlight
  <1>5. OneOfEach
    BY <1>2, <1>4 DEF OneOfEach, Awaiting
  <1>6. PinAsked
    <2>1. Types(queue["atm"]) = {} /\ Types(Unsent("bank")) = {}
      BY <1>2, ThreadNames DEF Types, Unsent
    <2> QED
      BY <1>2, <2>1, ThreadNames DEF PinAsked, InSession
  <1> QED
    BY <1>1, <1>5, <1>6 DEF SessionInv

\* One request or answer of each kind is under way exactly in the state that
\* waits for it, and what it says is about the PIN of this session, until the
\* last session is over.
THEOREM SessionInvariance == Spec => []SessionInv
  <1>1. Init => SessionInv
    BY InitSession
  <1>2. SessionInv /\ [Next]_vars => SessionInv'
    BY NextSession
  <1> QED
    BY <1>1, <1>2, PTL DEF Spec

\* OneRequestPerWait, for every length of the PIN and any type-ahead: until the
\* user quits, the cash machine waits exactly when one request or its answer is
\* under way.
THEOREM OneRequest == Spec => []OneRequestPerWait
  <1>1. SessionInv => OneRequestPerWait
    <2> SUFFICES ASSUME SessionInv, ~quit_pressed
                 PROVE  InFlight(RequestTypes \cup ReplyTypes)
                          = IF state \in Awaiting THEN 1 ELSE 0
      BY DEF OneRequestPerWait
    <2> DEFINE P == Exchange["verifying_pin"]
               B == Exchange["process_balance"]
               W == Exchange["process_withdrawal"]
    <2>1. /\ RequestTypes \cup ReplyTypes = (P \cup B) \cup W
          /\ P \cap B = {} /\ (P \cup B) \cap W = {}
      BY Exchanges DEF RequestTypes, ReplyTypes
    <2>2. Flow /\ ~Over
      BY DEF SessionInv, Over
    <2>3. /\ InFlight(P) = IF state = "verifying_pin" THEN 1 ELSE 0
          /\ InFlight(B) = IF state = "process_balance" THEN 1 ELSE 0
          /\ InFlight(W) = IF state = "process_withdrawal" THEN 1 ELSE 0
      BY <2>2, Exchanges DEF SessionInv, OneOfEach
    <2> HIDE DEF P, B, W
    <2>4. /\ InFlight((P \cup B) \cup W) = InFlight(P \cup B) + InFlight(W)
          /\ InFlight(P \cup B) = InFlight(P) + InFlight(B)
      BY <2>1, <2>2, InFlightUnion
    <2> QED
      BY <2>1, <2>3, <2>4, Exchanges
  <1> QED
    BY <1>1, SessionInvariance, PTL

\* OnlyVerifiedSessions, for every length of the PIN: the cash machine offers
\* and carries out an action only for the correct PIN, typed in this session.
THEOREM OnlyVerified == Spec => []OnlyVerifiedSessions
  <1>1. SessionInv => OnlyVerifiedSessions
    BY DEF SessionInv, PinAsked, OnlyVerifiedSessions, Over, InSession
  <1> QED
    BY <1>1, SessionInvariance, PTL

------------------------------------------------------------------------------
(* Money *)

\* The numbers that money is counted with.
LEMMA MoneyNumbers ==
  ASSUME Flow
  PROVE  /\ InFlight(CashTypes) \in Nat /\ CashUnderWay \in Int /\ Debited \in Int
         /\ issued \in Nat /\ balance \in Int /\ debit \in Int /\ Amount \in Nat
         /\ Lost \in Int
         /\ CashUnderWay = Amount * InFlight(CashTypes)
  <1>1. InFlight(CashTypes) \in Nat
    BY CountTypes
  <1>2. issued \in Nat /\ balance \in Int /\ debit \in Int /\ Amount \in Nat
        /\ InitialBalance \in Nat
    BY ATMAssumption DEF Flow, IInv, TypeOK
  <1>3. CashUnderWay = Amount * InFlight(CashTypes)
    BY DEF CashUnderWay, CashTypes
  <1>4. CashUnderWay \in Int
    BY <1>1, <1>2, <1>3
  <1> QED
    BY <1>1, <1>2, <1>3, <1>4 DEF Debited, Lost

\* Nothing is lost when no message about money comes or goes.
LEMMA SameMoney ==
  ASSUME UNCHANGED <<balance, debit, issued>>,
         InFlight(CashTypes)' = InFlight(CashTypes)
  PROVE  Lost' = Lost
  BY DEF Lost, Debited, CashUnderWay, CashTypes

\* One message more stands for Amount, one less too.
LEMMA CashChange ==
  ASSUME Flow, Flow'
  PROVE  /\ InFlight(CashTypes)' = InFlight(CashTypes) + 1
              => CashUnderWay' = CashUnderWay + Amount
         /\ InFlight(CashTypes)' = InFlight(CashTypes) - 1
              => CashUnderWay' = CashUnderWay - Amount
  <1>1. PICK a \in Int, k \in Int, c \in Int :
           a = Amount /\ k = InFlight(CashTypes) /\ c = a * k /\ c = CashUnderWay
    BY MoneyNumbers
  <1>2. CashUnderWay' = a * InFlight(CashTypes)'
    BY <1>1 DEF CashUnderWay, CashTypes
  <1>3. a * (k + 1) = c + a /\ a * (k - 1) = c - a
    BY <1>1
  <1> QED
    BY <1>1, <1>2, <1>3

\* A message taken and its answer carry as much money as each other.
LEMMA TakeMoney ==
  ASSUME Flow, NEW t \in Machines, NEW type, Take(t, type),
         type \notin CashTypes, NEW sends \in Seq(Sends), Posts(t, sends),
         t = "interface" => sends = <<>>,
         \A i \in DOMAIN sends : sends[i].msg.type \notin CashTypes,
         UNCHANGED <<balance, debit, issued>>
  PROVE  Lost' = Lost
  <1>1. CountIn(Msgs(sends), CashTypes) = 0
    <2>1. Msgs(sends) \in Seq(Message)
      BY MsgsOfSends
    <2>2. Types(Msgs(sends)) \cap CashTypes = {}
      BY DEF Types, Msgs
    <2> QED
      BY <2>1, <2>2, CountFinite
  <1>2. /\ InFlight(CashTypes)' = InFlight(CashTypes) - One(type \in CashTypes)
                                   + CountIn(Msgs(sends), CashTypes)
        /\ InFlight(CashTypes) \in Nat
    BY TakeCounts
  <1>3. One(type \in CashTypes) = 0
    BY DEF One
  <1>4. InFlight(CashTypes)' = InFlight(CashTypes)
    BY <1>1, <1>2, <1>3
  <1> QED
    BY <1>4, SameMoney

\* A handler of the cash machine but that of withdraw_ok.
LEMMA HandlerMoney ==
  ASSUME Flow, Flow', NEW s, NEW type, NEW sends, NEW next,
         OnMessage(s, type, sends, next), type \notin CashTypes,
         next = "done_processing" => \A i \in DOMAIN sends : sends[i].msg.type \notin CashTypes,
         next = "done_processing" => sends \o Entry(next) = sends
  PROVE  Lost' = Lost
  <1>1. PICK all : all = sends \o Entry(next)
    OBVIOUS
  <1>2. /\ Take("atm", type) /\ Posts("atm", all) /\ outbox'["atm"] = all
        /\ state' = next
        /\ UNCHANGED <<balance, debit, issued>>
    BY <1>1, ThreadNames DEF OnMessage, Posts, bankVars, interfaceVars, Flow, IInv, TypeOK
  <1>3. all \in Seq(Sends)
    BY <1>2, ThreadNames DEF Flow, IInv, TypeOK
  <1>4. \A i \in DOMAIN all : all[i].msg.type \notin CashTypes
    <2>1. CASE next = "done_processing"
      BY <1>1, <2>1
    <2>2. CASE next # "done_processing"
      <3>1. all = <<>> \/ AtmSends(next, all)'
        BY <1>2 DEF Flow, Outboxes
      <3>2. \/ all = <<>>
            \/ \E a : /\ all = <<a>> /\ a.msg.type \notin CashTypes
            \/ \E a, b : /\ all = <<a, b>>
                         /\ a.msg.type \notin CashTypes /\ b.msg.type \notin CashTypes
        BY <2>2, <3>1 DEF AtmSends, To, ToInterface, Signal, verify_pin, display_balance, CashTypes
      <3> QED
        BY <3>2
    <2> QED
      BY <2>1, <2>2
  <1> QED
    BY <1>2, <1>3, <1>4, TakeMoney, ThreadNames

\* The cash machine turns the bank's withdraw_ok into issue_money, and drops it
\* only when the last session is over.
LEMMA AtmHandlerMoney ==
  ASSUME SessionInv, AtmHandler
  PROVE  Lost' = Lost \/ (Over /\ Lost' = Lost + Amount)
  <1>0. Flow /\ Flow'
    BY AtmHandlerFlow DEF SessionInv
  <1>1. CASE \/ CardInserted \/ DigitPressed \/ PinVerified
             \/ WithdrawPressed \/ BalancePressed \/ BalanceArrived
    <2>1. PICK s, type, sends, next :
             /\ OnMessage(s, type, sends, next)
             /\ type \notin CashTypes /\ next # "done_processing"
      BY <1>1 DEF CardInserted, DigitPressed, PinVerified, WithdrawPressed, BalancePressed,
                  BalanceArrived, CashTypes
    <2> QED
      BY <1>0, <2>1, HandlerMoney
  <1>2. ASSUME NEW s, NEW type, type \notin CashTypes, NEW sends,
               OnMessage(s, type, sends, "done_processing"),
               sends \o Entry("done_processing") = sends,
               \A i \in DOMAIN sends : sends[i].msg.type \notin CashTypes
        PROVE  Lost' = Lost
    BY <1>0, <1>2, HandlerMoney
  <1>3. CASE PinIncorrect \/ WithdrawDenied \/ CancelWithdrawal \/ CancelPressed
    <2>0. Entry("done_processing") = <<>>
      BY SendsOfHandlers
    <2>1. CASE PinIncorrect
      <3>1. PICK a : a = ToInterface("display_pin_incorrect_message")
        OBVIOUS
      <3>2. OnMessage("verifying_pin", "pin_incorrect", <<a>>, "done_processing")
        BY <2>1, <3>1 DEF PinIncorrect
      <3>3. "pin_incorrect" \notin CashTypes
        BY DEF CashTypes
      <3>4. \A i \in DOMAIN <<a>> : <<a>>[i].msg.type \notin CashTypes
        BY <3>1 DEF ToInterface, To, Signal, CashTypes
      <3>5. <<a>> \o Entry("done_processing") = <<a>>
        BY <2>0, SendsOfHandlers
      <3> QED
        BY <1>2, <3>2, <3>3, <3>4, <3>5
    <2>2. CASE WithdrawDenied
      <3>1. PICK a : a = ToInterface("display_insufficient_funds")
        OBVIOUS
      <3>2. OnMessage("process_withdrawal", "withdraw_denied", <<a>>, "done_processing")
        BY <2>2, <3>1 DEF WithdrawDenied
      <3>3. "withdraw_denied" \notin CashTypes
        BY DEF CashTypes
      <3>4. \A i \in DOMAIN <<a>> : <<a>>[i].msg.type \notin CashTypes
        BY <3>1 DEF ToInterface, To, Signal, CashTypes
      <3>5. <<a>> \o Entry("done_processing") = <<a>>
        BY <2>0, SendsOfHandlers
      <3> QED
        BY <1>2, <3>2, <3>3, <3>4, <3>5
    <2>3. CASE CancelWithdrawal
      <3>1. PICK a, b : /\ a = To("bank", Signal("cancel_withdrawal"))
                        /\ b = ToInterface("display_withdrawal_cancelled")
        OBVIOUS
      <3>2. OnMessage("process_withdrawal", "cancel_pressed", <<a, b>>, "done_processing")
        BY <2>3, <3>1 DEF CancelWithdrawal
      <3>3. "cancel_pressed" \notin CashTypes
        BY DEF CashTypes
      <3>4. \A i \in DOMAIN <<a, b>> : <<a, b>>[i].msg.type \notin CashTypes
        BY <3>1 DEF ToInterface, To, Signal, CashTypes
      <3>5. <<a, b>> \o Entry("done_processing") = <<a, b>>
        BY <2>0, SendsOfHandlers
      <3> QED
        BY <1>2, <3>2, <3>3, <3>4, <3>5
    <2>4. CASE CancelPressed
      <3>1. PICK s : OnMessage(s, "cancel_pressed", <<>>, "done_processing")
        BY <2>4 DEF CancelPressed
      <3>2. /\ "cancel_pressed" \notin CashTypes
            /\ \A i \in DOMAIN <<>> : <<>>[i].msg.type \notin CashTypes
        BY DEF CashTypes
      <3>3. <<>> \o Entry("done_processing") = <<>>
        BY <2>0
      <3> QED
        BY <1>2, <3>1, <3>2, <3>3
    <2> QED
      BY <1>3, <2>1, <2>2, <2>3, <2>4
  <1>4. CASE WithdrawOk
    <2>1. PICK a \in Sends : a = ToInterface("issue_money") /\ a.msg.type = "issue_money"
      <3>1. ToInterface("issue_money") \in Sends
        BY SignalSends DEF DisplayTypes
      <3> QED
        BY <3>1 DEF ToInterface, To, Signal
    <2>2. PICK b \in Sends : b = To("bank", Signal("withdrawal_processed"))
                               /\ b.msg.type = "withdrawal_processed"
      <3>1. To("bank", Signal("withdrawal_processed")) \in Sends
        BY SignalSends, ThreadNames
      <3> QED
        BY <3>1 DEF To, Signal
    <2>3. <<a, b>> \in Seq(Sends) /\ <<a, b>> \o Entry("done_processing") = <<a, b>>
      <3>1. <<a, b>> \in Seq(Sends)
        OBVIOUS
      <3> QED
        BY <3>1, SendsOfHandlers
    <2>4. /\ Take("atm", "withdraw_ok") /\ Posts("atm", <<a, b>>)
          /\ UNCHANGED <<balance, debit, issued>>
      BY <1>4, <2>1, <2>2, <2>3 DEF WithdrawOk, OnMessage, Posts, bankVars, interfaceVars
    <2>5. /\ InFlight(CashTypes)' = InFlight(CashTypes) - One("withdraw_ok" \in CashTypes)
                                     + CountIn(Msgs(<<a, b>>), CashTypes)
          /\ InFlight(CashTypes) \in Nat
      <3>1. "atm" \in Machines /\ "atm" # "interface"
        BY ThreadNames
      <3> QED
        BY <1>0, <2>3, <2>4, <3>1, TakeCounts
    <2>6. CountIn(Msgs(<<a, b>>), CashTypes)
             = One(a.msg.type \in CashTypes) + One(b.msg.type \in CashTypes)
      BY SendsCount
    <2>7. CountIn(Msgs(<<a, b>>), CashTypes) = 1 /\ One("withdraw_ok" \in CashTypes) = 1
      BY <2>1, <2>2, <2>6 DEF One, CashTypes
    <2>8. InFlight(CashTypes)' = InFlight(CashTypes)
      BY <2>5, <2>7
    <2> QED
      BY <2>4, <2>8, SameMoney
  <1>5. CASE AtmDiscards
    <2>1. PICK type \in (InputTypes \cup ReplyTypes) \ Handled[state] : Take("atm", type)
      BY <1>5 DEF AtmDiscards
    <2>2. /\ UNCHANGED <<outbox, balance, debit, issued>>
          /\ <<>> \in Seq(Sends) /\ Posts("atm", <<>>)
      <3>1. UNCHANGED <<outbox, balance, debit, issued>>
        BY <1>5 DEF AtmDiscards, bankVars, interfaceVars
      <3>2. outbox \in [Threads -> Seq(Sends)] /\ outbox["atm"] = <<>>
        BY <1>0, <2>1 DEF Take, Arrived, Ready, Flow, IInv, TypeOK
      <3> QED
        BY <3>1, <3>2, ThreadNames DEF Posts
    <2>3. CASE type \notin CashTypes
      <3>1. \A i \in DOMAIN <<>> : <<>>[i].msg.type \notin CashTypes
        OBVIOUS
      <3> QED
        BY <1>0, <2>1, <2>2, <2>3, <3>1, TakeMoney, ThreadNames
    <2>4. CASE type \in CashTypes
      <3>1. type = "withdraw_ok"
        BY <2>1, <2>4 DEF CashTypes, InputTypes, KeySignals, ReplyTypes
      <3>2. Over
        BY <2>1, <2>2, <3>1, NoneDiscarded, Exchanges
      <3>3. /\ InFlight(CashTypes)' = InFlight(CashTypes) - One(type \in CashTypes)
                                     + CountIn(Msgs(<<>>), CashTypes)
            /\ InFlight(CashTypes) \in Nat
        <4>1. "atm" \in Machines /\ "atm" # "interface"
          BY ThreadNames
        <4> QED
          BY <1>0, <2>1, <2>2, <4>1, TakeCounts
      <3>4. CountIn(Msgs(<<>>), CashTypes) = 0 /\ One(type \in CashTypes) = 1
        BY <2>4, SendsCount DEF One
      <3>5. InFlight(CashTypes)' = InFlight(CashTypes) - 1
        BY <3>3, <3>4
      <3>6. CashUnderWay' = CashUnderWay - Amount
        BY <1>0, <3>5, CashChange
      <3>7. Debited' = Debited /\ issued' = issued
        BY <2>2 DEF Debited
      <3>8. PICK d \in Int, i \in Int, c \in Int, a \in Int :
               d = Debited /\ i = issued /\ c = CashUnderWay /\ a = Amount
        BY <1>0, MoneyNumbers
      <3>9. Lost = d - (i + c) /\ Lost' = d - (i + (c - a))
        BY <3>6, <3>7, <3>8 DEF Lost
      <3>10. Lost' = Lost + a
        BY <3>8, <3>9
      <3> QED
        BY <3>2, <3>8, <3>10
    <2> QED
      BY <2>3, <2>4
  <1>6. CASE DoneProcessing
    <2>1. PICK a \in Sends : a = ToInterface("eject_card") /\ a.msg.type = "eject_card"
      <3>1. ToInterface("eject_card") \in Sends
        BY SignalSends DEF DisplayTypes
      <3> QED
        BY <3>1 DEF ToInterface, To, Signal
    <2>2. PICK b \in Sends : b = ToInterface("display_enter_card")
                               /\ b.msg.type = "display_enter_card"
      <3>1. ToInterface("display_enter_card") \in Sends
        BY SignalSends DEF DisplayTypes
      <3> QED
        BY <3>1 DEF ToInterface, To, Signal
    <2>3. <<a, b>> \in Seq(Sends) /\ <<a>> \o Entry("waiting_for_card") = <<a, b>>
      <3>1. <<a, b>> \in Seq(Sends)
        OBVIOUS
      <3> QED
        BY <3>1, <2>1, <2>2, SendsOfHandlers
    <2>4. /\ outbox["atm"] = <<>> /\ outbox' = [outbox EXCEPT !["atm"] = <<a, b>>]
          /\ UNCHANGED <<queue, balance, debit, issued>>
      BY <1>6, <2>1, <2>3 DEF DoneProcessing, Ready, bankVars, interfaceVars
    <2>5. InFlight(CashTypes)' = InFlight(CashTypes) + CountIn(Msgs(<<a, b>>), CashTypes)
      BY <1>0, <2>3, <2>4, PostCounts
    <2>6. CountIn(Msgs(<<a, b>>), CashTypes)
             = One(a.msg.type \in CashTypes) + One(b.msg.type \in CashTypes)
      BY SendsCount
    <2>7. CountIn(Msgs(<<a, b>>), CashTypes) = 0
      BY <2>1, <2>2, <2>6 DEF One, CashTypes
    <2>8. InFlight(CashTypes)' = InFlight(CashTypes)
      BY <1>0, <2>5, <2>7, MoneyNumbers
    <2> QED
      BY <2>4, <2>8, SameMoney
  <1> QED
    BY <1>1, <1>3, <1>4, <1>5, <1>6 DEF AtmHandler

\* The bank charges what it approves, before or after its answer is read.
LEMMA BankHandlerMoney ==
  ASSUME Flow, BankHandler
  PROVE  Lost' = Lost
  <1>0. Flow' /\ Flow
    BY BankHandlerFlow
  <1>1. /\ \A type \in {"pin_verified", "pin_incorrect", "withdraw_ok", "withdraw_denied"} :
             Signal(type) \in Message /\ Signal(type).type = type
        /\ balance_msg(balance) \in Message /\ balance_msg(balance).type = "balance"
    <2>1. balance_msg(balance) \in Message
      BY <1>0 DEF Message, Flow, IInv, TypeOK
    <2> QED
      BY <2>1, SignalsAreMessages DEF ReplyTypes, Signal, balance_msg
  <1>2. ASSUME NEW type, Take("bank", type), type \notin CashTypes,
               NEW msg \in Message, BankReplies(msg)
        PROVE  InFlight(CashTypes)' = InFlight(CashTypes) + One(msg.type \in CashTypes)
    <2>1. PICK a \in Sends : a = To("atm", msg) /\ a.msg = msg
      <3>1. To("atm", msg) \in Sends /\ To("atm", msg).msg = msg
        BY ThreadNames DEF To, Sends
      <3> QED
        BY <3>1
    <2>2. <<a>> \in Seq(Sends)
      OBVIOUS
    <2>3. Posts("bank", <<a>>)
      BY <1>2, <2>1 DEF BankReplies, Posts
    <2>4. /\ InFlight(CashTypes)' = InFlight(CashTypes) - One(type \in CashTypes)
                                     + CountIn(Msgs(<<a>>), CashTypes)
          /\ InFlight(CashTypes) \in Nat
      <3>1. "bank" \in Machines /\ "bank" # "interface"
        BY ThreadNames
      <3> QED
        BY <1>0, <1>2, <2>2, <2>3, <3>1, TakeCounts
    <2>5. One(type \in CashTypes) = 0 /\ One(msg.type \in CashTypes) \in Nat
      BY <1>2 DEF One
    <2>6. CountIn(Msgs(<<a>>), CashTypes) = One(msg.type \in CashTypes)
      BY <2>1, SendsCount
    <2> QED
      BY <2>4, <2>5, <2>6
  <1>3. ASSUME NEW type, Take("bank", type), type \notin CashTypes,
               NEW msg \in Message, BankReplies(msg), msg.type \notin CashTypes,
               UNCHANGED debit
        PROVE  Lost' = Lost
    <2>1. InFlight(CashTypes)' = InFlight(CashTypes)
      BY <1>0, <1>2, <1>3, MoneyNumbers DEF One
    <2> QED
      BY <1>3, <2>1, SameMoney DEF BankReplies, interfaceVars
  <1>4. CASE VerifyPin
    BY <1>1, <1>3, <1>4 DEF VerifyPin, CashTypes
  <1>5. CASE GetBalance
    BY <1>1, <1>3, <1>5 DEF GetBalance, CashTypes
  <1>6. CASE Withdraw
    <2>1. CASE balance >= Amount
      <3>1. InFlight(CashTypes)' = InFlight(CashTypes) + 1
        <4>1. BankReplies(Signal("withdraw_ok")) /\ Take("bank", "withdraw")
          BY <1>6, <2>1 DEF Withdraw
        <4>2. "withdraw" \notin CashTypes /\ One(Signal("withdraw_ok").type \in CashTypes) = 1
          BY <1>1 DEF CashTypes, One
        <4> QED
          BY <1>1, <1>2, <4>1, <4>2
      <3>2. CashUnderWay' = CashUnderWay + Amount
        BY <1>0, <3>1, CashChange
      <3>3. debit = 0 /\ debit' = Amount /\ UNCHANGED <<balance, issued>>
        BY <1>6, <2>1 DEF Withdraw, BankReplies, interfaceVars
      <3>4. Debited' = Debited + Amount
        BY <1>0, <3>3, MoneyNumbers, ATMAssumption DEF Debited
      <3> QED
        BY <1>0, <3>2, <3>3, <3>4, MoneyNumbers DEF Lost
    <2>2. CASE ~(balance >= Amount)
      BY <1>1, <1>3, <1>6, <2>2 DEF Withdraw, CashTypes
    <2> QED
      BY <2>1, <2>2
  <1>7. CASE Debit
    <2>1. /\ UNCHANGED <<queue, outbox, issued>>
          /\ balance' = balance - debit /\ debit' = 0
      BY <1>7 DEF Debit, interfaceVars
    <2>2. InFlight(CashTypes)' = InFlight(CashTypes)
      BY <2>1, SameCounts
    <2>3. Debited' = Debited
      BY <1>0, <2>1, MoneyNumbers, ATMAssumption DEF Debited
    <2> QED
      BY <2>1, <2>2, <2>3 DEF Lost, CashUnderWay, CashTypes
  <1>8. CASE BankNotified
    <2>1. PICK type \in NoticeTypes : Take("bank", type)
      BY <1>8 DEF BankNotified
    <2>2. UNCHANGED <<outbox, balance, debit, issued>> /\ type \notin CashTypes
      BY <1>8 DEF BankNotified, bankVars, interfaceVars, NoticeTypes, CashTypes
    <2>3. <<>> \in Seq(Sends) /\ Posts("bank", <<>>)
      <3>1. outbox \in [Threads -> Seq(Sends)] /\ outbox["bank"] = <<>>
        BY <1>0, <2>1 DEF Take, Arrived, Ready, Flow, IInv, TypeOK
      <3> QED
        BY <2>2, <3>1, ThreadNames DEF Posts
    <2>4. \A i \in DOMAIN <<>> : <<>>[i].msg.type \notin CashTypes
      OBVIOUS
    <2> QED
      BY <1>0, <2>1, <2>2, <2>3, <2>4, TakeMoney, ThreadNames
  <1> QED
    BY <1>4, <1>5, <1>6, <1>7, <1>8 DEF BankHandler

\* No step gives money away, and none loses any before the last session is over.
LEMMA NextMoney ==
  ASSUME SessionInv, [Next]_vars
  PROVE  Lost' = Lost \/ (Over /\ Lost' = Lost + Amount)
  <1>0. Flow /\ Flow'
    BY NextFlow DEF SessionInv
  <1>1. ASSUME UNCHANGED <<queue, balance, debit, issued>>,
               \A m \in Machines : outbox'[m] = outbox[m]
        PROVE  Lost' = Lost
    BY <1>1, SameCounts, SameMoney
  <1>2. CASE Keyboard
    <2>1. ASSUME NEW sends, MainPosts(sends) PROVE Lost' = Lost
      BY <1>0, <1>1, <2>1, ThreadNames
         DEF MainPosts, bankVars, interfaceVars, Flow, IInv, TypeOK
    <2> QED
      BY <1>2, <2>1 DEF Keyboard, PressDigit, PressKey, Key, PressCancel, PressQuit
  <1>3. CASE Join \/ UNCHANGED vars
    BY <1>1, <1>3 DEF Join, bankVars, interfaceVars, vars
  <1>4. ASSUME NEW t \in Threads, Send(t) PROVE Lost' = Lost
    <2>1. CashTypes \cap (InputTypes \cup {"close_queue"}) = {}
      BY DEF CashTypes, InputTypes, KeySignals
    <2>2. InFlight(CashTypes)' = InFlight(CashTypes)
      BY <1>0, <1>4, <2>1, SendCounts
    <2> QED
      BY <1>4, <2>2, SameMoney DEF Send, bankVars, interfaceVars
  <1>5. ASSUME NEW t \in Machines, Take(t, "close_queue"), UNCHANGED <<outbox, balance, debit, issued>>
        PROVE  Lost' = Lost
    <2>1. <<>> \in Seq(Sends) /\ Posts(t, <<>>) /\ "close_queue" \notin CashTypes
      <3>1. outbox \in [Threads -> Seq(Sends)] /\ outbox[t] = <<>>
        BY <1>0, <1>5 DEF Take, Arrived, Ready, Flow, IInv, TypeOK
      <3> QED
        BY <1>5, <3>1, ThreadNames DEF Posts, CashTypes
    <2>2. \A i \in DOMAIN <<>> : <<>>[i].msg.type \notin CashTypes
      OBVIOUS
    <2> QED
      BY <1>0, <1>5, <2>1, <2>2, TakeMoney
  <1>6. ASSUME NEW t \in Machines, Close(t) PROVE Lost' = Lost
    BY <1>5, <1>6 DEF Close, bankVars, interfaceVars
  <1>7. CASE Display
    <2>1. PICK type \in DisplayTypes :
             /\ Take("interface", type)
             /\ issued' = IF type = "issue_money" THEN issued + Amount ELSE issued
      BY <1>7 DEF Display
    <2>2. UNCHANGED <<outbox, balance, debit>>
      BY <1>7 DEF Display, bankVars
    <2>3. <<>> \in Seq(Sends) /\ Posts("interface", <<>>)
      <3>1. outbox \in [Threads -> Seq(Sends)] /\ outbox["interface"] = <<>>
        BY <1>0, <2>1 DEF Take, Arrived, Ready, Flow, IInv, TypeOK
      <3> QED
        BY <2>2, <3>1, ThreadNames DEF Posts
    <2>4. CASE type # "issue_money"
      <3>1. type \notin CashTypes /\ issued' = issued
        BY <2>1, <2>4 DEF DisplayTypes, CashTypes
      <3>2. \A i \in DOMAIN <<>> : <<>>[i].msg.type \notin CashTypes
        OBVIOUS
      <3> QED
        BY <1>0, <2>1, <2>2, <2>3, <3>1, <3>2, TakeMoney, ThreadNames
    <2>5. CASE type = "issue_money"
      <3>1. /\ InFlight(CashTypes)' = InFlight(CashTypes) - One(type \in CashTypes)
                                     + CountIn(Msgs(<<>>), CashTypes)
            /\ InFlight(CashTypes) \in Nat
        <4>1. "interface" \in Machines /\ ("interface" = "interface" => <<>> = <<>>)
          BY ThreadNames
        <4> QED
          BY <1>0, <2>1, <2>3, <4>1, TakeCounts
      <3>2. CountIn(Msgs(<<>>), CashTypes) = 0 /\ One(type \in CashTypes) = 1
        BY <2>5, SendsCount DEF One, CashTypes
      <3>3. InFlight(CashTypes)' = InFlight(CashTypes) - 1
        BY <3>1, <3>2
      <3>4. CashUnderWay' = CashUnderWay - Amount
        BY <1>0, <3>3, CashChange
      <3> QED
        BY <1>0, <2>1, <2>2, <2>5, <3>4, MoneyNumbers DEF Lost, Debited
    <2> QED
      BY <2>4, <2>5
  <1>8. CASE AtmHandler
    BY <1>8, AtmHandlerMoney
  <1>9. CASE BankHandler
    BY <1>0, <1>9, BankHandlerMoney
  <1> QED
    BY <1>2, <1>3, <1>4, <1>6, <1>7, <1>8, <1>9, ThreadNames
       DEF Next, Terminated, MainStep, AtmStep, BankStep, InterfaceStep

\* At the start no money is under way.
LEMMA InitMoney == ASSUME Init PROVE MoneyInv
  <1>1. SessionInv /\ Flow
    BY InitSession DEF SessionInv
  <1>2. /\ outbox["atm"] = <<ToInterface("display_enter_card")>>
        /\ outbox["bank"] = <<>>
        /\ \A m \in Machines : queue[m] = <<>>
    BY ThreadNames DEF Init, Entry
  <1>3. PICK a \in Sends : a = ToInterface("display_enter_card")
                             /\ a.msg.type = "display_enter_card"
    <2>1. ToInterface("display_enter_card") \in Sends
      BY SignalSends DEF DisplayTypes
    <2> QED
      BY <2>1 DEF ToInterface, To, Signal
  <1>4. InFlight(CashTypes) = 0
    <2>1. CountIn(Msgs(<<a>>), CashTypes) = 0
      BY <1>3, SendsCount DEF One, CashTypes
    <2>2. CountIn(Msgs(<<>>), CashTypes) = 0 /\ CountIn(<<>>, CashTypes) = 0
      BY SendsCount, CountEmpty
    <2>3. Unsent("atm") = Msgs(<<a>>) /\ Unsent("bank") = Msgs(<<>>)
      BY <1>2, <1>3, UnsentMsgs
    <2> QED
      BY <1>2, <2>1, <2>2, <2>3, ThreadNames DEF InFlight
  <1>5. CashUnderWay = 0
    BY <1>1, <1>4, MoneyNumbers
  <1>6. Lost = 0
    BY <1>5, ATMAssumption DEF Lost, Debited, Init
  <1> QED
    BY <1>1, <1>6 DEF MoneyInv

\* ... so that what is charged stays accounted for.
LEMMA NextKeepsMoney == ASSUME MoneyInv, [Next]_vars PROVE MoneyInv'
  <1>1. SessionInv /\ Flow /\ SessionInv' /\ (Over => Over')
    BY NextSession, OverStays DEF MoneyInv, SessionInv
  <1>2. Lost' = Lost \/ (Over /\ Lost' = Lost + Amount)
    BY <1>1, NextMoney
  <1>3. Lost \in Int /\ Amount \in Nat
    BY <1>1, MoneyNumbers
  <1> QED
    BY <1>1, <1>2, <1>3 DEF MoneyInv

\* What is charged is handed out or on its way, but for what the end of the
\* last session leaves behind.
THEOREM MoneyInvariance == Spec => []MoneyInv
  <1>1. Init => MoneyInv
    BY InitMoney
  <1>2. MoneyInv /\ [Next]_vars => MoneyInv'
    BY NextKeepsMoney
  <1> QED
    BY <1>1, <1>2, PTL DEF Spec

\* NoFreeMoney, for every balance and amount: what is handed out or on its way
\* never exceeds what the bank has charged or is about to charge.
THEOREM NothingForFree == Spec => []NoFreeMoney
  <1>1. MoneyInv => NoFreeMoney
    <2> SUFFICES ASSUME MoneyInv PROVE NoFreeMoney
      OBVIOUS
    <2>1. Flow /\ Lost >= 0
      BY DEF MoneyInv, SessionInv
    <2> QED
      BY <2>1, MoneyNumbers DEF NoFreeMoney, Lost
  <1> QED
    BY <1>1, MoneyInvariance, PTL

\* NoMoneyLost, for every balance and amount: until the user quits, everything
\* charged has been handed out or is on its way.
THEOREM NothingLost == Spec => []NoMoneyLost
  <1>1. MoneyInv => NoMoneyLost
    <2> SUFFICES ASSUME MoneyInv, ~quit_pressed PROVE issued + CashUnderWay = Debited
      BY DEF NoMoneyLost
    <2>1. Flow /\ Lost = 0
      BY DEF MoneyInv, SessionInv, Over
    <2> QED
      BY <2>1, MoneyNumbers DEF Lost
  <1> QED
    BY <1>1, MoneyInvariance, PTL


------------------------------------------------------------------------------
(* What is still to be shown *)

Handout == {"issue_money"}
Cash(msg) == IF msg.type \in Handout THEN Amount ELSE 0

\* What was shown last, and what is left of the account, when the first i
\* messages of seq have been displayed: before them last was shown and out had
\* been handed out.
LastShown(seq, last, i) == IF i = 0 THEN last ELSE seq[i].type
Left(seq, out, i) == InitialBalance - out - Amount * CountIn(SubSeq(seq, 1, i), Handout)

\* The interface reads the first i messages of seq: it closes at none of them.
Read(seq, i) == \A j \in 1..i : seq[j].type # "close_queue"

\* msg may be displayed after last, with left on the account.
MayShow(last, left, msg) ==
    /\ msg.type \in Dialogue!Follows[last]
    /\ msg.type = "issue_money" => left >= Amount
    /\ msg.type = "display_insufficient_funds" => left < Amount
    /\ msg.type = "display_balance" => msg.amount = left

\* So it is with each message of seq that is read.
InOrder(seq, last, out) ==
    \A i \in DOMAIN seq :
        Read(seq, i) => MayShow(LastShown(seq, last, i - 1), Left(seq, out, i - 1), seq[i])

\* What may precede the card.
Ending == {"display_enter_pin", "display_pin_incorrect_message",
           "display_withdrawal_options", "issue_money",
           "display_insufficient_funds", "display_withdrawal_cancelled"}

\* In state s the cash machine has sends to make; everything it sent before has
\* been displayed, last was shown last, and left is left.
GoesOn(s, sends, last, left) ==
    \/ s = "waiting_for_card" /\ sends = <<>> /\ last = "display_enter_card"
    \/ /\ s = "waiting_for_card" /\ sends = <<ToInterface("display_enter_card")>>
       /\ last \in {"blank", "eject_card"}
    \/ /\ s = "waiting_for_card"
       /\ sends = <<ToInterface("eject_card"), ToInterface("display_enter_card")>>
       /\ last \in Ending
    \/ s = "getting_pin" /\ sends = <<>> /\ last = "display_enter_pin"
    \/ /\ s = "getting_pin" /\ sends = <<ToInterface("display_enter_pin")>>
       /\ last = "display_enter_card"
    \/ s = "verifying_pin" /\ last = "display_enter_pin"
    \/ s = "wait_for_action" /\ sends = <<>> /\ last = "display_withdrawal_options"
    \/ /\ s = "wait_for_action" /\ sends = <<ToInterface("display_withdrawal_options")>>
       /\ last \in {"display_enter_pin", "display_balance"}
    \/ /\ s = "wait_for_action"
       /\ sends = <<To("interface", display_balance(left)),
                    ToInterface("display_withdrawal_options")>>
       /\ last = "display_withdrawal_options"
    \/ s \in {"process_balance", "process_withdrawal"} /\ last = "display_withdrawal_options"
    \/ s = "done_processing" /\ sends = <<>> /\ last \in Ending
    \/ /\ s = "done_processing" /\ sends = <<ToInterface("display_pin_incorrect_message")>>
       /\ last = "display_enter_pin"
    \/ /\ s = "done_processing"
       /\ sends = <<ToInterface("issue_money"), To("bank", Signal("withdrawal_processed"))>>
       /\ last = "display_withdrawal_options" /\ left >= Amount
    \/ /\ s = "done_processing" /\ sends = <<To("bank", Signal("withdrawal_processed"))>>
       /\ last = "issue_money"
    \/ /\ s = "done_processing" /\ sends = <<ToInterface("display_insufficient_funds")>>
       /\ last = "display_withdrawal_options" /\ left < Amount
    \/ /\ s = "done_processing"
       /\ sends = <<To("bank", Signal("cancel_withdrawal")),
                    ToInterface("display_withdrawal_cancelled")>>
       /\ last = "display_withdrawal_options"
    \/ /\ s = "done_processing" /\ sends = <<ToInterface("display_withdrawal_cancelled")>>
       /\ last = "display_withdrawal_options"

\* The terminal's queue keeps the dialogue, and what the cash machine sends
\* next goes on with it, unless the terminal has closed or is to close.
ShownLast == LastShown(queue["interface"], screen.type, Len(queue["interface"]))
LeftThen == Left(queue["interface"], issued, Len(queue["interface"]))
ReadsAll == Read(queue["interface"], Len(queue["interface"]))

Shows ==
    "interface" \in running =>
        /\ InOrder(queue["interface"], screen.type, issued)
        /\ ReadsAll => GoesOn(state, outbox["atm"], ShownLast, LeftThen)

\* What the bank answers about the account stays true until the answer is read.
TrueOf(msg, b, d) ==
    /\ msg.type = "balance" => msg.amount = b /\ d = 0
    /\ msg.type = "withdraw_denied" => b < Amount

Pending == {queue["atm"][i] : i \in DOMAIN queue["atm"]}
             \cup {outbox["bank"][i].msg : i \in DOMAIN outbox["bank"]}

AnswersTrue == ~Over => \A msg \in Pending : TrueOf(msg, balance, debit)

DialogueInv == MoneyInv /\ AnswersTrue /\ Shows

------------------------------------------------------------------------------
(* Sequences of displays *)

\* What follows what.
LEMMA DialogueRules ==
  /\ Dialogue!Follows["blank"] = {"display_enter_card"}
  /\ Dialogue!Follows["display_enter_card"] = {"display_enter_pin"}
  /\ Dialogue!Follows["display_enter_pin"] =
        {"display_withdrawal_options", "display_pin_incorrect_message", "eject_card"}
  /\ Dialogue!Follows["display_withdrawal_options"] =
        {"issue_money", "display_insufficient_funds", "display_withdrawal_cancelled",
         "display_balance", "eject_card"}
  /\ Dialogue!Follows["display_balance"] = {"display_withdrawal_options"}
  /\ Dialogue!Follows["eject_card"] = {"display_enter_card"}
  /\ \A last \in Ending : "eject_card" \in Dialogue!Follows[last]
  BY DEF Dialogue!Follows, Ending

\* The first messages of a queue of messages.
LEMMA Prefixes ==
  ASSUME NEW seq \in Seq(Message), NEW i \in 0..Len(seq)
  PROVE  /\ SubSeq(seq, 1, i) \in Seq(Message) /\ Len(SubSeq(seq, 1, i)) = i
         /\ \A j \in 1..i : SubSeq(seq, 1, i)[j] = seq[j]
  <1>1. \A j \in 1..i : seq[j] \in Message
    OBVIOUS
  <1> QED
    BY <1>1, SubSeqProperties

\* What is left is a number; at the start it is what has not been handed out.
LEMMA LeftNumbers ==
  ASSUME NEW seq \in Seq(Message), NEW out \in Nat, NEW i \in 0..Len(seq)
  PROVE  /\ Left(seq, out, i) \in Int
         /\ Left(seq, out, 0) = InitialBalance - out
  <1>1. CountIn(SubSeq(seq, 1, i), Handout) \in Nat
    BY Prefixes, CountFinite
  <1>2. SubSeq(seq, 1, 0) = <<>>
    BY SubSeqEmpty
  <1>3. CountIn(SubSeq(seq, 1, 0), Handout) = 0
    BY <1>2, CountEmpty
  <1>4. PICK a \in Nat, b \in Nat, k \in Nat :
           a = Amount /\ b = InitialBalance /\ k = CountIn(SubSeq(seq, 1, i), Handout)
    BY <1>1, ATMAssumption
  <1>5. Left(seq, out, i) = b - out - a * k
    BY <1>4 DEF Left
  <1>6. b - out - a * k \in Int /\ a * 0 = 0 /\ b - out - 0 = b - out
    BY <1>4
  <1>7. Left(seq, out, 0) = b - out - a * 0
    BY <1>3, <1>4 DEF Left
  <1> QED
    BY <1>4, <1>5, <1>6, <1>7

\* One sequence is another and a message behind it, or in front of it.
Behind(all, seq, msg) == all = Append(seq, msg)
InFront(msg, rest, seq) == seq # <<>> /\ msg = Head(seq) /\ rest = Tail(seq)

\* A message behind the others changes nothing for them.
LEMMA BehindOthers ==
  ASSUME NEW seq \in Seq(Message), NEW msg \in Message,
         NEW all, Behind(all, seq, msg)
  PROVE  /\ \A out : \A i \in 0..Len(seq) : Left(all, out, i) = Left(seq, out, i)
         /\ \A last : \A i \in 0..Len(seq) : LastShown(all, last, i) = LastShown(seq, last, i)
         /\ \A i \in 0..Len(seq) : Read(all, i) <=> Read(seq, i)
         /\ Read(all, Len(all)) => Read(seq, Len(seq)) /\ msg.type # "close_queue"
         /\ \A last : LastShown(all, last, Len(all)) = msg.type
  <1>1. /\ all \in Seq(Message) /\ Len(all) = Len(seq) + 1 /\ Len(seq) \in Nat
        /\ \A i \in 1..Len(seq) : all[i] = seq[i]
        /\ all[Len(seq) + 1] = msg
    BY DEF Behind
  <1>2. ASSUME NEW out, NEW i \in 0..Len(seq)
        PROVE  Left(all, out, i) = Left(seq, out, i)
    <2>1. i \in 0..Len(all)
      BY <1>1
    <2>2. SubSeq(all, 1, i) = SubSeq(seq, 1, i)
      BY <1>1, <2>1, Prefixes, SeqEqual
    <2> QED
      BY <2>2 DEF Left
  <1>3. ASSUME NEW last, NEW i \in 0..Len(seq)
        PROVE  /\ LastShown(all, last, i) = LastShown(seq, last, i)
               /\ Read(all, i) <=> Read(seq, i)
    BY <1>1 DEF LastShown, Read
  <1>4. Read(all, Len(all)) => Read(seq, Len(seq)) /\ msg.type # "close_queue"
    BY <1>1 DEF Read
  <1>5. \A last : LastShown(all, last, Len(all)) = msg.type
    BY <1>1 DEF LastShown
  <1> QED
    BY <1>2, <1>3, <1>4, <1>5

\* If it may be shown when they have been, the queue stays in order.
LEMMA AppendInOrder ==
  ASSUME NEW seq \in Seq(Message), NEW msg \in Message, NEW out, NEW last,
         InOrder(seq, last, out),
         Read(seq, Len(seq)) /\ msg.type # "close_queue" =>
            MayShow(LastShown(seq, last, Len(seq)), Left(seq, out, Len(seq)), msg)
  PROVE  InOrder(Append(seq, msg), last, out)
  <1>1. PICK all : all = Append(seq, msg) /\ Behind(all, seq, msg)
    BY DEF Behind
  <1>0. seq \in Seq(Message) /\ msg \in Message /\ Behind(all, seq, msg)
    BY <1>1
  <1>2. /\ all \in Seq(Message) /\ Len(all) = Len(seq) + 1 /\ Len(seq) \in Nat
        /\ \A i \in 1..Len(seq) : all[i] = seq[i]
        /\ all[Len(seq) + 1] = msg
        /\ DOMAIN all = 1..(Len(seq) + 1) /\ DOMAIN seq = 1..Len(seq)
    BY <1>1
  <1>3. /\ \A i \in 0..Len(seq) : /\ Left(all, out, i) = Left(seq, out, i)
                                  /\ LastShown(all, last, i) = LastShown(seq, last, i)
                                  /\ Read(all, i) <=> Read(seq, i)
        /\ Read(all, Len(all)) => Read(seq, Len(seq)) /\ msg.type # "close_queue"
    <2>0. \A i \in 0..Len(seq) : Left(all, out, i) = Left(seq, out, i)
      BY ONLY <1>0, BehindOthers
    <2>1. \A i \in 0..Len(seq) : LastShown(all, last, i) = LastShown(seq, last, i)
      BY ONLY <1>0, BehindOthers
    <2>2. \A i \in 0..Len(seq) : Read(all, i) <=> Read(seq, i)
      BY ONLY <1>0, BehindOthers
    <2>3. Read(all, Len(all)) => Read(seq, Len(seq)) /\ msg.type # "close_queue"
      BY ONLY <1>0, BehindOthers
    <2> QED
      BY <2>0, <2>1, <2>2, <2>3
  <1>4. ASSUME NEW i \in DOMAIN all, Read(all, i)
        PROVE  MayShow(LastShown(all, last, i - 1), Left(all, out, i - 1), all[i])
    <2>1. CASE i <= Len(seq)
      <3>1. i \in DOMAIN seq /\ i \in 0..Len(seq) /\ i - 1 \in 0..Len(seq) /\ all[i] = seq[i]
        BY <1>2, <2>1
      <3>2. Read(seq, i)
        BY <1>3, <1>4, <3>1
      <3>3. MayShow(LastShown(seq, last, i - 1), Left(seq, out, i - 1), seq[i])
        BY <3>1, <3>2 DEF InOrder
      <3> QED
        BY <1>3, <3>1, <3>3
    <2>2. CASE i = Len(seq) + 1
      <3>1. i - 1 = Len(seq) /\ Len(seq) \in 0..Len(seq) /\ all[i] = msg /\ i = Len(all)
        BY <1>2, <2>2
      <3>2. MayShow(LastShown(seq, last, Len(seq)), Left(seq, out, Len(seq)), msg)
        BY <1>3, <1>4, <3>1
      <3> QED
        BY <1>3, <3>1, <3>2
    <2> QED
      BY <1>2, <2>1, <2>2
  <1> QED
    BY <1>1, <1>4 DEF InOrder

\* What is left when all have been shown.
LEMMA LeftAfterAll ==
  ASSUME NEW seq \in Seq(Message), NEW out \in Nat
  PROVE  /\ Left(seq, out, Len(seq)) = InitialBalance - out - Amount * CountIn(seq, Handout)
         /\ \A msg \in Message : Left(Append(seq, msg), out, Len(seq) + 1)
                                    = Left(seq, out, Len(seq)) - Cash(msg)
  <1>1. Left(seq, out, Len(seq)) = InitialBalance - out - Amount * CountIn(seq, Handout)
    BY SubSeqFull DEF Left
  <1>2. ASSUME NEW msg \in Message
        PROVE  Left(Append(seq, msg), out, Len(seq) + 1) = Left(seq, out, Len(seq)) - Cash(msg)
    <2>0. Append(seq, msg) \in Seq(Message) /\ Len(Append(seq, msg)) = Len(seq) + 1
      OBVIOUS
    <2>1. PICK all \in Seq(Message) : all = Append(seq, msg) /\ Len(all) = Len(seq) + 1
      BY <2>0
    <2>2. SubSeq(all, 1, Len(all)) = all
      BY <2>1, SubSeqFull
    <2>3. Left(all, out, Len(seq) + 1) = InitialBalance - out - Amount * CountIn(all, Handout)
      BY <2>1, <2>2 DEF Left
    <2>4. CountIn(all, Handout) = CountIn(seq, Handout) + One(msg.type \in Handout)
      BY <2>1, CountAppend
    <2>5. PICK a \in Nat, b \in Nat, k \in Nat :
             a = Amount /\ b = InitialBalance /\ k = CountIn(seq, Handout)
      BY CountFinite, ATMAssumption
    <2>6. a * (k + 1) = a * k + a /\ a * (k + 0) = a * k /\ a * k \in Int
      BY <2>5
    <2>7. CASE msg.type \in Handout
      BY <1>1, <2>1, <2>3, <2>4, <2>5, <2>6, <2>7 DEF One, Cash
    <2>8. CASE msg.type \notin Handout
      BY <1>1, <2>1, <2>3, <2>4, <2>5, <2>6, <2>8 DEF One, Cash
    <2> QED
      BY <2>7, <2>8
  <1> QED
    BY <1>1, <1>2

\* When the first message of a queue has been displayed, the others are at
\* their places with one less before them.
LEMMA FirstShown ==
  ASSUME NEW seq \in Seq(Message), NEW out \in Nat,
         NEW h, h.type # "close_queue", NEW rest, InFront(h, rest, seq)
  PROVE  /\ \A i \in 0..Len(rest) : Left(rest, out + Cash(h), i) = Left(seq, out, i + 1)
         /\ \A last : \A i \in 0..Len(rest) :
               LastShown(rest, h.type, i) = LastShown(seq, last, i + 1)
         /\ \A i \in 0..Len(rest) : Read(rest, i) <=> Read(seq, i + 1)
  <1>1. /\ rest \in Seq(Message) /\ h \in Message /\ h = seq[1]
        /\ Len(seq) = Len(rest) + 1 /\ Len(rest) \in Nat
        /\ \A i \in 1..Len(rest) : rest[i] = seq[i + 1]
    BY HeadTailProperties DEF InFront
  <1>2. ASSUME NEW i \in 0..Len(rest)
        PROVE  Left(rest, out + Cash(h), i) = Left(seq, out, i + 1)
    <2>1. i + 1 \in 1..Len(seq) /\ i + 1 \in 0..Len(seq) /\ i \in Nat
      BY <1>1
    <2>2. PICK some \in Seq(Message) : some = SubSeq(seq, 1, i + 1)
      BY <2>1, Prefixes
    <2>3. Len(some) = i + 1 /\ \A j \in 1..(i + 1) : some[j] = seq[j]
      BY <2>1, <2>2, Prefixes
    <2>4. some # <<>> /\ Head(some) = h
      BY <1>1, <2>1, <2>3
    <2>5. Tail(some) = SubSeq(rest, 1, i)
      <3>1. Tail(some) \in Seq(Message) /\ Len(Tail(some)) = i
            /\ \A j \in 1..i : Tail(some)[j] = some[j + 1]
        BY <2>1, <2>3, <2>4, HeadTailProperties
      <3>2. SubSeq(rest, 1, i) \in Seq(Message) /\ Len(SubSeq(rest, 1, i)) = i
            /\ \A j \in 1..i : SubSeq(rest, 1, i)[j] = rest[j]
        BY <1>1, Prefixes
      <3>3. \A j \in 1..i : Tail(some)[j] = SubSeq(rest, 1, i)[j]
        <4>1. \A j \in 1..i : j \in 1..Len(rest) /\ j + 1 \in 1..(i + 1)
          BY <1>1, <2>1
        <4>2. \A j \in 1..i : Tail(some)[j] = seq[j + 1]
          BY <2>3, <3>1, <4>1
        <4>3. \A j \in 1..i : SubSeq(rest, 1, i)[j] = seq[j + 1]
          BY <1>1, <3>2, <4>1
        <4> QED
          BY <4>2, <4>3
      <3> QED
        BY <3>1, <3>2, <3>3, SeqEqual
    <2>6. CountIn(SubSeq(rest, 1, i), Handout)
             = CountIn(some, Handout) - One(h.type \in Handout)
      BY <2>4, <2>5, CountTail
    <2>7. PICK a \in Nat, b \in Nat, k \in Nat :
             a = Amount /\ b = InitialBalance /\ k = CountIn(some, Handout)
      BY CountFinite, ATMAssumption
    <2>8. a * (k - 1) = a * k - a /\ a * (k - 0) = a * k /\ a * k \in Int
      BY <2>7
    <2>9. Left(seq, out, i + 1) = b - out - a * k
      BY <2>2, <2>7 DEF Left
    <2>10. CASE h.type \in Handout
      BY <2>6, <2>7, <2>8, <2>9, <2>10 DEF One, Cash, Left
    <2>11. CASE h.type \notin Handout
      BY <2>6, <2>7, <2>8, <2>9, <2>11 DEF One, Cash, Left
    <2> QED
      BY <2>10, <2>11
  <1>3. ASSUME NEW last, NEW i \in 0..Len(rest)
        PROVE  LastShown(rest, h.type, i) = LastShown(seq, last, i + 1)
    BY <1>1 DEF LastShown
  <1>4. ASSUME NEW i \in 0..Len(rest)
        PROVE  Read(rest, i) <=> Read(seq, i + 1)
    <2>1. ASSUME Read(rest, i), NEW j \in 1..(i + 1) PROVE seq[j].type # "close_queue"
      <3>1. CASE j = 1
        BY <1>1, <3>1
      <3>2. CASE j # 1
        <4>1. j - 1 \in 1..i /\ j - 1 \in 1..Len(rest) /\ (j - 1) + 1 = j
          BY <1>1, <3>2
        <4> QED
          BY <1>1, <2>1, <4>1 DEF Read
      <3> QED
        BY <3>1, <3>2
    <2>2. ASSUME Read(seq, i + 1), NEW j \in 1..i PROVE rest[j].type # "close_queue"
      <3>1. j + 1 \in 1..(i + 1) /\ j \in 1..Len(rest)
        BY <1>1
      <3> QED
        BY <1>1, <2>2, <3>1 DEF Read
    <2> QED
      BY <2>1, <2>2 DEF Read
  <1> QED
    BY <1>1, <1>2, <1>3, <1>4

\* The first message of a queue in order may be shown, and the rest stays in order.
LEMMA TailInOrder ==
  ASSUME NEW seq \in Seq(Message), NEW out \in Nat, NEW last, InOrder(seq, last, out),
         NEW h, h.type # "close_queue", NEW rest, InFront(h, rest, seq)
  PROVE  /\ MayShow(last, InitialBalance - out, h)
         /\ InOrder(rest, h.type, out + Cash(h))
  <1> DEFINE now == out + Cash(h)
  <1>1. /\ rest \in Seq(Message) /\ h \in Message /\ h = seq[1]
        /\ Len(seq) = Len(rest) + 1 /\ Len(rest) \in Nat
        /\ \A i \in 1..Len(rest) : rest[i] = seq[i + 1]
    BY HeadTailProperties DEF InFront
  <1>2. \A i \in 0..Len(rest) :
           /\ Left(rest, now, i) = Left(seq, out, i + 1)
           /\ LastShown(rest, h.type, i) = LastShown(seq, last, i + 1)
           /\ Read(rest, i) <=> Read(seq, i + 1)
    <2>1. \A i \in 0..Len(rest) : Left(rest, now, i) = Left(seq, out, i + 1)
      BY FirstShown
    <2>2. \A i \in 0..Len(rest) : LastShown(rest, h.type, i) = LastShown(seq, last, i + 1)
      BY FirstShown
    <2>3. \A i \in 0..Len(rest) : Read(rest, i) <=> Read(seq, i + 1)
      BY FirstShown
    <2> QED
      BY <2>1, <2>2, <2>3
  <1> HIDE DEF now
  <1>3. MayShow(last, InitialBalance - out, h)
    <2>1. 1 \in DOMAIN seq /\ Read(seq, 1) /\ 1 - 1 = 0 /\ seq[1] = h
      BY <1>1 DEF Read
    <2>2. MayShow(LastShown(seq, last, 0), Left(seq, out, 0), h)
      BY <2>1 DEF InOrder
    <2>3. LastShown(seq, last, 0) = last
      BY DEF LastShown
    <2>4. 0 \in 0..Len(seq)
      BY <1>1
    <2> QED
      BY <2>2, <2>3, <2>4, LeftNumbers
  <1>4. ASSUME NEW i \in DOMAIN rest, Read(rest, i)
        PROVE  MayShow(LastShown(rest, h.type, i - 1), Left(rest, now, i - 1), rest[i])
    <2>1. /\ i \in 0..Len(rest) /\ i - 1 \in 0..Len(rest) /\ (i - 1) + 1 = i
          /\ i + 1 \in DOMAIN seq /\ (i + 1) - 1 = i /\ rest[i] = seq[i + 1]
      BY <1>1
    <2>2. Read(seq, i + 1)
      BY <1>2, <1>4, <2>1
    <2>3. MayShow(LastShown(seq, last, i), Left(seq, out, i), seq[i + 1])
      BY <2>1, <2>2 DEF InOrder
    <2>4. /\ Left(rest, now, i - 1) = Left(seq, out, i)
          /\ LastShown(rest, h.type, i - 1) = LastShown(seq, last, i)
      BY <1>2, <2>1
    <2> QED
      BY <2>1, <2>3, <2>4
  <1> QED
    BY <1>1, <1>3, <1>4 DEF InOrder, now

------------------------------------------------------------------------------
(* The dialogue goes on *)

\* What the cash machine sends to the terminal may be shown, and what it sends
\* to the bank is not seen.
LEMMA SendGoesOn ==
  ASSUME NEW s, NEW sends, sends # <<>>, AtmSends(s, sends),
         NEW last, NEW left \in Int, GoesOn(s, sends, last, left)
  PROVE  LET first == Head(sends)
         IN  /\ first.to = "interface" =>
                   /\ MayShow(last, left, first.msg)
                   /\ GoesOn(s, Tail(sends), first.msg.type, left - Cash(first.msg))
             /\ first.to # "interface" => GoesOn(s, Tail(sends), last, left)
  <1> DEFINE Ok(first, rest) ==
                /\ first.to = "interface" =>
                      /\ MayShow(last, left, first.msg)
                      /\ GoesOn(s, rest, first.msg.type, left - Cash(first.msg))
                /\ first.to # "interface" => GoesOn(s, rest, last, left)
  <1>1. /\ \A a : <<a>> # <<>> /\ Head(<<a>>) = a /\ Tail(<<a>>) = <<>>
        /\ \A a, b : <<a, b>> # <<>> /\ Head(<<a, b>>) = a /\ Tail(<<a, b>>) = <<b>>
    OBVIOUS
  <1>2. \A msg : msg.type # "issue_money" => left - Cash(msg) = left
    BY DEF Cash, Handout
  <1>3. CASE s = "waiting_for_card"
    <2>1. \/ /\ sends = <<ToInterface("display_enter_card")>>
             /\ last \in {"blank", "eject_card"}
          \/ /\ sends = <<ToInterface("eject_card"), ToInterface("display_enter_card")>>
             /\ last \in Ending
      BY <1>3 DEF GoesOn
    <2>2. \/ sends = <<ToInterface("display_enter_card")>>
             /\ Ok(ToInterface("display_enter_card"), <<>>)
          \/ sends = <<ToInterface("eject_card"), ToInterface("display_enter_card")>>
             /\ Ok(ToInterface("eject_card"), <<ToInterface("display_enter_card")>>)
      BY <1>2, <1>3, <2>1, DialogueRules DEF ToInterface, To, Signal, GoesOn, MayShow
    <2> QED
      BY <1>1, <2>2
  <1>4. CASE s = "getting_pin"
    <2>1. sends = <<ToInterface("display_enter_pin")>> /\ last = "display_enter_card"
      BY <1>4 DEF GoesOn
    <2>2. Ok(ToInterface("display_enter_pin"), <<>>)
      BY <1>2, <1>4, <2>1, DialogueRules DEF ToInterface, To, Signal, GoesOn, MayShow
    <2> QED
      BY <1>1, <2>1, <2>2
  <1>5. CASE s \in Awaiting
    <2>1. \E msg : sends = <<To("bank", msg)>>
      BY <1>5 DEF AtmSends, Awaiting
    <2>2. GoesOn(s, <<>>, last, left)
      BY <1>5 DEF GoesOn, Awaiting
    <2> QED
      BY <1>1, <2>1, <2>2 DEF To
  <1>6. CASE s = "wait_for_action"
    <2>1. \/ /\ sends = <<ToInterface("display_withdrawal_options")>>
             /\ last \in {"display_enter_pin", "display_balance"}
          \/ /\ sends = <<To("interface", display_balance(left)),
                          ToInterface("display_withdrawal_options")>>
             /\ last = "display_withdrawal_options"
      BY <1>6 DEF GoesOn
    <2>2. \/ sends = <<ToInterface("display_withdrawal_options")>>
             /\ Ok(ToInterface("display_withdrawal_options"), <<>>)
          \/ /\ sends = <<To("interface", display_balance(left)),
                          ToInterface("display_withdrawal_options")>>
             /\ Ok(To("interface", display_balance(left)),
                   <<ToInterface("display_withdrawal_options")>>)
      BY <1>2, <1>6, <2>1, DialogueRules
         DEF ToInterface, To, Signal, display_balance, GoesOn, MayShow
    <2> QED
      BY <1>1, <2>2
  <1>7. CASE s = "done_processing"
    <2>1. CASE /\ sends = <<ToInterface("display_pin_incorrect_message")>>
               /\ last = "display_enter_pin"
      <3>1. Ok(ToInterface("display_pin_incorrect_message"), <<>>)
        BY <1>2, <1>7, <2>1, DialogueRules DEF ToInterface, To, Signal, GoesOn, MayShow, Ending
      <3> QED
        BY <1>1, <2>1, <3>1
    <2>2. CASE /\ sends = <<ToInterface("issue_money"), To("bank", Signal("withdrawal_processed"))>>
               /\ last = "display_withdrawal_options" /\ left >= Amount
      <3>1. Ok(ToInterface("issue_money"), <<To("bank", Signal("withdrawal_processed"))>>)
        BY <1>7, <2>2, DialogueRules DEF ToInterface, To, Signal, GoesOn, MayShow
      <3> QED
        BY <1>1, <2>2, <3>1
    <2>3. CASE sends = <<To("bank", Signal("withdrawal_processed"))>> /\ last = "issue_money"
      <3>1. GoesOn(s, <<>>, last, left)
        BY <1>7, <2>3 DEF GoesOn, Ending
      <3> QED
        BY <1>1, <2>3, <3>1 DEF To
    <2>4. CASE /\ sends = <<ToInterface("display_insufficient_funds")>>
               /\ last = "display_withdrawal_options" /\ left < Amount
      <3>1. Ok(ToInterface("display_insufficient_funds"), <<>>)
        BY <1>2, <1>7, <2>4, DialogueRules DEF ToInterface, To, Signal, GoesOn, MayShow, Ending
      <3> QED
        BY <1>1, <2>4, <3>1
    <2>5. CASE /\ sends = <<To("bank", Signal("cancel_withdrawal")),
                            ToInterface("display_withdrawal_cancelled")>>
               /\ last = "display_withdrawal_options"
      <3>1. GoesOn(s, <<ToInterface("display_withdrawal_cancelled")>>, last, left)
        BY <1>7, <2>5 DEF GoesOn
      <3> QED
        BY <1>1, <2>5, <3>1 DEF To
    <2>6. CASE /\ sends = <<ToInterface("display_withdrawal_cancelled")>>
               /\ last = "display_withdrawal_options"
      <3>1. Ok(ToInterface("display_withdrawal_cancelled"), <<>>)
        BY <1>2, <1>7, <2>6, DialogueRules DEF ToInterface, To, Signal, GoesOn, MayShow, Ending
      <3> QED
        BY <1>1, <2>6, <3>1
    <2> QED
      BY <1>7, <2>1, <2>2, <2>3, <2>4, <2>5, <2>6 DEF GoesOn
  <1> QED
    BY <1>3, <1>4, <1>5, <1>6, <1>7 DEF GoesOn, Awaiting

\* A step that shows nothing and changes nothing in the terminal's queue keeps
\* the dialogue if what the cash machine does next still goes on with it.
LEMMA NothingShown ==
  ASSUME Shows, queue'["interface"] = queue["interface"], UNCHANGED <<screen, issued>>,
         "interface" \in running' => "interface" \in running,
         GoesOn(state, outbox["atm"], ShownLast, LeftThen)
            => GoesOn(state', outbox'["atm"], ShownLast, LeftThen)
  PROVE  Shows'
  BY DEF Shows, ShownLast, LeftThen, ReadsAll

\* The queue of the terminal is a queue of messages, and what is left a number.
LEMMA InterfaceQueue ==
  ASSUME Flow
  PROVE  /\ queue["interface"] \in Seq(Message) /\ issued \in Nat
         /\ LeftThen \in Int
  <1>1. queue["interface"] \in Seq(Message) /\ issued \in Nat
    BY ThreadNames DEF Flow, IInv, TypeOK
  <1>2. Len(queue["interface"]) \in 0..Len(queue["interface"])
    BY <1>1
  <1> QED
    BY <1>1, <1>2, LeftNumbers DEF LeftThen

\* What the cash machine and main send to the terminal keeps the dialogue.
LEMMA SendShows ==
  ASSUME Flow, Shows, NEW t \in Threads, Send(t)
  PROVE  Shows'
  <1>1. PICK s \in Sends :
           /\ s = Head(outbox[t]) /\ s.to \in Machines /\ s.msg \in Message
           /\ queue' = [queue EXCEPT ![s.to] = Append(@, s.msg)]
           /\ outbox' = [outbox EXCEPT ![t] = Tail(@)]
           /\ t \in {"main", "atm", "bank"}
           /\ t = "main" => s.msg.type \in InputTypes \cup {"close_queue"}
           /\ t = "bank" => s.to = "atm"
    BY NextSent
  <1>2. /\ UNCHANGED <<state, screen, issued, running>>
        /\ outbox[t] # <<>>
        /\ queue \in [Machines -> Seq(Message)] /\ outbox \in [Threads -> Seq(Sends)]
    BY DEF Send, atmVars, interfaceVars, Flow, IInv, TypeOK
  <1>3. t = "atm" =>
           /\ outbox'["atm"] = Tail(outbox["atm"])
           /\ s.to = "interface" /\ ReadsAll /\ "interface" \in running =>
                 /\ MayShow(ShownLast, LeftThen, s.msg)
                 /\ GoesOn(state, Tail(outbox["atm"]), s.msg.type, LeftThen - Cash(s.msg))
           /\ s.to # "interface" =>
                 (GoesOn(state, outbox["atm"], ShownLast, LeftThen)
                    => GoesOn(state, Tail(outbox["atm"]), ShownLast, LeftThen))
    <2>1. SUFFICES ASSUME t = "atm"
                   PROVE  /\ outbox'["atm"] = Tail(outbox["atm"])
                          /\ s.to = "interface" /\ ReadsAll /\ "interface" \in running =>
                                /\ MayShow(ShownLast, LeftThen, s.msg)
                                /\ GoesOn(state, Tail(outbox["atm"]), s.msg.type,
                                          LeftThen - Cash(s.msg))
                          /\ s.to # "interface" =>
                                (GoesOn(state, outbox["atm"], ShownLast, LeftThen)
                                   => GoesOn(state, Tail(outbox["atm"]), ShownLast, LeftThen))
      OBVIOUS
    <2>2. outbox["atm"] # <<>> /\ AtmSends(state, outbox["atm"]) /\ s = Head(outbox["atm"])
      BY <1>1, <1>2, <2>1 DEF Flow, Outboxes
    <2>3. ReadsAll /\ "interface" \in running => GoesOn(state, outbox["atm"], ShownLast, LeftThen)
      BY DEF Shows
    <2>4. outbox'["atm"] = Tail(outbox["atm"])
      BY <1>1, <1>2, <2>1, ThreadNames
    <2>5. LeftThen \in Int
      BY InterfaceQueue
    <2>6. GoesOn(state, outbox["atm"], ShownLast, LeftThen) =>
             /\ s.to = "interface" =>
                   /\ MayShow(ShownLast, LeftThen, s.msg)
                   /\ GoesOn(state, Tail(outbox["atm"]), s.msg.type, LeftThen - Cash(s.msg))
             /\ s.to # "interface" => GoesOn(state, Tail(outbox["atm"]), ShownLast, LeftThen)
      BY <2>2, <2>5, SendGoesOn
    <2> QED
      BY <2>3, <2>4, <2>6
  <1>4. CASE s.to # "interface"
    <2>1. queue'["interface"] = queue["interface"]
      BY <1>1, <1>2, <1>4, ThreadNames
    <2>2. t # "atm" => outbox'["atm"] = outbox["atm"]
      BY <1>1, <1>2, ThreadNames
    <2> QED
      BY <1>2, <1>3, <1>4, <2>1, <2>2, NothingShown
  <1>5. CASE s.to = "interface"
    <2> SUFFICES ASSUME "interface" \in running
                 PROVE  Shows'
      BY <1>2 DEF Shows
    <2> DEFINE q == queue["interface"]
               all == queue'["interface"]
    <2>1. Behind(all, q, s.msg) /\ q \in Seq(Message) /\ s.msg \in Message
          /\ Len(all) = Len(q) + 1 /\ Len(q) \in 0..Len(q) /\ issued \in Nat
      BY SMTT(30), <1>1, <1>2, <1>5, ThreadNames, InterfaceQueue DEF Behind
    <2>2. InOrder(q, screen.type, issued)
      BY DEF Shows
    <2>3. t = "main" => s.msg.type = "close_queue"
      <3>1. t = "main" => (s.msg.type \in InputTypes => s.to = "atm")
        BY <1>1, <1>2 DEF Flow, Outboxes, MainSends
      <3> QED
        BY <1>1, <1>5, <3>1
    <2>4. t = "atm" \/ s.msg.type = "close_queue"
      BY <1>1, <1>5, <2>3
    <2>5. ReadsAll /\ s.msg.type # "close_queue" => MayShow(ShownLast, LeftThen, s.msg)
      BY <1>3, <1>5, <2>4
    <2>6. InOrder(all, screen.type, issued)
      <3>1. InOrder(Append(q, s.msg), screen.type, issued)
        BY <2>1, <2>2, <2>5, AppendInOrder DEF ReadsAll, ShownLast, LeftThen
      <3> QED
        BY <2>1, <3>1 DEF Behind
    <2>7. ASSUME ReadsAll' PROVE GoesOn(state', outbox'["atm"], ShownLast', LeftThen')
      <3>1. Read(all, Len(all)) => Read(q, Len(q)) /\ s.msg.type # "close_queue"
        BY <2>1, BehindOthers
      <3>2. ReadsAll /\ s.msg.type # "close_queue"
        BY <2>7, <3>1 DEF ReadsAll
      <3>3. ShownLast' = s.msg.type
        <4>1. LastShown(all, screen.type, Len(all)) = s.msg.type
          BY <2>1, BehindOthers
        <4> QED
          BY <1>2, <4>1 DEF ShownLast
      <3>4. LeftThen' = LeftThen - Cash(s.msg)
        <4>1. Left(Append(q, s.msg), issued, Len(q) + 1) = Left(q, issued, Len(q)) - Cash(s.msg)
          BY <2>1, LeftAfterAll
        <4>2. Left(all, issued, Len(all)) = Left(q, issued, Len(q)) - Cash(s.msg)
          BY <2>1, <4>1 DEF Behind
        <4> QED
          BY <1>2, <4>2 DEF LeftThen
      <3> QED
        BY <1>2, <1>3, <1>5, <2>4, <3>2, <3>3, <3>4
    <2> QED
      BY <1>2, <2>6, <2>7 DEF Shows
  <1> QED
    BY <1>4, <1>5

------------------------------------------------------------------------------
(* What is left of the account *)

\* While the cash machine waits, money on its way is in the bank's answer or in
\* the terminal's queue.
LEMMA CashOnTheWay ==
  ASSUME Flow, outbox["atm"] = <<>>
  PROVE  /\ InFlight(CashTypes)
              = CountIn(queue["interface"], Handout) + InFlight({"withdraw_ok"})
         /\ CountIn(queue["interface"], Handout) \in Nat
         /\ InFlight({"withdraw_ok"}) \in Nat
  <1>1. CashTypes = Handout \cup {"withdraw_ok"} /\ Handout \cap {"withdraw_ok"} = {}
    BY DEF CashTypes, Handout
  <1>2. InFlight(CashTypes) = InFlight(Handout) + InFlight({"withdraw_ok"})
    BY <1>1, InFlightUnion
  <1>3. /\ \A m \in Machines : queue[m] \in Seq(Message)
        /\ Unsent("atm") \in Seq(Message) /\ Unsent("bank") \in Seq(Message)
        /\ outbox["bank"] \in Seq(Sends)
    BY CountTypes, ThreadNames DEF Flow, IInv, TypeOK
  <1>4. CountIn(queue["atm"], Handout) = 0 /\ CountIn(queue["bank"], Handout) = 0
    <2>1. Types(queue["atm"]) \cap Handout = {} /\ Types(queue["bank"]) \cap Handout = {}
      BY DEF Flow, Queues, Handout, InputTypes, KeySignals, ReplyTypes, RequestTypes, NoticeTypes
    <2> QED
      BY <1>3, <2>1, CountFinite, ThreadNames
  <1>5. CountIn(Unsent("atm"), Handout) = 0
    <2>1. Unsent("atm") = Msgs(<<>>)
      BY UnsentMsgs
    <2> QED
      BY <2>1, SendsCount
  <1>6. CountIn(Unsent("bank"), Handout) = 0
    <2>1. \A i \in DOMAIN outbox["bank"] : outbox["bank"][i].msg.type \in ReplyTypes
      <3>1. CASE outbox["bank"] = <<>>
        BY <3>1
      <3>2. CASE outbox["bank"] # <<>>
        <4>1. PICK msg \in Message : msg.type \in ReplyTypes /\ outbox["bank"] = <<To("atm", msg)>>
          BY <3>2 DEF Flow, Outboxes
        <4>2. DOMAIN outbox["bank"] = {1} /\ outbox["bank"][1] = To("atm", msg)
          BY <4>1
        <4> QED
          BY <4>1, <4>2 DEF To
      <3> QED
        BY <3>1, <3>2
    <2>2. Types(Unsent("bank")) \cap Handout = {}
      BY <2>1, TypesUnsent DEF Handout, ReplyTypes
    <2> QED
      BY <1>3, <2>2, CountFinite
  <1>7. CountIn(queue["interface"], Handout) \in Nat /\ InFlight({"withdraw_ok"}) \in Nat
    BY CountTypes, ThreadNames
  <1>8. InFlight(Handout) = CountIn(queue["interface"], Handout)
    BY <1>4, <1>5, <1>6, <1>7 DEF InFlight
  <1> QED
    BY <1>2, <1>7, <1>8

\* Once all that is sent has been shown, the account holds what the bank has in
\* balance, but for a withdrawal it has just approved.
LEMMA LeftIsBalance ==
  ASSUME MoneyInv, ~Over, outbox["atm"] = <<>>
  PROVE  LeftThen = balance - debit + Amount * InFlight({"withdraw_ok"})
  <1>0. Flow
    BY DEF MoneyInv, SessionInv
  <1>1. PICK a \in Int, c \in Int, k \in Int, x \in Int, y \in Int, d \in Int, o \in Int :
           /\ a = Amount /\ c = CountIn(queue["interface"], Handout)
           /\ k = InFlight({"withdraw_ok"})
           /\ x = InitialBalance /\ y = balance /\ d = debit /\ o = issued
    BY <1>0, CashOnTheWay, MoneyNumbers, ATMAssumption
  <1>2. CashUnderWay = a * (c + k)
    BY <1>0, <1>1, CashOnTheWay, MoneyNumbers
  <1>3. Lost = 0
    BY DEF MoneyInv
  <1>4. (x - y + d) - (o + a * (c + k)) = 0
    BY <1>1, <1>2, <1>3 DEF Lost, Debited
  <1>5. LeftThen = x - o - a * c
    BY <1>0, <1>1, InterfaceQueue, LeftAfterAll DEF LeftThen
  <1>6. x - o - a * c = y - d + a * k
    <2>1. PICK u \in Int, v \in Int : u = a * c /\ v = a * k /\ a * (c + k) = u + v
      BY <1>1
    <2>2. (x - y + d) - (o + (u + v)) = 0
      BY <1>4, <2>1
    <2>3. x - o - u = y - d + v
      BY <1>1, <2>2
    <2> QED
      BY <2>1, <2>3
  <1> QED
    BY <1>1, <1>5, <1>6

\* A withdrawal is approved only in the state that waits for it, and not when
\* it has been refused.
LEMMA NoneApproved ==
  ASSUME SessionInv, ~Over,
         \/ state # "process_withdrawal"
         \/ "withdraw_denied" \in Types(queue["atm"])
  PROVE  InFlight({"withdraw_ok"}) = 0
  <1> DEFINE W == Exchange["process_withdrawal"]
             R == {"withdraw", "withdraw_denied"}
  <1>1. Flow /\ W = {"withdraw_ok"} \cup R /\ {"withdraw_ok"} \cap R = {}
    BY Exchanges DEF SessionInv
  <1>2. InFlight(W) = IF state = "process_withdrawal" THEN 1 ELSE 0
    BY Exchanges DEF SessionInv, OneOfEach
  <1>3. "withdraw_denied" \in Types(queue["atm"]) => InFlight(R) > 0
    <2>1. SUFFICES ASSUME "withdraw_denied" \in Types(queue["atm"]) PROVE InFlight(R) > 0
      OBVIOUS
    <2>2. Types(queue["atm"]) \cap R # {} /\ queue["atm"] \in Seq(Message)
      BY <1>1, <2>1, ThreadNames DEF Flow, IInv, TypeOK
    <2>3. CountIn(queue["atm"], R) # 0
      BY <2>2, CountFinite
    <2> HIDE DEF R
    <2>4. /\ \A m \in Machines : CountIn(queue[m], R) \in Nat
          /\ \A t \in Threads : CountIn(Unsent(t), R) \in Nat
      BY <1>1, CountTypes
    <2>5. /\ CountIn(queue["atm"], R) \in Nat /\ CountIn(queue["bank"], R) \in Nat
          /\ CountIn(queue["interface"], R) \in Nat
          /\ CountIn(Unsent("atm"), R) \in Nat /\ CountIn(Unsent("bank"), R) \in Nat
      BY <2>4, ThreadNames
    <2> QED
      BY <2>3, <2>5 DEF InFlight
  <1> HIDE DEF W, R
  <1>4. InFlight(W) = InFlight({"withdraw_ok"}) + InFlight(R)
    BY <1>1, InFlightUnion
  <1>5. InFlight({"withdraw_ok"}) \in Nat /\ InFlight(R) \in Nat
    BY <1>1, CountTypes
  <1> QED
    BY <1>2, <1>3, <1>4, <1>5

------------------------------------------------------------------------------
(* Each handler goes on with the dialogue *)

\* A handler goes on with the dialogue if what it sends does.
LEMMA HandlerShows ==
  ASSUME Flow, Shows, NEW s, NEW type, NEW sends, NEW next, OnMessage(s, type, sends, next),
         NEW all, sends \o Entry(next) = all,
         GoesOn(s, <<>>, ShownLast, LeftThen) => GoesOn(next, all, ShownLast, LeftThen)
  PROVE  Shows'
  <1>1. /\ state = s /\ state' = next /\ outbox["atm"] = <<>> /\ outbox'["atm"] = all
        /\ queue'["interface"] = queue["interface"] /\ UNCHANGED <<screen, issued, running>>
    BY ThreadNames DEF OnMessage, Take, Arrived, Ready, interfaceVars, Flow, IInv, TypeOK
  <1> QED
    BY <1>1, NothingShown

\* The handlers that say nothing of the account, ...
LEMMA PlainHandlerShows ==
  ASSUME Flow, Shows,
         \/ CardInserted \/ DigitPressed \/ PinVerified \/ PinIncorrect
         \/ WithdrawPressed \/ BalancePressed \/ CancelWithdrawal \/ CancelPressed
         \/ AtmDiscards \/ DoneProcessing
  PROVE  Shows'
  <1>1. CASE CardInserted
    <2>1. PICK all : all = <<ToInterface("display_enter_pin")>>
      OBVIOUS
    <2>2. OnMessage("waiting_for_card", "card_inserted", all, "getting_pin")
          /\ all \o Entry("getting_pin") = all
      BY <1>1, <2>1, SendsOfHandlers DEF CardInserted
    <2>3. GoesOn("waiting_for_card", <<>>, ShownLast, LeftThen)
            => GoesOn("getting_pin", all, ShownLast, LeftThen)
      BY <2>1 DEF GoesOn
    <2> QED
      BY <2>2, <2>3, HandlerShows
  <1>2. CASE DigitPressed
    <2>1. PICK sends, next :
             /\ OnMessage("getting_pin", "digit_pressed", sends, next)
             /\ \/ \E msg : sends = <<To("bank", msg)>> /\ next = "verifying_pin"
                \/ sends = <<>> /\ next = "getting_pin"
      BY <1>2 DEF DigitPressed
    <2>2. sends \o Entry(next) = sends
      BY <2>1, SendsOfHandlers
    <2>3. GoesOn("getting_pin", <<>>, ShownLast, LeftThen)
            => GoesOn(next, sends, ShownLast, LeftThen)
      BY <2>1 DEF GoesOn
    <2> QED
      BY <2>1, <2>2, <2>3, HandlerShows
  <1>3. CASE PinVerified
    <2>1. PICK all : all = <<ToInterface("display_withdrawal_options")>>
      OBVIOUS
    <2>2. OnMessage("verifying_pin", "pin_verified", <<>>, "wait_for_action")
          /\ <<>> \o Entry("wait_for_action") = all
      BY <1>3, <2>1, SendsOfHandlers DEF PinVerified
    <2>3. GoesOn("verifying_pin", <<>>, ShownLast, LeftThen)
            => GoesOn("wait_for_action", all, ShownLast, LeftThen)
      BY <2>1 DEF GoesOn
    <2> QED
      BY <2>2, <2>3, HandlerShows
  <1>4. CASE PinIncorrect
    <2>1. PICK all : all = <<ToInterface("display_pin_incorrect_message")>>
      OBVIOUS
    <2>2. OnMessage("verifying_pin", "pin_incorrect", all, "done_processing")
          /\ all \o Entry("done_processing") = all
      BY <1>4, <2>1, SendsOfHandlers DEF PinIncorrect
    <2>3. GoesOn("verifying_pin", <<>>, ShownLast, LeftThen)
            => GoesOn("done_processing", all, ShownLast, LeftThen)
      BY <2>1 DEF GoesOn
    <2> QED
      BY <2>2, <2>3, HandlerShows
  <1>5. CASE WithdrawPressed \/ BalancePressed
    <2>1. ASSUME NEW type, NEW s, NEW next \in {"process_withdrawal", "process_balance"},
                 OnMessage("wait_for_action", type, <<s>>, next)
          PROVE  Shows'
      <3>1. <<s>> \o Entry(next) = <<s>>
        BY SendsOfHandlers
      <3>2. GoesOn("wait_for_action", <<>>, ShownLast, LeftThen)
              => GoesOn(next, <<s>>, ShownLast, LeftThen)
        BY DEF GoesOn
      <3> QED
        BY <2>1, <3>1, <3>2, HandlerShows
    <2> QED
      BY <1>5, <2>1 DEF WithdrawPressed, BalancePressed
  <1>6. CASE CancelWithdrawal
    <2>1. PICK all : all = <<To("bank", Signal("cancel_withdrawal")),
                             ToInterface("display_withdrawal_cancelled")>>
      OBVIOUS
    <2>2. OnMessage("process_withdrawal", "cancel_pressed", all, "done_processing")
          /\ all \o Entry("done_processing") = all
      BY <1>6, <2>1, SendsOfHandlers DEF CancelWithdrawal
    <2>3. GoesOn("process_withdrawal", <<>>, ShownLast, LeftThen)
            => GoesOn("done_processing", all, ShownLast, LeftThen)
      BY <2>1 DEF GoesOn
    <2> QED
      BY <2>2, <2>3, HandlerShows
  <1>7. CASE CancelPressed
    <2>1. PICK s \in {"getting_pin", "verifying_pin", "wait_for_action", "process_balance"} :
             OnMessage(s, "cancel_pressed", <<>>, "done_processing")
      BY <1>7 DEF CancelPressed
    <2>2. <<>> \o Entry("done_processing") = <<>>
      BY SendsOfHandlers
    <2>3. GoesOn(s, <<>>, ShownLast, LeftThen)
            => GoesOn("done_processing", <<>>, ShownLast, LeftThen)
      BY DEF GoesOn, Ending
    <2> QED
      BY <2>1, <2>2, <2>3, HandlerShows
  <1>8. CASE AtmDiscards
    <2>1. /\ queue'["interface"] = queue["interface"]
          /\ UNCHANGED <<screen, issued, running, state, outbox>>
      BY <1>8, ThreadNames
         DEF AtmDiscards, Take, atmVars, interfaceVars, Flow, IInv, TypeOK
    <2> QED
      BY <2>1, NothingShown
  <1>9. CASE DoneProcessing
    <2>1. PICK all : all = <<ToInterface("eject_card"), ToInterface("display_enter_card")>>
      OBVIOUS
    <2>2. /\ state = "done_processing" /\ state' = "waiting_for_card"
          /\ outbox["atm"] = <<>> /\ outbox'["atm"] = all
          /\ UNCHANGED <<queue, screen, issued, running>>
      BY <1>9, <2>1, SendsOfHandlers, ThreadNames
         DEF DoneProcessing, Ready, interfaceVars, Flow, IInv, TypeOK
    <2>3. GoesOn("done_processing", <<>>, ShownLast, LeftThen)
            => GoesOn("waiting_for_card", all, ShownLast, LeftThen)
      BY <2>1 DEF GoesOn
    <2> QED
      BY <2>2, <2>3, NothingShown
  <1> QED
    BY <1>1, <1>2, <1>3, <1>4, <1>5, <1>6, <1>7, <1>8, <1>9

\* ... and those that answer with a balance, with money or with a refusal.
LEMMA AnswerShows ==
  ASSUME DialogueInv, BalanceArrived \/ WithdrawOk \/ WithdrawDenied
  PROVE  Shows'
  <1>0. /\ Flow /\ Shows /\ SessionInv /\ MoneyInv
        /\ state \in {"process_balance", "process_withdrawal"}
        /\ ~Over /\ outbox["atm"] = <<>>
    BY DEF DialogueInv, MoneyInv, SessionInv, BalanceArrived, WithdrawOk, WithdrawDenied,
       OnMessage, Take, Arrived, Ready, Over
  <1>1. LeftThen = balance - debit + Amount * InFlight({"withdraw_ok"})
    BY <1>0, LeftIsBalance
  <1>2. /\ balance \in Int /\ debit \in Int /\ debit >= 0 /\ balance >= debit
        /\ Amount \in Nat /\ InFlight({"withdraw_ok"}) \in Nat
    BY <1>0, MoneyNumbers, CashOnTheWay, ATMAssumption DEF Flow, IInv, TypeOK
  <1>3. ASSUME NEW type, Take("atm", type)
        PROVE  /\ TrueOf(Head(queue["atm"]), balance, debit)
               /\ Head(queue["atm"]).type = type
               /\ type \in Types(queue["atm"]) /\ Head(queue["atm"]) \in Message
    <2>1. /\ queue["atm"] # <<>> /\ Head(queue["atm"]).type = type
          /\ queue["atm"] \in Seq(Message)
      BY <1>0, <1>3, ThreadNames DEF Take, Arrived, Flow, IInv, TypeOK
    <2>2. 1 \in DOMAIN queue["atm"] /\ Head(queue["atm"]) = queue["atm"][1]
      BY <2>1
    <2>3. Head(queue["atm"]) \in Pending
      BY <2>2 DEF Pending
    <2>4. Head(queue["atm"]) \in Message
      BY <2>1
    <2> QED
      BY <1>0, <2>1, <2>3, <2>4, TypesOfQueue DEF DialogueInv, AnswersTrue
  <1>4. CASE BalanceArrived
    <2>1. PICK msg \in Message :
             /\ msg = Head(queue["atm"]) /\ Take("atm", "balance") /\ msg.type = "balance"
             /\ TrueOf(msg, balance, debit)
             /\ state = "process_balance"
             /\ OnMessage("process_balance", "balance",
                          <<To("interface", display_balance(msg.amount))>>, "wait_for_action")
      BY <1>3, <1>4 DEF BalanceArrived, OnMessage
    <2>2. InFlight({"withdraw_ok"}) = 0
      BY <1>0, <2>1, NoneApproved
    <2>3. LeftThen = msg.amount
      BY <1>1, <1>2, <2>1, <2>2 DEF TrueOf
    <2>4. msg.amount \in 0..InitialBalance
      BY <2>1, MessageFields
    <2>5. PICK all : all = <<To("interface", display_balance(msg.amount)),
                             ToInterface("display_withdrawal_options")>>
      OBVIOUS
    <2>6. PICK sends : /\ OnMessage("process_balance", "balance", sends, "wait_for_action")
                       /\ sends \o Entry("wait_for_action") = all
      BY <2>1, <2>4, <2>5, SendsOfHandlers
    <2>7. GoesOn("process_balance", <<>>, ShownLast, LeftThen)
            => GoesOn("wait_for_action", all, ShownLast, LeftThen)
      BY <2>3, <2>5 DEF GoesOn
    <2> QED
      BY <1>0, <2>6, <2>7, HandlerShows
  <1>5. CASE WithdrawOk
    <2>1. PICK all : all = <<ToInterface("issue_money"), To("bank", Signal("withdrawal_processed"))>>
      OBVIOUS
    <2>2. OnMessage("process_withdrawal", "withdraw_ok", all, "done_processing")
          /\ all \o Entry("done_processing") = all
      BY <1>5, <2>1, SendsOfHandlers DEF WithdrawOk
    <2>3. InFlight({"withdraw_ok"}) > 0
      <3>1. all \in Seq(Sends) /\ Posts("atm", all)
        <4>1. outbox' \in [Threads -> Seq(Sends)]
          BY <1>0, <1>5, AtmHandlerFlow DEF AtmHandler, Flow, IInv, TypeOK
        <4>2. outbox' = [outbox EXCEPT !["atm"] = all]
          BY <2>2 DEF OnMessage
        <4>3. outbox'["atm"] = all
          BY <1>0, <4>2, ThreadNames DEF Flow, IInv, TypeOK
        <4> QED
          BY <4>1, <4>2, <4>3, ThreadNames DEF Posts
      <3>2. Take("atm", "withdraw_ok")
        BY <2>2 DEF OnMessage
      <3>3. "atm" \in Machines /\ ("atm" = "interface" => all = <<>>)
        BY ThreadNames
      <3> QED
        BY <1>0, <3>1, <3>2, <3>3, TakeCounts
    <2>4. LeftThen >= Amount
      <3>1. PICK a \in Nat, k \in Nat : a = Amount /\ k = InFlight({"withdraw_ok"})
        BY <1>2
      <3>2. k > 0 => a * k >= a
        BY <3>1
      <3>3. a * k \in Int
        BY <3>1
      <3> QED
        BY <1>1, <1>2, <2>3, <3>1, <3>2, <3>3
    <2>5. GoesOn("process_withdrawal", <<>>, ShownLast, LeftThen)
            => GoesOn("done_processing", all, ShownLast, LeftThen)
      BY <2>1, <2>4 DEF GoesOn
    <2> QED
      BY <1>0, <2>2, <2>5, HandlerShows
  <1>6. CASE WithdrawDenied
    <2>1. PICK all : all = <<ToInterface("display_insufficient_funds")>>
      OBVIOUS
    <2>2. OnMessage("process_withdrawal", "withdraw_denied", all, "done_processing")
          /\ all \o Entry("done_processing") = all
      BY <1>6, <2>1, SendsOfHandlers DEF WithdrawDenied
    <2>3. /\ TrueOf(Head(queue["atm"]), balance, debit)
          /\ Head(queue["atm"]).type = "withdraw_denied"
          /\ "withdraw_denied" \in Types(queue["atm"])
      BY <1>3, <2>2 DEF OnMessage
    <2>4. InFlight({"withdraw_ok"}) = 0
      BY <1>0, <2>3, NoneApproved
    <2>5. LeftThen < Amount
      BY <1>1, <1>2, <2>3, <2>4 DEF TrueOf
    <2>6. GoesOn("process_withdrawal", <<>>, ShownLast, LeftThen)
            => GoesOn("done_processing", all, ShownLast, LeftThen)
      BY <2>1, <2>5 DEF GoesOn
    <2> QED
      BY <1>0, <2>2, <2>6, HandlerShows
  <1> QED
    BY <1>4, <1>5, <1>6

------------------------------------------------------------------------------
(* The terminal *)

\* What is displayed may be shown, and the rest of the queue goes on with it.
LEMMA DisplayShows ==
  ASSUME Flow, Shows, Display
  PROVE  /\ MayShow(screen.type, InitialBalance - issued, screen')
         /\ issued' = issued + Cash(screen')
         /\ Shows'
  <1> DEFINE q == queue["interface"]
             rest == queue'["interface"]
  <1>1. PICK type \in DisplayTypes :
           /\ Take("interface", type)
           /\ issued' = IF type = "issue_money" THEN issued + Amount ELSE issued
    BY DEF Display
  <1>2. PICK h : h = Head(q) /\ screen' = h
    BY DEF Display
  <1>3. /\ q # <<>> /\ h.type = type /\ rest = Tail(q)
        /\ "interface" \in running /\ UNCHANGED <<running, state, outbox>>
        /\ q \in Seq(Message) /\ issued \in Nat
    BY <1>1, <1>2, ThreadNames, InterfaceQueue
       DEF Display, Take, Arrived, atmVars, Flow, IInv, TypeOK
  <1>4. /\ InFront(h, rest, q) /\ h.type # "close_queue"
        /\ issued' = issued + Cash(h)
    BY <1>1, <1>2, <1>3 DEF InFront, DisplayTypes, Cash, Handout
  <1>0. q \in Seq(Message) /\ issued \in Nat /\ InFront(h, rest, q) /\ h.type # "close_queue"
    BY <1>3, <1>4
  <1>5. Len(q) = Len(rest) + 1 /\ Len(rest) \in Nat /\ Len(rest) \in 0..Len(rest)
    BY <1>3
  <1>6. InOrder(q, screen.type, issued)
    BY <1>3 DEF Shows
  <1>7. /\ MayShow(screen.type, InitialBalance - issued, h)
        /\ InOrder(rest, h.type, issued + Cash(h))
    BY <1>3, <1>4, <1>6, TailInOrder
  <1>8. ReadsAll' => ReadsAll
    <2>1. \A i \in 0..Len(rest) : Read(rest, i) <=> Read(q, i + 1)
      BY ONLY <1>0, FirstShown
    <2> QED
      BY <1>5, <2>1 DEF ReadsAll
  <1>9. LeftThen' = LeftThen
    <2>1. \A i \in 0..Len(rest) : Left(rest, issued + Cash(h), i) = Left(q, issued, i + 1)
      BY ONLY <1>0, FirstShown
    <2> QED
      BY <1>4, <1>5, <2>1 DEF LeftThen
  <1>10. ShownLast' = ShownLast
    <2>1. \A i \in 0..Len(rest) : LastShown(rest, h.type, i) = LastShown(q, screen.type, i + 1)
      BY ONLY <1>0, FirstShown
    <2> QED
      BY <1>2, <1>5, <2>1 DEF ShownLast
  <1>11. InOrder(queue["interface"], screen.type, issued)'
    BY <1>2, <1>4, <1>7
  <1>12. ReadsAll' => GoesOn(state, outbox["atm"], ShownLast, LeftThen)'
    BY <1>3, <1>8, <1>9, <1>10 DEF Shows
  <1> QED
    BY <1>2, <1>4, <1>7, <1>11, <1>12 DEF Shows

\* Every step goes on with the dialogue.
LEMMA NextShows ==
  ASSUME DialogueInv, [Next]_vars
  PROVE  Shows'
  <1>0. Flow /\ Shows /\ queue \in [Machines -> Seq(Message)] /\ outbox \in [Threads -> Seq(Sends)]
    BY DEF DialogueInv, MoneyInv, SessionInv, Flow, IInv, TypeOK
  <1>1. ASSUME queue'["interface"] = queue["interface"], UNCHANGED <<screen, issued, state>>,
               "interface" \in running' => "interface" \in running,
               outbox'["atm"] = outbox["atm"]
        PROVE  Shows'
    BY <1>0, <1>1, NothingShown
  <1>2. CASE Keyboard
    <2>1. ASSUME NEW sends, MainPosts(sends) PROVE Shows'
      BY <1>0, <1>1, <2>1, ThreadNames DEF MainPosts, atmVars, interfaceVars
    <2> QED
      BY <1>2, <2>1 DEF Keyboard, PressDigit, PressKey, Key, PressCancel, PressQuit
  <1>3. CASE Join \/ UNCHANGED vars
    BY <1>1, <1>3 DEF Join, atmVars, interfaceVars, vars
  <1>4. ASSUME NEW t \in Threads, Send(t) PROVE Shows'
    BY <1>0, <1>4, SendShows
  <1>5. CASE Close("atm") \/ Close("bank")
    BY <1>0, <1>1, <1>5, ThreadNames DEF Close, Take, atmVars, interfaceVars
  <1>6. CASE Close("interface")
    BY <1>6 DEF Close, Shows
  <1>7. CASE AtmHandler
    BY <1>0, <1>7, PlainHandlerShows, AnswerShows DEF AtmHandler
  <1>8. CASE BankHandler
    <2>1. UNCHANGED <<running, state, screen, issued>>
      BY <1>8 DEF BankHandler, VerifyPin, Withdraw, Debit, GetBalance, BankNotified, BankReplies,
         atmVars, interfaceVars
    <2>2. queue'["interface"] = queue["interface"]
      BY <1>0, <1>8, ThreadNames
         DEF BankHandler, VerifyPin, Withdraw, Debit, GetBalance, BankNotified, Take
    <2>3. outbox'["atm"] = outbox["atm"]
      BY <1>0, <1>8, ThreadNames
         DEF BankHandler, VerifyPin, Withdraw, Debit, GetBalance, BankNotified, BankReplies
    <2> QED
      BY <1>1, <2>1, <2>2, <2>3
  <1>9. CASE Display
    BY <1>0, <1>9, DisplayShows
  <1> QED
    BY <1>2, <1>3, <1>4, <1>5, <1>6, <1>7, <1>8, <1>9, ThreadNames
       DEF Next, Terminated, MainStep, AtmStep, BankStep, InterfaceStep

------------------------------------------------------------------------------
(* The answers of the bank *)

\* Answers that are no news stay true while the account is what it was.
LEMMA SameAnswers ==
  ASSUME AnswersTrue, Over => Over', UNCHANGED <<balance, debit>>,
         \A msg \in Pending' :
            \/ msg \in Pending
            \/ ~Over => TrueOf(msg, balance, debit)
  PROVE  AnswersTrue'
  BY DEF AnswersTrue

\* A message sent was pending, or is not an answer.
LEMMA SendAnswers ==
  ASSUME Flow, AnswersTrue, Over => Over', NEW t \in Threads, Send(t)
  PROVE  AnswersTrue'
  <1>1. PICK s \in Sends :
           /\ s = Head(outbox[t]) /\ s.to \in Machines /\ s.msg \in Message
           /\ queue' = [queue EXCEPT ![s.to] = Append(@, s.msg)]
           /\ outbox' = [outbox EXCEPT ![t] = Tail(@)]
           /\ t \in {"main", "atm", "bank"}
           /\ t = "main" => s.msg.type \in InputTypes \cup {"close_queue"}
           /\ t = "bank" => s.to = "atm"
           /\ t = "atm" => s.to # "atm"
           /\ UNCHANGED <<balance, debit>>
    BY NextSent
  <1>2. /\ outbox[t] # <<>>
        /\ queue \in [Machines -> Seq(Message)] /\ outbox \in [Threads -> Seq(Sends)]
    BY DEF Send, Flow, IInv, TypeOK
  <1>3. \A i \in DOMAIN queue'["atm"] :
           \/ i \in DOMAIN queue["atm"] /\ queue'["atm"][i] = queue["atm"][i]
           \/ queue'["atm"][i] = s.msg /\ s.to = "atm"
    <2>1. CASE s.to = "atm"
      <3>1. queue'["atm"] = Append(queue["atm"], s.msg) /\ queue["atm"] \in Seq(Message)
        BY <1>1, <1>2, <2>1
      <3> QED
        BY <1>1, <2>1, <3>1
    <2>2. CASE s.to # "atm"
      BY <1>1, <1>2, <2>2, ThreadNames
    <2> QED
      BY <2>1, <2>2
  <1>4. \A i \in DOMAIN outbox'["bank"] :
           \E j \in DOMAIN outbox["bank"] : outbox'["bank"][i] = outbox["bank"][j]
    <2>1. CASE t = "bank"
      <3>1. /\ outbox'["bank"] = Tail(outbox["bank"]) /\ outbox["bank"] \in Seq(Sends)
            /\ outbox["bank"] # <<>>
        BY <1>1, <1>2, <2>1
      <3>2. \A i \in DOMAIN Tail(outbox["bank"]) :
               i + 1 \in DOMAIN outbox["bank"] /\ Tail(outbox["bank"])[i] = outbox["bank"][i + 1]
        BY <3>1
      <3> QED
        BY <3>1, <3>2
    <2>2. CASE t # "bank"
      BY <1>1, <1>2, <2>2, ThreadNames
    <2> QED
      BY <2>1, <2>2
  <1>5. s.to = "atm" => s.msg \in Pending \/ s.msg.type \in InputTypes \cup {"close_queue"}
    <2>1. t = "bank" => 1 \in DOMAIN outbox["bank"] /\ s = outbox["bank"][1]
      BY <1>1, <1>2
    <2>2. t = "bank" => s.msg \in Pending
      BY <2>1 DEF Pending
    <2> QED
      BY <1>1, <2>2
  <1>6. \A msg : msg.type \in InputTypes \cup {"close_queue"} => TrueOf(msg, balance, debit)
    BY DEF TrueOf, InputTypes, KeySignals
  <1>7. ASSUME NEW msg \in Pending'
        PROVE  msg \in Pending \/ TrueOf(msg, balance, debit)
    <2>1. CASE \E i \in DOMAIN queue'["atm"] : msg = queue'["atm"][i]
      BY <1>3, <1>5, <1>6, <2>1 DEF Pending
    <2>2. CASE \E i \in DOMAIN outbox'["bank"] : msg = outbox'["bank"][i].msg
      BY <1>4, <2>2 DEF Pending
    <2> QED
      BY <1>7, <2>1, <2>2 DEF Pending
  <1> QED
    BY <1>1, <1>7, SameAnswers

\* To take a message brings no answer.
LEMMA TakePending ==
  ASSUME Flow, NEW t \in Machines, NEW type, Take(t, type)
  PROVE  \A i \in DOMAIN queue'["atm"] :
            \E j \in DOMAIN queue["atm"] : queue'["atm"][i] = queue["atm"][j]
  <1>1. /\ queue \in [Machines -> Seq(Message)] /\ queue[t] # <<>>
        /\ queue' = [queue EXCEPT ![t] = Tail(@)]
    BY DEF Take, Arrived, Flow, IInv, TypeOK
  <1>2. CASE t = "atm"
    <2>1. queue'["atm"] = Tail(queue["atm"]) /\ queue["atm"] \in Seq(Message) /\ queue["atm"] # <<>>
      BY <1>1, <1>2
    <2> QED
      BY <2>1, TailElements
  <1>3. CASE t # "atm"
    BY <1>1, <1>3, ThreadNames
  <1> QED
    BY <1>2, <1>3

\* Nor does a step after which the bank has nothing new to send.
LEMMA NoNewAnswer ==
  ASSUME AnswersTrue, Over => Over', UNCHANGED <<balance, debit>>,
         outbox'["bank"] = outbox["bank"],
         \A i \in DOMAIN queue'["atm"] :
            \E j \in DOMAIN queue["atm"] : queue'["atm"][i] = queue["atm"][j]
  PROVE  AnswersTrue'
  <1>1. \A msg \in Pending' : msg \in Pending
    BY DEF Pending
  <1> QED
    BY <1>1, SameAnswers

\* The bank's new answer is the only one that may be new.
LEMMA NewAnswer ==
  ASSUME Flow, NEW type, Take("bank", type), NEW msg, BankReplies(msg)
  PROVE  Pending' \subseteq Pending \cup {msg}
  <1>1. /\ queue'["atm"] = queue["atm"] /\ outbox'["bank"] = <<To("atm", msg)>>
    BY ThreadNames DEF Take, BankReplies, Flow, IInv, TypeOK
  <1>2. \A i \in DOMAIN outbox'["bank"] : outbox'["bank"][i].msg = msg
    BY <1>1 DEF To
  <1> QED
    BY <1>1, <1>2 DEF Pending

\* No balance is on its way while a withdrawal is.
LEMMA NoBalance ==
  ASSUME SessionInv, ~Over, Take("bank", "withdraw"), NEW msg \in Pending
  PROVE  msg.type # "balance"
  <1> DEFINE W == Exchange["process_withdrawal"]
             B == Exchange["process_balance"]
  <1>1. Flow /\ "withdraw" \in W /\ "balance" \in B
    BY Exchanges DEF SessionInv
  <1>2. /\ InFlight(W) = IF state = "process_withdrawal" THEN 1 ELSE 0
        /\ InFlight(B) = IF state = "process_balance" THEN 1 ELSE 0
    BY Exchanges DEF SessionInv, OneOfEach
  <1> HIDE DEF W, B
  <1>3. CountIn(queue["bank"], W) # 0
    <2>1. "withdraw" \in Types(queue["bank"]) /\ queue["bank"] \in Seq(Message)
      BY <1>1, ThreadNames, TypesOfQueue DEF Take, Arrived, Flow, IInv, TypeOK
    <2> QED
      BY <1>1, <2>1, CountFinite
  <1>4. /\ CountIn(queue["atm"], W) \in Nat /\ CountIn(queue["bank"], W) \in Nat
        /\ CountIn(queue["interface"], W) \in Nat
        /\ CountIn(Unsent("atm"), W) \in Nat /\ CountIn(Unsent("bank"), W) \in Nat
    BY <1>1, CountTypes, ThreadNames
  <1>5. InFlight(B) = 0
    <2>1. InFlight(W) > 0
      BY <1>3, <1>4 DEF InFlight
    <2> QED
      BY <1>2, <2>1
  <1>6. /\ CountIn(queue["atm"], B) \in Nat /\ CountIn(queue["bank"], B) \in Nat
        /\ CountIn(queue["interface"], B) \in Nat
        /\ CountIn(Unsent("atm"), B) \in Nat /\ CountIn(Unsent("bank"), B) \in Nat
        /\ queue["atm"] \in Seq(Message) /\ Unsent("bank") \in Seq(Message)
    BY <1>1, CountTypes, ThreadNames DEF Flow, IInv, TypeOK
  <1>7. CountIn(queue["atm"], B) = 0 /\ CountIn(Unsent("bank"), B) = 0
    BY <1>5, <1>6 DEF InFlight
  <1>8. Types(queue["atm"]) \cap B = {} /\ Types(Unsent("bank")) \cap B = {}
    BY <1>6, <1>7, CountFinite
  <1>9. msg.type \in Types(queue["atm"]) \cup Types(Unsent("bank"))
    <2>1. Types(Unsent("bank")) = {outbox["bank"][i].msg.type : i \in DOMAIN outbox["bank"]}
      BY TypesUnsent
    <2>2. Types(queue["atm"]) = {queue["atm"][i].type : i \in DOMAIN queue["atm"]}
      BY DEF Types
    <2> QED
      BY <2>1, <2>2 DEF Pending
  <1> QED
    BY <1>1, <1>8, <1>9

\* What the bank answers is so, and what it subtracts leaves it so.
LEMMA BankAnswers ==
  ASSUME SessionInv, AnswersTrue, Over => Over', BankHandler
  PROVE  AnswersTrue'
  <1>0. /\ Flow /\ balance \in Int /\ debit \in Int /\ Amount \in Nat \ {0}
        /\ debit >= 0 /\ queue \in [Machines -> Seq(Message)]
    BY ATMAssumption DEF SessionInv, Flow, IInv, TypeOK
  <1>1. ASSUME NEW type, Take("bank", type), NEW msg, BankReplies(msg), UNCHANGED debit,
               TrueOf(msg, balance, debit)
        PROVE  AnswersTrue'
    <2>1. Pending' \subseteq Pending \cup {msg}
      BY <1>0, <1>1, NewAnswer
    <2> QED
      BY <1>1, <2>1, SameAnswers DEF BankReplies
  <1>2. CASE VerifyPin
    BY <1>1, <1>2 DEF VerifyPin, TrueOf, Signal
  <1>3. CASE GetBalance
    BY <1>1, <1>3 DEF GetBalance, TrueOf, balance_msg
  <1>4. CASE Withdraw /\ ~(balance >= Amount)
    <2>1. TrueOf(Signal("withdraw_denied"), balance, debit)
      BY <1>0, <1>4 DEF TrueOf, Signal
    <2> QED
      BY <1>1, <1>4, <2>1 DEF Withdraw
  <1>5. CASE Withdraw /\ balance >= Amount
    <2>1. PICK msg : /\ msg = Signal("withdraw_ok") /\ msg.type = "withdraw_ok"
                     /\ Take("bank", "withdraw") /\ BankReplies(msg)
      BY <1>5 DEF Withdraw, Signal
    <2>2. Pending' \subseteq Pending \cup {msg}
      BY <1>0, <2>1, NewAnswer
    <2>3. UNCHANGED balance
      BY <2>1 DEF BankReplies
    <2>4. ASSUME ~Over', NEW m \in Pending' PROVE TrueOf(m, balance, debit')
      <3>1. CASE m \in Pending
        <4>1. m.type # "balance"
          BY <2>1, <2>4, <3>1, NoBalance
        <4> QED
          BY <2>4, <3>1, <4>1 DEF AnswersTrue, TrueOf
      <3>2. CASE m = msg
        BY <2>1, <3>2 DEF TrueOf
      <3> QED
        BY <2>2, <2>4, <3>1, <3>2
    <2> QED
      BY <2>3, <2>4 DEF AnswersTrue
  <1>6. CASE Debit
    <2>1. /\ balance' = balance - debit /\ debit > 0
          /\ UNCHANGED <<queue, outbox>>
      BY <1>6 DEF Debit
    <2>2. Pending' = Pending
      BY <2>1 DEF Pending
    <2>3. ASSUME ~Over', NEW m \in Pending PROVE TrueOf(m, balance', debit')
      <3>1. TrueOf(m, balance, debit)
        BY <2>3 DEF AnswersTrue
      <3> QED
        BY <1>0, <2>1, <3>1 DEF TrueOf
    <2> QED
      BY <2>2, <2>3 DEF AnswersTrue
  <1>7. CASE BankNotified
    <2>1. UNCHANGED <<outbox, balance, debit>> /\ queue'["atm"] = queue["atm"]
      BY <1>0, <1>7, ThreadNames DEF BankNotified, Take, bankVars
    <2> QED
      BY <2>1, NoNewAnswer
  <1> QED
    BY <1>2, <1>3, <1>4, <1>5, <1>6, <1>7 DEF BankHandler

\* Every step leaves the answers true.
LEMMA NextAnswers ==
  ASSUME DialogueInv, [Next]_vars
  PROVE  AnswersTrue'
  <1>0. /\ Flow /\ SessionInv /\ AnswersTrue
        /\ queue \in [Machines -> Seq(Message)] /\ outbox \in [Threads -> Seq(Sends)]
    BY DEF DialogueInv, MoneyInv, SessionInv, Flow, IInv, TypeOK
  <1>1. Over => Over'
    BY <1>0, OverStays
  <1>2. ASSUME queue'["atm"] = queue["atm"], outbox'["bank"] = outbox["bank"],
               UNCHANGED <<balance, debit>>
        PROVE  AnswersTrue'
    BY <1>0, <1>1, <1>2, NoNewAnswer
  <1>3. ASSUME NEW t \in Machines, NEW type, Take(t, type), outbox'["bank"] = outbox["bank"],
               UNCHANGED <<balance, debit>>
        PROVE  AnswersTrue'
    BY <1>0, <1>1, <1>3, TakePending, NoNewAnswer
  <1>4. CASE Keyboard
    <2>1. ASSUME NEW sends, MainPosts(sends) PROVE AnswersTrue'
      BY <1>0, <1>2, <2>1, ThreadNames DEF MainPosts, bankVars
    <2> QED
      BY <1>4, <2>1 DEF Keyboard, PressDigit, PressKey, Key, PressCancel, PressQuit
  <1>5. CASE Join \/ UNCHANGED vars
    BY <1>2, <1>5 DEF Join, bankVars, vars
  <1>6. ASSUME NEW t \in Threads, Send(t) PROVE AnswersTrue'
    BY <1>0, <1>1, <1>6, SendAnswers
  <1>7. ASSUME NEW t \in Machines, Close(t) PROVE AnswersTrue'
    BY <1>3, <1>7 DEF Close, bankVars
  <1>8. CASE AtmHandler
    <2>1. ASSUME NEW s, NEW type, NEW sends, NEW next, OnMessage(s, type, sends, next)
          PROVE  AnswersTrue'
      BY <1>0, <1>3, <2>1, ThreadNames DEF OnMessage, bankVars
    <2>2. CASE AtmDiscards
      BY <1>3, <2>2, ThreadNames DEF AtmDiscards, bankVars
    <2>3. CASE DoneProcessing
      BY <1>0, <1>2, <2>3, ThreadNames DEF DoneProcessing, bankVars
    <2>4. CASE DigitPressed
      BY <2>1, <2>4 DEF DigitPressed
    <2>5. CASE CancelPressed
      BY <2>1, <2>5 DEF CancelPressed
    <2> QED
      BY <1>8, <2>1, <2>2, <2>3, <2>4, <2>5 DEF AtmHandler, CardInserted, PinVerified,
         PinIncorrect, WithdrawPressed, BalancePressed, BalanceArrived, WithdrawOk,
         WithdrawDenied, CancelWithdrawal
  <1>9. CASE BankHandler
    BY <1>0, <1>1, <1>9, BankAnswers
  <1>10. CASE Display
    BY <1>3, <1>10, ThreadNames DEF Display, bankVars
  <1> QED
    BY <1>4, <1>5, <1>6, <1>7, <1>8, <1>9, <1>10, ThreadNames
       DEF Next, Terminated, MainStep, AtmStep, BankStep, InterfaceStep

------------------------------------------------------------------------------
(* The theorems *)

\* At the start nothing is shown, and the first thing to come is the request
\* for a card.
LEMMA InitDialogue == ASSUME Init PROVE DialogueInv
  <1>1. MoneyInv /\ Flow
    BY InitMoney DEF MoneyInv, SessionInv
  <1>2. /\ outbox["atm"] = <<ToInterface("display_enter_card")>>
        /\ outbox["bank"] = <<>> /\ queue["atm"] = <<>> /\ queue["interface"] = <<>>
        /\ state = "waiting_for_card" /\ screen.type = "blank"
    BY ThreadNames DEF Init, Entry, Signal
  <1>3. Pending = {}
    BY <1>2 DEF Pending
  <1>4. InOrder(queue["interface"], screen.type, issued) /\ ShownLast = "blank"
    BY <1>2 DEF InOrder, ShownLast, LastShown
  <1>5. GoesOn(state, outbox["atm"], ShownLast, LeftThen)
    BY <1>2, <1>4 DEF GoesOn
  <1> QED
    BY <1>1, <1>3, <1>4, <1>5 DEF DialogueInv, AnswersTrue, Shows

\* What is to be displayed keeps the dialogue, whatever the threads do, and
\* what the bank says of the account is still true when it is read.
THEOREM DialogueInvariance == Spec => []DialogueInv
  <1>1. Init => DialogueInv
    BY InitDialogue
  <1>2. ASSUME DialogueInv, [Next]_vars PROVE DialogueInv'
    <2>1. MoneyInv'
      BY <1>2, NextKeepsMoney DEF DialogueInv
    <2> QED
      BY <1>2, <2>1, NextAnswers, NextShows DEF DialogueInv
  <1> QED
    BY <1>1, <1>2, PTL DEF Spec

\* Only Display changes what the customer sees, and it keeps the dialogue.
LEMMA NextSeen ==
  ASSUME DialogueInv, [Next]_vars
  PROVE  \/ UNCHANGED <<screen, issued>>
         \/ /\ MayShow(screen.type, InitialBalance - issued, screen')
            /\ issued' = issued + Cash(screen')
  <1>0. Flow /\ Shows
    BY DEF DialogueInv, MoneyInv, SessionInv
  <1>1. CASE Display
    BY <1>0, <1>1, DisplayShows
  <1>2. CASE ~Display
    <2>1. CASE Keyboard
      BY <2>1 DEF Keyboard, PressDigit, PressKey, Key, PressCancel, PressQuit, MainPosts,
         interfaceVars
    <2>2. CASE AtmHandler
      BY <2>2 DEF AtmHandler, CardInserted, DigitPressed, PinVerified, PinIncorrect,
         WithdrawPressed, BalancePressed, BalanceArrived, WithdrawOk, WithdrawDenied,
         CancelWithdrawal, CancelPressed, AtmDiscards, DoneProcessing, OnMessage, interfaceVars
    <2>3. CASE BankHandler
      BY <2>3 DEF BankHandler, VerifyPin, Withdraw, Debit, GetBalance, BankNotified, BankReplies,
         interfaceVars
    <2>4. CASE \/ \E t \in Threads : Send(t) \/ Close(t)
               \/ Join \/ UNCHANGED vars
      BY <2>4 DEF Send, Close, Join, vars, interfaceVars
    <2> QED
      BY <1>2, <2>1, <2>2, <2>3, <2>4, ThreadNames
         DEF Next, Terminated, MainStep, AtmStep, BankStep, InterfaceStep
  <1> QED
    BY <1>1, <1>2

\* BalanceShownIsCurrent, for every balance and amount: a balance on the screen
\* is the account's at that moment, all that has been handed out subtracted.
THEOREM BalanceTrue == Spec => BalanceShownIsCurrent
  <1>1. ASSUME DialogueInv, [Next]_vars
        PROVE  [screen'.type = "display_balance" /\ screen' # screen
                  => screen'.amount = InitialBalance - issued]_vars
    BY <1>1, NextSeen DEF MayShow
  <1> QED
    BY <1>1, DialogueInvariance, PTL DEF Spec, BalanceShownIsCurrent

\* DialogueSpec, for every balance and amount: what the terminal shows and hands
\* out is a behaviour of Dialogue.tla.
THEOREM KeepsDialogue == Spec => DialogueSpec
  <1>1. Init => Dialogue!Init
    BY DEF Init, Dialogue!Init, Signal
  <1>2. ASSUME DialogueInv, [Next]_vars
        PROVE  [Dialogue!Next]_<<screen.type, issued>>
    <2>1. CASE UNCHANGED <<screen, issued>>
      BY <2>1
    <2>2. CASE /\ MayShow(screen.type, InitialBalance - issued, screen')
               /\ issued' = issued + Cash(screen')
      <3>0. issued \in Nat /\ Amount \in Nat /\ InitialBalance \in Nat
        BY <1>2, ATMAssumption DEF DialogueInv, MoneyInv, SessionInv, Flow, IInv, TypeOK
      <3>1. CASE screen'.type = "issue_money"
        BY <2>2, <3>0, <3>1 DEF MayShow, Cash, Handout, Dialogue!Next, Dialogue!IssueMoney
      <3>2. CASE screen'.type = "display_insufficient_funds"
        BY <2>2, <3>0, <3>2 DEF MayShow, Cash, Handout, Dialogue!Next, Dialogue!Refuse
      <3>3. CASE screen'.type \notin {"issue_money", "display_insufficient_funds"}
        BY <2>2, <3>0, <3>3 DEF MayShow, Cash, Handout, Dialogue!Next, Dialogue!Show
      <3> QED
        BY <3>1, <3>2, <3>3
    <2> QED
      BY <1>2, <2>1, <2>2, NextSeen
  <1> QED
    BY <1>1, <1>2, DialogueInvariance, PTL DEF Spec, DialogueSpec, Dialogue!Spec

==============================================================================
