------------------------------- MODULE Poller -------------------------------
(***************************************************************************)
(* The reference consumer (packages/client/src/poller.js over paidGet): a  *)
(* loop that checks its budget, buys one tick, books what it believes it   *)
(* spent, and sleeps.  The payment is made inside the fetch, by a library: *)
(* the wallet and the poller's own books are two things.                   *)
(*                                                                         *)
(* Money is counted in units of the smallest price.  A MAX_SPEND_USDC or   *)
(* POLL_PRICE_USDC that Number() makes a NaN, such as the "$0.001" that    *)
(* the server's own price variables take, compares false with everything.  *)
(* Levels, moves and the calls counter, which only the log shows, are left *)
(* out.                                                                    *)
(***************************************************************************)
EXTENDS Naturals

CONSTANTS MaxSpend,     \* MAX_SPEND_USDC
          Price,        \* POLL_PRICE_USDC
          Charge,       \* what the route really costs
          MaxUnbooked   \* bound: payments the poller gets no receipt for

ASSUME PollerAssumption ==
    /\ MaxSpend \in Nat /\ Price \in Nat \ {0} /\ Charge \in Nat
    /\ MaxUnbooked \in Nat

VARIABLES
    numeric,    \* whether the budget and the price are numbers
    pc,         \* at the budget check, in the fetch, sleeping, or over
    spent,      \* what it booked
    failures,   \* failed polls since the last long sleep
    delay,      \* the sleep it is in
    last,       \* how the last poll ended
    charged,    \* what left the wallet
    unbooked,   \* the payments among these that came with no usable receipt
    streak,     \* failed polls in a row
    hammering   \* failed polls in a row with only short sleeps between

vars == <<numeric, pc, spent, failures, delay, last, charged, unbooked, streak,
          hammering>>

\* What the service and the network may make of one poll.  ok: the status was
\* a success; paid: the wallet was charged; receipt: a settlement header came
\* back.  A throw is a poll with no answer at all.
Outcome ==
    { o \in [ok : BOOLEAN, paid : BOOLEAN, receipt : BOOLEAN, throw : BOOLEAN] :
        /\ o.receipt => o.paid /\ ~o.throw
        /\ o.throw => ~o.ok }

None == [ok |-> FALSE, paid |-> FALSE, receipt |-> FALSE, throw |-> FALSE]

\* Bound: the wallet's payments are counted up to here, more than any property
\* allows; the two streaks are counted up to 4.
ChargeCap == MaxSpend + (MaxUnbooked + 1) * Charge

Upto(n, cap) == IF n > cap THEN cap ELSE n

Booked(o) == o.ok /\ o.receipt

TypeOK ==
    /\ numeric \in BOOLEAN
    /\ pc \in {"budget", "fetch", "sleep", "over"}
    /\ spent \in 0..MaxSpend
    /\ failures \in 0..4
    /\ delay \in {"none", "short", "long"}
    /\ last \in Outcome
    /\ charged \in 0..ChargeCap
    /\ unbooked \in 0..MaxUnbooked
    /\ streak \in 0..4
    /\ hammering \in 0..4

Init ==
    /\ numeric \in BOOLEAN
    /\ pc = "budget"
    /\ spent = 0
    /\ failures = 0
    /\ delay = "none"
    /\ last = None
    /\ charged = 0
    /\ unbooked = 0
    /\ streak = 0
    /\ hammering = 0

-----------------------------------------------------------------------------

\* Mutant: the check is made against what was spent already.
CheckBudget_After ==
    /\ pc = "budget"
    /\ pc' = IF numeric /\ spent > MaxSpend THEN "over" ELSE "fetch"
    /\ UNCHANGED <<numeric, spent, failures, delay, last, charged, unbooked, streak,
                   hammering>>

\* The hard stop, before the request, by a comparison.
CheckBudget ==
    /\ pc = "budget"
    /\ pc' = IF numeric /\ spent + Price > MaxSpend THEN "over" ELSE "fetch"
    /\ UNCHANGED <<numeric, spent, failures, delay, last, charged, unbooked, streak,
                   hammering>>

\* Mutant: nothing is booked.
Book_Never(o) == spent' = spent

\* settled and spent: a success that carries a transaction.  A sum that no
\* comparison can stop is not followed.
Book(o) == spent' = IF numeric /\ Booked(o) THEN spent + Price ELSE spent

\* Mutant: a failed status, as opposed to a throw, is not counted.
failed_ThrowsOnly(o, written) == o.throw \/ (o.ok /\ ~written)

\* A failed status, a throw, or a purchase that could not be appended to disk.
failed(o, written) == ~o.ok \/ ~written

\* paidGet and what main makes of it, up to the sleep.
Poll(o, written) ==
    /\ pc = "fetch"
    /\ o.paid /\ ~Booked(o) => unbooked < MaxUnbooked
    /\ ~o.ok => written
    /\ last' = o
    /\ charged' = IF o.paid THEN Upto(charged + Charge, ChargeCap) ELSE charged
    /\ unbooked' = IF o.paid /\ ~Booked(o) THEN unbooked + 1 ELSE unbooked
    /\ Book(o)
    /\ UNCHANGED numeric
    /\ failures' = IF failed(o, written) THEN failures + 1 ELSE failures
    /\ delay' = IF failures' > 3 THEN "long" ELSE "short"
    /\ pc' = "sleep"
    /\ LET bad == ~o.ok \/ ~written IN
       /\ streak' = IF ~bad THEN 0 ELSE Upto(streak + 1, 4)
       /\ hammering' = IF ~bad \/ delay' = "long" THEN 0
                       ELSE Upto(hammering + 1, 4)

\* The sleep ends; a long one starts the count again.
Wake ==
    /\ pc = "sleep"
    /\ failures' = IF failures > 3 THEN 0 ELSE failures
    /\ delay' = "none" /\ last' = None
    /\ pc' = "budget"
    /\ UNCHANGED <<numeric, spent, charged, unbooked, streak, hammering>>

\* SIGINT or SIGTERM: the process exits where it stands, and a fetch it was in
\* may have paid already.
Signal ==
    /\ pc # "over"
    /\ pc' = "over"
    /\ \/ UNCHANGED <<charged, unbooked>>
       \/ /\ pc = "fetch" /\ unbooked < MaxUnbooked
          /\ charged' = Upto(charged + Charge, ChargeCap)
          /\ unbooked' = unbooked + 1
    /\ UNCHANGED <<numeric, spent, failures, delay, last, streak, hammering>>

Loop ==
    \/ CheckBudget
    \/ \E o \in Outcome, written \in BOOLEAN : Poll(o, written)
    \/ Wake

Next == Loop \/ Signal

Spec == Init /\ [][Next]_vars

\* The event loop turns: a fetch settles and a timer fires.
FairSpec == Spec /\ WF_vars(Loop)

-----------------------------------------------------------------------------
(* Correctness *)

\* The budget holds for what was bought with a receipt, whatever mix of
\* refusals, losses and throws comes between, as long as the configured price
\* is a number and not below the real one.
ReceiptsWithinBudget ==
    numeric /\ Charge <= Price => charged <= MaxSpend + unbooked * Charge

\* A service that is down is not hammered: no fourth failed poll in a row
\* without a long sleep, however the count stood when the streak began.
NoHammering == hammering <= 3

\* A loop that keeps being sold data ends, at its budget or at a signal; free
\* refusals in between do not keep it going.  Only numbers make a budget.
StopsWhenSold == (numeric /\ []<>Booked(last)) => <>(pc = "over")

-----------------------------------------------------------------------------
(* The inductive invariant *)

\* A fetch was let through by the budget; the count that starts a long sleep
\* covers the hammering, which a long sleep has cleared; what left the wallet
\* was booked or came without a receipt.
IInv ==
    /\ TypeOK
    /\ numeric /\ pc = "fetch" => spent + Price <= MaxSpend
    /\ hammering <= failures
    /\ failures > 3 => pc \in {"sleep", "over"} /\ hammering = 0
    /\ numeric /\ Charge <= Price => charged <= spent + unbooked * Charge

-----------------------------------------------------------------------------
(* What the documentation says and the code does not do *)

\* poller.js:22-24: "`MAX_SPEND_USDC` is a hard stop, checked before every
\* request", already where budget and price are numbers.
HardStop == numeric => charged <= MaxSpend

\* poller.js:22-25, of the same hard stop: "an unattended loop with a wallet is
\* the kind of thing that empties an account".
AnyBudgetStops == ([]<>Booked(last)) => <>(pc = "over")

\* poller.js:129: "Consecutive failures back off".
OnlyConsecutiveBackOff == delay = "long" => streak > 3
=============================================================================
