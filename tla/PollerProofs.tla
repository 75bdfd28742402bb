---------------------------- MODULE PollerProofs ----------------------------
(***************************************************************************)
(* Proofs about Poller for every budget, price and charge: what a loop of  *)
(* any length spends, and how often it fails without a long sleep.         *)
(***************************************************************************)
EXTENDS Poller, TLAPS

\* A charge more is a product more.
LEMMA OneMore == \A n, c \in Nat : (n + 1) * c = n * c + c /\ n * c \in Nat
  OBVIOUS

\* The bounds of the model are numbers.
LEMMA Caps == ChargeCap \in Nat /\ MaxSpend \in Nat /\ MaxUnbooked \in Nat
  BY PollerAssumption, OneMore DEF ChargeCap

\* Counting up to a bound stays below it and below the count.
LEMMA UptoBounds ==
    ASSUME NEW n \in Nat, NEW cap \in Nat
    PROVE  Upto(n, cap) \in 0..cap /\ Upto(n, cap) <= n
  BY DEF Upto

\* A loop that has just started has bought nothing.
LEMMA InitInv == Init => IInv
<1>1. None \in Outcome
  BY DEF None, Outcome
<1>2. Init => TypeOK
  BY <1>1, Caps DEF Init, TypeOK
<1>3. QED
  BY <1>2, OneMore, PollerAssumption DEF Init, IInv

\* The budget check lets a purchase through only if it still fits.
LEMMA CheckBudgetInv == IInv /\ CheckBudget => IInv'
<1> SUFFICES ASSUME IInv, CheckBudget PROVE IInv'
  OBVIOUS
<1>1. TypeOK'
  BY DEF IInv, TypeOK, CheckBudget
<1>2. numeric' /\ pc' = "fetch" => spent' + Price <= MaxSpend
  BY Caps, PollerAssumption DEF IInv, TypeOK, CheckBudget
<1>3. QED
  BY <1>1, <1>2 DEF IInv, CheckBudget

\* A poll books what it can see, counts what it cannot, and counts failures.
LEMMA PollInv ==
    ASSUME IInv, NEW o \in Outcome, NEW written \in BOOLEAN, Poll(o, written)
    PROVE  IInv'
<1> DEFINE bad == failed(o, written)
<1>1. /\ spent \in Nat /\ failures \in 0..3 /\ charged \in Nat
      /\ unbooked \in Nat /\ streak \in Nat /\ hammering \in 0..3
      /\ Charge \in Nat /\ Price \in Nat
  BY PollerAssumption DEF IInv, TypeOK, Poll
<1>2. /\ spent' \in 0..MaxSpend
      /\ spent' = IF numeric /\ Booked(o) THEN spent + Price ELSE spent
  <2>1. spent' = IF numeric /\ Booked(o) THEN spent + Price ELSE spent
    BY DEF Poll, Book
  <2>2. spent \in 0..MaxSpend /\ (numeric => spent + Price <= MaxSpend)
    BY DEF IInv, TypeOK, Poll
  <2>3. QED
    BY <1>1, <2>1, <2>2, Caps
<1>3. unbooked' \in 0..MaxUnbooked
  BY <1>1, Caps DEF IInv, TypeOK, Poll
<1>4. charged' \in 0..ChargeCap
  <2>1. charged' = IF o.paid THEN Upto(charged + Charge, ChargeCap) ELSE charged
    BY DEF Poll
  <2>2. Upto(charged + Charge, ChargeCap) \in 0..ChargeCap
    BY <1>1, Caps, UptoBounds
  <2>3. QED
    BY <2>1, <2>2 DEF IInv, TypeOK
<1>5. /\ failures' \in 0..4
      /\ failures' = IF bad THEN failures + 1 ELSE failures
      /\ delay' = IF failures' > 3 THEN "long" ELSE "short"
      /\ pc' = "sleep"
  BY <1>1 DEF Poll
<1>6. /\ streak' \in 0..4
      /\ hammering' = IF ~bad \/ delay' = "long" THEN 0
                      ELSE Upto(hammering + 1, 4)
  <2>1. Upto(streak + 1, 4) \in 0..4
    BY <1>1 DEF Upto
  <2>2. QED
    BY <2>1 DEF Poll, failed
<1>7. /\ hammering' \in 0..4 /\ hammering' <= failures'
      /\ failures' > 3 => hammering' = 0
  <2>1. CASE ~bad
    BY <1>1, <1>5, <1>6, <2>1
  <2>2. CASE bad
    <3>1. Upto(hammering + 1, 4) \in 0..4 /\ Upto(hammering + 1, 4) <= hammering + 1
      BY <1>1 DEF Upto
    <3>2. QED
      BY <1>1, <1>5, <1>6, <2>2, <3>1 DEF IInv
  <2>3. QED
    BY <2>1, <2>2
<1>8. numeric' /\ Charge <= Price => charged' <= spent' + unbooked' * Charge
  <2>1. SUFFICES ASSUME numeric, Charge <= Price
                 PROVE  charged' <= spent' + unbooked' * Charge
    BY DEF Poll
  <2>2. charged <= spent + unbooked * Charge /\ unbooked * Charge \in Nat
    BY <1>1, <2>1, OneMore DEF IInv
  <2>3. CASE ~o.paid
    <3>1. ~Booked(o)
      BY <2>3 DEF Booked, Outcome
    <3>2. QED
      BY <1>2, <2>2, <2>3, <3>1 DEF Poll
  <2>4. CASE o.paid
    <3>1. charged' <= charged + Charge /\ charged' \in Nat
      BY <1>1, <2>4, Caps, UptoBounds DEF Poll
    <3>2. CASE Booked(o)
      BY <1>1, <1>2, <2>1, <2>2, <2>4, <3>1, <3>2 DEF Poll
    <3>3. CASE ~Booked(o)
      <4>1. unbooked' = unbooked + 1 /\ spent' = spent
        BY <1>2, <2>4, <3>3 DEF Poll
      <4>2. (unbooked + 1) * Charge = unbooked * Charge + Charge
        BY <1>1, OneMore
      <4>3. QED
        BY <1>1, <2>2, <3>1, <4>1, <4>2
    <3>4. QED
      BY <3>2, <3>3
  <2>5. QED
    BY <2>3, <2>4
<1>9. QED
  BY <1>2, <1>3, <1>4, <1>5, <1>6, <1>7, <1>8 DEF IInv, TypeOK, Poll

\* Only a long sleep starts the count again.
LEMMA WakeInv == IInv /\ Wake => IInv'
<1> SUFFICES ASSUME IInv, Wake PROVE IInv'
  OBVIOUS
<1>1. None \in Outcome
  BY DEF None, Outcome
<1>2. TypeOK'
  BY <1>1 DEF IInv, TypeOK, Wake
<1>3. hammering' <= failures' /\ failures' <= 3
  BY DEF IInv, TypeOK, Wake
<1>4. QED
  BY <1>2, <1>3 DEF IInv, TypeOK, Wake

\* A signal may come after the payment and before its receipt.
LEMMA SignalInv == IInv /\ Signal => IInv'
<1> SUFFICES ASSUME IInv, Signal PROVE IInv'
  OBVIOUS
<1>1. /\ spent \in Nat /\ charged \in Nat /\ unbooked \in Nat
      /\ Charge \in Nat /\ unbooked * Charge \in Nat
  BY PollerAssumption, OneMore DEF IInv, TypeOK
<1>2. CASE UNCHANGED <<charged, unbooked>>
  BY <1>2 DEF IInv, TypeOK, Signal
<1>3. CASE /\ pc = "fetch" /\ unbooked < MaxUnbooked
           /\ charged' = Upto(charged + Charge, ChargeCap)
           /\ unbooked' = unbooked + 1
  <2>1. charged' \in 0..ChargeCap /\ charged' <= charged + Charge
    BY <1>1, <1>3, Caps, UptoBounds
  <2>2. unbooked' \in 0..MaxUnbooked
    BY <1>1, <1>3, Caps
  <2>3. (unbooked + 1) * Charge = unbooked * Charge + Charge
    BY <1>1, OneMore
  <2>4. numeric /\ Charge <= Price => charged' <= spent + unbooked' * Charge
    BY <1>1, <1>3, <2>1, <2>3, Caps DEF IInv
  <2>5. QED
    BY <2>1, <2>2, <2>4 DEF IInv, TypeOK, Signal
<1>4. QED
  BY <1>2, <1>3 DEF Signal

\* Every step of the loop, and every signal, keeps the invariant.
LEMMA NextInv == IInv /\ [Next]_vars => IInv'
<1> SUFFICES ASSUME IInv, [Next]_vars PROVE IInv'
  OBVIOUS
<1>1. CASE UNCHANGED vars
  BY <1>1 DEF IInv, TypeOK, vars
<1>2. CASE Loop
  BY <1>2, CheckBudgetInv, PollInv, WakeInv DEF Loop
<1>3. CASE Signal
  BY <1>3, SignalInv
<1>4. QED
  BY <1>1, <1>2, <1>3 DEF Next

\* The inductive invariant of the buying loop, whatever the service does.
THEOREM LoopInvariant == Spec => []IInv
  BY InitInv, NextInv, PTL DEF Spec

\* With a configured price that is a number and no lower than the real one, a
\* loop of any length spends no more than its budget and the payments it got
\* no receipt for.
THEOREM BudgetBoundsReceipts == Spec => []ReceiptsWithinBudget
<1>1. IInv => ReceiptsWithinBudget
  <2>1. SUFFICES ASSUME IInv, numeric, Charge <= Price
                 PROVE  charged <= MaxSpend + unbooked * Charge
    BY DEF ReceiptsWithinBudget
  <2>2. /\ charged \in Nat /\ spent \in 0..MaxSpend /\ unbooked \in Nat
        /\ charged <= spent + unbooked * Charge
    BY <2>1 DEF IInv, TypeOK
  <2>3. unbooked * Charge \in Nat
    BY <2>2, OneMore, PollerAssumption
  <2>4. QED
    BY <2>2, <2>3, PollerAssumption
<1>2. QED
  BY <1>1, LoopInvariant, PTL

\* However failures and successes alternate, no fourth failure in a row comes
\* without a long sleep.
THEOREM ServiceIsNotHammered == Spec => []NoHammering
<1>1. IInv => NoHammering
  BY DEF IInv, TypeOK, NoHammering
<1>2. QED
  BY <1>1, LoopInvariant, PTL
=============================================================================
