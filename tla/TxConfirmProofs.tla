-------------------------- MODULE TxConfirmProofs --------------------------
(***************************************************************************)
(* The answer of SendTransactionWaitConfirm is true.                       *)
(***************************************************************************)
EXTENDS TxConfirm, TLAPS

\* A reply that carries a verdict and has not been handled yet still is the node's: Confirmed and
\* Rejected are final there.
VerdictInFlight ==
  pc = "Polled" => /\ reply = "Transaction" => node = "Confirmed"
                   /\ reply = "RejectedError" => node = "Rejected"

Inv == TypeOK /\ AnswerIsTrue /\ VerdictInFlight

LEMMA InitInv == Init => Inv
BY DEF Init, Inv, TypeOK, AnswerIsTrue, VerdictInFlight, Builds, Fates, Replies, States

LEMMA NextInv == Inv /\ [Next]_vars => Inv'
<1> SUFFICES ASSUME Inv, [Next]_vars PROVE Inv'
  OBVIOUS
<1> USE DEF Inv, TypeOK, AnswerIsTrue, VerdictInFlight, Builds, Fates, Replies, States
<1>1. CASE HandleSend
  BY <1>1 DEF HandleSend, Receive
<1>2. CASE Sent
  BY <1>2 DEF Sent
<1>3. CASE HandleGet
  BY <1>3 DEF HandleGet, Receive, Answer
<1>4. CASE LoseGet
  BY <1>4 DEF LoseGet, Receive
<1>5. CASE Polled
  BY <1>5 DEF Polled, CheckConfirmation, NoError
<1>6. CASE Settle
  BY <1>6 DEF Settle
<1>7. CASE UNCHANGED vars
  BY <1>7 DEF vars
<1> QED BY <1>1, <1>2, <1>3, <1>4, <1>5, <1>6, <1>7 DEF Next

\* Confirmed and Rejected are what became of the transaction, whatever replies are lost, wrong or
\* handled late (CheckConfirmation and WaitForConfirmation, RpcUtils.h:21-61).
THEOREM AnswersAreTrue == Spec => []AnswerIsTrue
<1>1. Inv => AnswerIsTrue
  BY DEF Inv
<1> QED BY <1>1, InitInv, NextInv, PTL DEF Spec

\* Whatever replies come, in whatever order, the call ends with one of the answers of
\* TransactionState or is still polling; an answer is given only once it stops (RpcUtils.h:21-61).
THEOREM TypesHold == Spec => []TypeOK
<1>1. Inv => TypeOK
  BY DEF Inv
<1> QED BY <1>1, InitInv, NextInv, PTL DEF Spec
=============================================================================
