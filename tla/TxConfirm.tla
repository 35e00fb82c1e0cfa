----------------------------- MODULE TxConfirm -----------------------------
(***************************************************************************)
(* SendTransactionWaitConfirm (Utils/RpcUtils.h:85): a transaction is sent *)
(* to a node with one RPC call and then asked for until the node confirms  *)
(* or rejects it.  A call has two steps, the node's handling of the        *)
(* request and the client's handling of the reply, and either message may  *)
(* be lost; the node works on the transaction all the while.               *)
(***************************************************************************)
EXTENDS Naturals

VARIABLES
  build,             \* what PHANTASMA_EXCEPTION does in this build
  node,              \* what has become of the transaction at the node
  pc,                \* where the client is
  reply,             \* the reply the client is about to handle
  state              \* the TransactionState returned

vars == <<build, node, pc, reply, state>>

\* Default: PHANTASMA_EXCEPTION does nothing.  Throw: it throws.  ThrowMessage: it throws, and
\* PHANTASMA_EXCEPTION_ENABLE is defined, which keeps the message.
Builds == {"Default", "Throw", "ThrowMessage"}

Fates == {"Absent", "Mempool", "Confirmed", "Rejected"}

\* Failure: no reply at all.  Garbage: a reply that is not the JSON expected.
Replies == {"None", "Failure", "Garbage", "OwnHash", "Hash", "Transaction",
            "PendingError", "RejectedError", "OtherError"}

States == {"None", "Unknown", "Rejected", "Pending", "Confirmed"}

Init ==
  /\ build \in Builds
  /\ node = "Absent"
  /\ pc = "Send" /\ reply = "None" /\ state = "None"

\* Mutant of NoError: an HTTP failure leaves err as it is.
NoErrorOrFailure(r) == r \in {"Transaction", "Failure"}

\* err.code == 0 after GetTransaction.
NoError(r) == r = "Transaction"

\* The server's message reaches err.message, in a return value or in an exception.
MessageKept == build # "Throw"

CheckConfirmation(r) ==
  IF NoError(r) THEN "Confirmed"
  ELSE IF r = "PendingError" /\ MessageKept THEN "Pending"
  ELSE IF r = "RejectedError" /\ MessageKept THEN "Rejected"
  ELSE "Unknown"

\* The node's answer to getTransaction.
Answer ==
  CASE node = "Absent"    -> "OtherError"
    [] node = "Mempool"   -> "PendingError"
    [] node = "Confirmed" -> "Transaction"
    [] node = "Rejected"  -> "RejectedError"

Receive(next, r) == pc' = next /\ reply' = r /\ UNCHANGED <<build, state>>

\* The node takes the transaction, or refuses it; its reply may be lost or wrong.
HandleSend ==
  /\ pc = "Send"
  /\ \/ node' = "Mempool" /\ \E r \in {"OwnHash", "Hash", "Failure", "Garbage"} : Receive("Sent", r)
     \/ node' = "Absent"  /\ \E r \in {"OtherError", "Failure", "Garbage"} : Receive("Sent", r)

\* Mutant of Sent: Unknown is not returned.
SentUnset ==
  /\ pc = "Sent"
  /\ pc' = (IF reply = "OwnHash" THEN "Poll" ELSE "Returned") /\ state' = state
  /\ reply' = "None"
  /\ UNCHANGED <<build, node>>

\* SendTransaction.
Sent ==
  /\ pc = "Sent"
  /\ IF reply = "OwnHash" THEN pc' = "Poll" /\ state' = state
                          ELSE pc' = "Returned" /\ state' = "Unknown"
  /\ reply' = "None"
  /\ UNCHANGED <<build, node>>

HandleGet == pc = "Poll" /\ Receive("Polled", Answer) /\ UNCHANGED node

LoseGet ==
  /\ pc = "Poll"
  /\ \E r \in {"Failure", "Garbage"} : Receive("Polled", r)
  /\ UNCHANGED node

\* Mutant of Polled: every state but Pending ends the loop.
PolledStopsOnUnknown ==
  /\ pc = "Polled"
  /\ LET answer == CheckConfirmation(reply)
     IN IF answer # "Pending"
        THEN pc' = "Returned" /\ state' = answer
        ELSE pc' = "Poll" /\ state' = state
  /\ reply' = "None"
  /\ UNCHANGED <<build, node>>

\* One turn of WaitForConfirmation's loop.
Polled ==
  /\ pc = "Polled"
  /\ LET answer == CheckConfirmation(reply)
     IN IF answer \in {"Confirmed", "Rejected"}
        THEN pc' = "Returned" /\ state' = answer
        ELSE pc' = "Poll" /\ state' = state
  /\ reply' = "None"
  /\ UNCHANGED <<build, node>>

\* The node settles the transaction, or drops it from its mempool.
Settle ==
  /\ node = "Mempool"
  /\ node' \in {"Confirmed", "Rejected", "Absent"}
  /\ UNCHANGED <<build, pc, reply, state>>

Next == HandleSend \/ Sent \/ HandleGet \/ LoseGet \/ Polled \/ Settle

Spec == Init /\ [][Next]_vars

\* The client never stops by itself, the node handles what reaches it, and a client that keeps
\* asking is answered again and again.
FairSpec ==
  /\ Spec
  /\ WF_vars(Sent) /\ WF_vars(Polled) /\ WF_vars(HandleSend)
  /\ WF_vars(HandleGet \/ LoseGet) /\ SF_vars(HandleGet)
-----------------------------------------------------------------------------
TypeOK ==
  /\ build \in Builds /\ node \in Fates
  /\ pc \in {"Send", "Sent", "Poll", "Polled", "Returned"}
  /\ reply \in Replies /\ state \in States
  /\ reply # "None" <=> pc \in {"Sent", "Polled"}
  /\ state # "None" <=> pc = "Returned"

\* Whatever is lost or late, Confirmed and Rejected are what became of the transaction
\* (RpcUtils.h:35-42, 52-54): no failed poll passes for a verdict.
AnswerIsTrue == state \in {"Confirmed", "Rejected"} => node = state

\* Once the node has settled the transaction, the wait ends, however many polls fail.  A rejected
\* one is left out for the build that throws without PHANTASMA_EXCEPTION_ENABLE: it loses the
\* message that says so (RpcUtils.h:28-34), and WaitForConfirmation never returns.
WaitEnds ==
  /\ pc \in {"Poll", "Polled"} /\ node = "Confirmed" ~> state = "Confirmed"
  /\ pc \in {"Poll", "Polled"} /\ node = "Rejected" /\ build # "Throw" ~> state = "Rejected"
=============================================================================
