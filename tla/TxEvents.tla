------------------------------ MODULE TxEvents ------------------------------
(***************************************************************************)
(* What phantasma/Utils/RpcUtils.h reads out of the events of a            *)
(* transaction: who received tokens from whom (GetTxTokensReceived), who   *)
(* was sent tokens (GetTxTokensSent) and a line of text                    *)
(* (GetTxDescription).  An event names one address only, so the two halves *)
(* of a transfer are found by searching the log for an event with the same *)
(* token, amount and chain.                                                *)
(*                                                                         *)
(* The log is written by the chain, which is the environment.  Each        *)
(* TokenReceive carries, for the properties alone, the position of the     *)
(* TokenSend it completes.  The chain may do other things between the two  *)
(* halves of a transfer, but does not start a transfer equal in token,     *)
(* amount and chain: such a pair the search could not tell apart.          *)
(***************************************************************************)
EXTENDS Integers, Sequences

CONSTANTS
    Addresses,
    Datas,      \* TokenEventData: records of a symbol, a value and a chainName
    Others,     \* the further events the chain may write: <<kind, address, data>>
    Filters,    \* what may be asked for: <<symbol, ignored symbol, chain name>>
    BigStake,   \* the stake from which a transaction counts as staking
    MaxEvents,  \* bound on the length of a log
    Null        \* a null pointer given for a filter

ASSUME DataAssumption == \A d \in Datas : d.value \in Nat
ASSUME NullAssumption == Null \notin Addresses

VARIABLE log    \* rpc::Transaction::events

vars == <<log>>

\* The kinds the client tells apart; StringToEventKind makes Custom of the
\* names it does not know.
OtherKinds == {"TokenClaim", "TokenStake", "TokenMint", "AddressRegister", "Custom"}
EventKinds == {"TokenSend", "TokenReceive"} \cup OtherKinds

ASSUME OthersAssumption == Others \subseteq OtherKinds \X Addresses \X Datas

\* Mutant: the token is read into the wrong member.
EventAddressOfData(kind, address, data, of) ==
    [kind |-> kind, address |-> data.symbol, data |-> data, of |-> of]

Event(kind, address, data, of) ==
    [kind |-> kind, address |-> address, data |-> data, of |-> of]

Events == [kind : EventKinds, address : Addresses, data : Datas, of : Nat]

(***************************************************************************)
(* The chain.                                                              *)
(***************************************************************************)
IsSend(i)    == log[i].kind = "TokenSend"
IsReceive(i) == log[i].kind = "TokenReceive"
Equal(i, j)  == log[i].data = log[j].data

\* The sends that no receive has completed.
Open == {j \in DOMAIN log : IsSend(j) /\ \A i \in DOMAIN log : IsReceive(i) => log[i].of # j}

Init == log = <<>>

Write(e) == Len(log) < MaxEvents /\ log' = Append(log, e)

Send(a, d) ==
    /\ \A j \in Open : log[j].data # d
    /\ Write(Event("TokenSend", a, d, 0))

Receive(j, b) == Write(Event("TokenReceive", b, log[j].data, j))

Other(o) == Write(Event(o[1], o[2], o[3], 0))

Next ==
    \/ \E a \in Addresses, d \in Datas : Send(a, d)
    \/ \E j \in Open, b \in Addresses : Receive(j, b)
    \/ \E o \in Others : Other(o)

Spec == Init /\ [][Next]_vars

(***************************************************************************)
(* The client.                                                             *)
(***************************************************************************)
\* A filter that is a null pointer lets everything pass.
Passes(value, filter) == filter = Null \/ value = filter

Wanted(i, address, symbol, chain) ==
    /\ Passes(log[i].address, address)
    /\ Passes(log[i].data.symbol, symbol)
    /\ Passes(log[i].data.chainName, chain)
    /\ log[i].data.value # 0

\* Mutant: forwards from the start of the log.
IsNearestSendFromStart(j, i) ==
    /\ j < i /\ IsSend(j) /\ Equal(j, i)
    /\ \A k \in DOMAIN log : k < j => ~(IsSend(k) /\ Equal(k, i))

\* The inner loops: backwards from a receive to the nearest equal send,
\* forwards from a send to the next equal receive.
IsNearestSend(j, i) ==
    /\ j < i /\ IsSend(j) /\ Equal(j, i)
    /\ \A k \in DOMAIN log : j < k /\ k < i => ~(IsSend(k) /\ Equal(k, i))

\* Mutant: the next event with equal data, of whatever kind.
IsNextReceiveAnyKind(i, j) ==
    /\ j < i /\ Equal(i, j)
    /\ \A k \in DOMAIN log : j < k /\ k < i => ~Equal(k, j)

IsNextReceive(i, j) ==
    /\ j < i /\ IsReceive(i) /\ Equal(i, j)
    /\ \A k \in DOMAIN log : j < k /\ k < i => ~(IsReceive(k) /\ Equal(k, j))

\* The pairs of a send and a receive that are reported.
TokensReceived(to, symbol, chain) ==
    {p \in (DOMAIN log) \X (DOMAIN log) :
        /\ IsReceive(p[2]) /\ Wanted(p[2], to, symbol, chain)
        /\ IsNearestSend(p[1], p[2])}

TokensSent(from, symbol, ignore, chain) ==
    {p \in (DOMAIN log) \X (DOMAIN log) :
        /\ IsSend(p[1]) /\ Wanted(p[1], from, symbol, chain)
        /\ ignore = Null \/ log[p[1]].data.symbol # ignore
        /\ IsNextReceive(p[2], p[1])}

(***************************************************************************)
(* GetTxDescription.                                                       *)
(***************************************************************************)
\* The events at which it returns from inside the loop.
Decides(i) ==
    \/ log[i].kind = "TokenClaim" /\ log[i].data.symbol = "SOUL"
    \/ log[i].kind = "TokenStake" /\ log[i].data.value >= BigStake
         /\ log[i].data.symbol \notin {"KCAL", "NEO", "GAS"}
    \/ log[i].kind = "TokenMint"

\* The last event of some kinds, 0 for none.
LastOf(kinds) ==
    LET at == {i \in DOMAIN log : log[i].kind \in kinds}
    IN  IF at = {} THEN 0 ELSE CHOOSE i \in at : \A j \in at : j <= i

Says(what, from, to) == [what |-> what, from |-> from, to |-> to]
Custom == Says("Custom", 0, 0)

\* Mutant: the tokens of the two events are not compared.
SameTokenUnchecked(s, r) == TRUE
SameToken(s, r) == log[s].data.symbol = log[r].data.symbol

\* The two parties of a transfer, as told to addressFrom.
ToldTo(addressFrom, s, r) ==
    IF addressFrom = Null THEN Says("Receive", s, r)
    ELSE IF addressFrom = log[s].address THEN Says("Send", 0, r)
    ELSE Says("Receive", s, 0)

\* Without a deciding event: the last send and the last receive, with the
\* amount of the last event that has one.
Parties(addressFrom, s, r, amount) ==
    IF r = 0 \/ log[amount].data.value = 0 THEN Custom
    ELSE IF s # 0 /\ SameToken(s, r) THEN ToldTo(addressFrom, s, r)
    ELSE Says("Send", 0, r)

Description(addressFrom) ==
    LET deciding == {i \in DOMAIN log : Decides(i)}
        first    == CHOOSE i \in deciding : \A j \in deciding : i <= j
    IN  IF deciding # {}
        THEN IF log[first].kind = "TokenMint" THEN Says("Claim", 0, 0) ELSE Custom
        ELSE IF LastOf({"AddressRegister"}) # 0 THEN Says("Register", 0, 0)
        ELSE Parties(addressFrom, LastOf({"TokenSend"}), LastOf({"TokenReceive"}),
                     LastOf({"TokenSend", "TokenReceive", "TokenStake"}))

(***************************************************************************)
(* Properties.                                                             *)
(***************************************************************************)
TypeOK == log \in Seq(Events)

\* The transfers of a log: pairs of a send and the receive that completes it.
Transfers == {p \in (DOMAIN log) \X (DOMAIN log) : IsReceive(p[2]) /\ log[p[2]].of = p[1]}

\* GetTxTokensReceived reports the transfers to an address, each with the
\* event of its own sender, and nothing else, whatever the chain did between
\* the two halves.
ReceivedIsTransferred ==
    \A to \in Addresses \cup {Null}, f \in Filters :
        TokensReceived(to, f[1], f[3]) =
            {p \in Transfers : Wanted(p[2], to, f[1], f[3])}

\* GetTxTokensSent reports the transfers from an address, each with the event
\* of its own receiver; a send that is not completed is not reported.
SentIsTransferred ==
    \A from \in Addresses \cup {Null}, f \in Filters :
        TokensSent(from, f[1], f[2], f[3]) =
            {p \in Transfers : /\ Wanted(p[1], from, f[1], f[3])
                               /\ f[2] = Null \/ log[p[1]].data.symbol # f[2]}

\* Transfers of one token that do not overlap.
OneAtATime ==
    \A p \in Transfers, j \in DOMAIN log :
        IsSend(j) /\ p[1] < j /\ j < p[2] => log[j].data.symbol # log[p[1]].data.symbol

\* 0 stands for a party the text leaves out.
NamesATransfer(says) ==
    (says.from # 0 \/ says.to # 0) =>
        \E p \in Transfers : says.from \in {0, p[1]} /\ says.to \in {0, p[2]}

\* A description names the parties of one transfer, when the transfers of a
\* token do not overlap and all are complete.
DescriptionNamesATransfer ==
    OneAtATime /\ Open = {} =>
        \A addressFrom \in Addresses \cup {Null} : NamesATransfer(Description(addressFrom))
=============================================================================
