--------------------------- MODULE TxEventsProofs ---------------------------
(***************************************************************************)
(* GetTxTokensReceived and GetTxTokensSent report the transfers of a log,  *)
(* for every length of the log and every interleaving of transfers.  The   *)
(* search looks at one receive (or send) and the events on one side of it; *)
(* that it finds the other half rests on what the chain wrote on both      *)
(* sides, which is the invariant.                                          *)
(***************************************************************************)
EXTENDS TxEvents, WellFoundedInduction, TLAPS

\* A receive completes an earlier, equal send.
Completes ==
    \A i \in DOMAIN log : IsReceive(i) =>
        /\ log[i].of \in DOMAIN log /\ log[i].of < i
        /\ IsSend(log[i].of) /\ Equal(log[i].of, i)

\* No two receives complete the same send.
Once ==
    \A i, k \in DOMAIN log :
        IsReceive(i) /\ IsReceive(k) /\ log[i].of = log[k].of => i = k

\* Between two equal sends, the first is completed.
Separate ==
    \A j, k \in DOMAIN log :
        j < k /\ IsSend(j) /\ IsSend(k) /\ Equal(j, k) =>
            \E i \in DOMAIN log : j < i /\ i < k /\ IsReceive(i) /\ log[i].of = j

Inv == TypeOK /\ Completes /\ Once /\ Separate
-----------------------------------------------------------------------------
\* What an event written does to the log.
LEMMA Written ==
    ASSUME TypeOK, NEW e \in Events, Write(e)
    PROVE  /\ TypeOK'
           /\ Len(log) \in Nat /\ DOMAIN log = 1 .. Len(log)
           /\ DOMAIN (log') = 1 .. Len(log) + 1
           /\ \A i \in DOMAIN log : log'[i] = log[i]
           /\ log'[Len(log) + 1] = e
    BY DEF TypeOK, Write

LEMMA InitInv == Init => Inv
    BY DEF Init, Inv, TypeOK, Completes, Once, Separate

\* An event that is neither half of a transfer.
LEMMA OtherInv ==
    ASSUME Inv, NEW e \in Events, Write(e), e.kind \notin {"TokenSend", "TokenReceive"}
    PROVE  Inv'
    <1>1. /\ TypeOK'
          /\ Len(log) \in Nat /\ DOMAIN log = 1 .. Len(log)
          /\ DOMAIN (log') = 1 .. Len(log) + 1
          /\ \A i \in DOMAIN log : log'[i] = log[i]
          /\ log'[Len(log) + 1] = e
        BY Written DEF Inv
    <1>2. \A i \in DOMAIN (log') :
            IsReceive(i)' \/ IsSend(i)' => i \in DOMAIN log
        BY <1>1 DEF IsReceive, IsSend
    <1>3. Completes'
        BY <1>1, <1>2 DEF Inv, Completes, IsReceive, IsSend, Equal
    <1>4. Once'
        BY <1>1, <1>2 DEF Inv, Once, IsReceive
    <1>5. Separate'
        BY <1>1, <1>2 DEF Inv, Separate, IsReceive, IsSend, Equal
    <1> QED BY <1>1, <1>3, <1>4, <1>5 DEF Inv

\* A send is separated from an equal one before it by the guard: no equal
\* send is open.
LEMMA SendInv ==
    ASSUME Inv, NEW a \in Addresses, NEW d \in Datas, Send(a, d)
    PROVE  Inv'
    <1> DEFINE e == Event("TokenSend", a, d, 0)
    <1>1. e \in Events /\ Write(e) /\ e.kind = "TokenSend" /\ e.data = d
        BY DEF Send, Event, Events, EventKinds
    <1> HIDE DEF e
    <1>2. /\ TypeOK'
          /\ Len(log) \in Nat /\ DOMAIN log = 1 .. Len(log)
          /\ DOMAIN (log') = 1 .. Len(log) + 1
          /\ \A i \in DOMAIN log : log'[i] = log[i]
          /\ log'[Len(log) + 1] = e
        BY <1>1, Written DEF Inv
    <1>3. \A i \in DOMAIN (log') : IsReceive(i)' => i \in DOMAIN log
        BY <1>1, <1>2 DEF IsReceive
    <1>4. Completes'
        BY <1>2, <1>3 DEF Inv, Completes, IsReceive, IsSend, Equal
    <1>5. Once'
        BY <1>2, <1>3 DEF Inv, Once, IsReceive
    <1>6. ASSUME NEW j \in DOMAIN log, IsSend(j), log[j].data = d
          PROVE  \E i \in DOMAIN log : j < i /\ IsReceive(i) /\ log[i].of = j
        <2>1. j \notin Open
            BY <1>6 DEF Send
        <2>2. PICK i \in DOMAIN log : IsReceive(i) /\ log[i].of = j
            BY <2>1, <1>6 DEF Open
        <2> QED BY <2>2 DEF Inv, Completes
    <1>7. ASSUME NEW j \in DOMAIN (log'), NEW k \in DOMAIN (log'), j < k,
                 IsSend(j)', IsSend(k)', Equal(j, k)'
          PROVE  \E i \in DOMAIN (log') : j < i /\ i < k /\ IsReceive(i)' /\ log'[i].of = j
        <2>1. CASE k \in DOMAIN log
            <3>1. j \in DOMAIN log
                BY <1>2, <1>7, <2>1
            <3>2. \E i \in DOMAIN log : j < i /\ i < k /\ IsReceive(i) /\ log[i].of = j
                BY <1>2, <1>7, <2>1, <3>1 DEF Inv, Separate, IsSend, Equal
            <3> QED BY <1>2, <3>2 DEF IsReceive
        <2>2. CASE k = Len(log) + 1
            <3>1. j \in DOMAIN log /\ IsSend(j) /\ log[j].data = d
                BY <1>1, <1>2, <1>7, <2>2 DEF IsSend, Equal
            <3>2. PICK i \in DOMAIN log : j < i /\ IsReceive(i) /\ log[i].of = j
                BY <1>6, <3>1
            <3> QED BY <1>2, <2>2, <3>2 DEF IsReceive
        <2> QED BY <1>2, <2>1, <2>2
    <1>8. Separate'
        BY <1>7 DEF Separate
    <1> QED BY <1>2, <1>4, <1>5, <1>8 DEF Inv

\* A receive completes an open send, which no other receive completes.
LEMMA ReceiveInv ==
    ASSUME Inv, NEW j \in Open, NEW b \in Addresses, Receive(j, b)
    PROVE  Inv'
    <1> DEFINE e == Event("TokenReceive", b, log[j].data, j)
    <1>0. j \in DOMAIN log /\ IsSend(j)
        BY DEF Open
    <1>1. /\ e \in Events /\ Write(e)
          /\ e.kind = "TokenReceive" /\ e.data = log[j].data /\ e.of = j
        <2>1. /\ j \in Nat
              /\ log[j] \in Events
            BY <1>0 DEF Inv, TypeOK
        <2>2. log[j].data \in Datas
            BY <2>1 DEF Events
        <2>3. e \in Events
            BY <2>1, <2>2 DEF Event, Events, EventKinds
        <2> QED BY <2>3 DEF Receive, Event
    <1> HIDE DEF e
    <1>2. /\ TypeOK'
          /\ Len(log) \in Nat /\ DOMAIN log = 1 .. Len(log)
          /\ DOMAIN (log') = 1 .. Len(log) + 1
          /\ \A i \in DOMAIN log : log'[i] = log[i]
          /\ log'[Len(log) + 1] = e
        BY <1>1, Written DEF Inv
    <1>3. \A i \in DOMAIN log : IsReceive(i) => log[i].of # j
        BY DEF Open
    <1>4. Completes'
        <2> SUFFICES ASSUME NEW i \in DOMAIN (log'), IsReceive(i)'
                     PROVE  /\ log'[i].of \in DOMAIN (log') /\ log'[i].of < i
                            /\ IsSend(log[i].of)' /\ Equal(log[i].of, i)'
            BY DEF Completes
        <2>1. CASE i \in DOMAIN log
            BY <1>2, <2>1 DEF Inv, Completes, IsReceive, IsSend, Equal
        <2>2. CASE i = Len(log) + 1
            BY <1>0, <1>1, <1>2, <2>2 DEF IsSend, Equal
        <2> QED BY <1>2, <2>1, <2>2
    <1>5. Once'
        BY <1>1, <1>2, <1>3 DEF Inv, Once, IsReceive
    <1>6. \A k \in DOMAIN (log') : IsSend(k)' => k \in DOMAIN log
        BY <1>1, <1>2 DEF IsSend
    <1>7. Separate'
        BY <1>2, <1>6 DEF Inv, Separate, IsReceive, IsSend, Equal
    <1> QED BY <1>2, <1>4, <1>5, <1>7 DEF Inv

LEMMA NextInv == Inv /\ [Next]_vars => Inv'
    <1> SUFFICES ASSUME Inv, [Next]_vars PROVE Inv'
        OBVIOUS
    <1>1. CASE \E a \in Addresses, d \in Datas : Send(a, d)
        BY <1>1, SendInv
    <1>2. CASE \E j \in Open, b \in Addresses : Receive(j, b)
        BY <1>2, ReceiveInv
    <1>3. CASE \E o \in Others : Other(o)
        <2>1. PICK o \in Others : Other(o)
            BY <1>3
        <2>2. /\ Event(o[1], o[2], o[3], 0) \in Events
              /\ Event(o[1], o[2], o[3], 0).kind \notin {"TokenSend", "TokenReceive"}
            BY OthersAssumption DEF Event, Events, EventKinds, OtherKinds
        <2> QED BY <2>1, <2>2, OtherInv DEF Other
    <1>4. CASE UNCHANGED vars
        BY <1>4 DEF vars, Inv, TypeOK, Completes, Once, Separate, IsReceive, IsSend, Equal
    <1> QED BY <1>1, <1>2, <1>3, <1>4 DEF Next
-----------------------------------------------------------------------------
\* Backwards from a receive, the nearest equal send is the one it completes.
LEMMA NearestIsOwn ==
    ASSUME Inv, NEW i \in DOMAIN log, NEW j \in DOMAIN log, IsReceive(i)
    PROVE  IsNearestSend(j, i) <=> log[i].of = j
    <1> DEFINE s == log[i].of
    <1>1. DOMAIN log \subseteq Int
        BY DEF Inv, TypeOK
    <1>2. s \in DOMAIN log /\ s < i /\ IsSend(s) /\ Equal(s, i)
        BY DEF Inv, Completes
    <1>3. ASSUME NEW k \in DOMAIN log, s < k, k < i, IsSend(k), Equal(s, k)
          PROVE  FALSE
        <2>1. PICK r \in DOMAIN log : r < k /\ IsReceive(r) /\ log[r].of = s
            BY <1>2, <1>3 DEF Inv, Separate
        <2>2. r = i
            BY <2>1 DEF Inv, Once
        <2> QED BY <1>1, <1>3, <2>1, <2>2
    <1>4. IsNearestSend(s, i)
        BY <1>1, <1>2, <1>3 DEF IsNearestSend, Equal
    <1>5. ASSUME IsNearestSend(j, i) PROVE s = j
        <2>1. j < i /\ IsSend(j) /\ Equal(j, i)
            BY <1>5 DEF IsNearestSend
        <2>2. ~(j < s)
            BY <1>2, <1>5 DEF IsNearestSend
        <2>3. ~(s < j)
            BY <1>2, <1>3, <2>1 DEF Equal
        <2> QED BY <1>1, <1>2, <2>2, <2>3
    <1> QED BY <1>4, <1>5

\* Forwards from a send, the next equal receive is the one that completes it.
LEMMA NextIsOwn ==
    ASSUME Inv, NEW i \in DOMAIN log, NEW j \in DOMAIN log, IsSend(j)
    PROVE  IsNextReceive(i, j) <=> IsReceive(i) /\ log[i].of = j
    <1>1. DOMAIN log \subseteq Int
        BY DEF Inv, TypeOK
    \* A receive after j, equal to j, that completes another send: j was
    \* completed before it.
    <1>2. ASSUME NEW k \in DOMAIN log, IsReceive(k), j < k, Equal(k, j), log[k].of # j
          PROVE  \E r \in DOMAIN log : j < r /\ r < k /\ IsReceive(r) /\ log[r].of = j
        <2> DEFINE s == log[k].of
        <2>1. s \in DOMAIN log /\ s < k /\ IsSend(s) /\ Equal(s, k)
            BY <1>2 DEF Inv, Completes
        <2>2. CASE s < j
            <3>1. PICK r \in DOMAIN log : r < j /\ IsReceive(r) /\ log[r].of = s
                BY <1>2, <2>1, <2>2 DEF Inv, Separate, Equal
            <3>2. r = k
                BY <1>2, <3>1 DEF Inv, Once
            <3> QED BY <1>1, <1>2, <3>1, <3>2
        <2>3. CASE j < s
            <3>1. PICK r \in DOMAIN log : j < r /\ r < s /\ IsReceive(r) /\ log[r].of = j
                BY <1>2, <2>1, <2>3 DEF Inv, Separate, Equal
            <3> QED BY <1>1, <2>1, <3>1
        <2> QED BY <1>1, <1>2, <2>1, <2>2, <2>3
    <1>3. ASSUME IsNextReceive(i, j) PROVE IsReceive(i) /\ log[i].of = j
        <2>1. j < i /\ IsReceive(i) /\ Equal(i, j)
            BY <1>3 DEF IsNextReceive
        <2>2. SUFFICES ASSUME log[i].of # j PROVE FALSE
            BY <2>1
        <2>3. PICK r \in DOMAIN log : j < r /\ r < i /\ IsReceive(r) /\ log[r].of = j
            BY <1>2, <2>1, <2>2
        <2>4. Equal(r, j)
            BY <2>3 DEF Inv, Completes, Equal
        <2> QED BY <1>3, <2>3, <2>4 DEF IsNextReceive
    <1>4. ASSUME IsReceive(i), log[i].of = j PROVE IsNextReceive(i, j)
        <2>1. j < i /\ Equal(i, j)
            BY <1>4 DEF Inv, Completes, Equal
        <2>2. ASSUME NEW k \in DOMAIN log, j < k, k < i, IsReceive(k), Equal(k, j)
              PROVE  FALSE
            <3>1. log[k].of # j
                BY <1>1, <1>4, <2>2 DEF Inv, Once
            <3>2. PICK r \in DOMAIN log : j < r /\ r < k /\ IsReceive(r) /\ log[r].of = j
                BY <1>2, <2>2, <3>1
            <3>3. r = i
                BY <1>4, <3>2 DEF Inv, Once
            <3> QED BY <1>1, <2>2, <3>2, <3>3
        <2> QED BY <1>4, <2>1, <2>2 DEF IsNextReceive
    <1> QED BY <1>3, <1>4
-----------------------------------------------------------------------------
LEMMA InvAlways == Spec => []Inv
    BY InitInv, NextInv, PTL DEF Spec

\* No log the chain can write has an event whose members lie outside their types; GetTxTokensReceived,
\* GetTxTokensSent and GetTxDescription read no other (RpcUtils.h:107-432).
THEOREM TypesHold == Spec => []TypeOK
    <1>1. Inv => TypeOK
        BY DEF Inv
    <1> QED BY <1>1, InvAlways, PTL

\* Every transfer to an address is reported by GetTxTokensReceived, with the
\* event of its own sender, and nothing else is.
THEOREM ReceivedAreTransfers == Spec => []ReceivedIsTransferred
    <1>1. Inv => ReceivedIsTransferred
        BY NearestIsOwn DEF ReceivedIsTransferred, TokensReceived, Transfers
    <1> QED BY <1>1, InvAlways, PTL

\* Every completed transfer from an address is reported by GetTxTokensSent,
\* with the event of its own receiver, and nothing else is.
THEOREM SentAreTransfers == Spec => []SentIsTransferred
    <1>1. Inv => \A i \in DOMAIN log : IsReceive(i) => IsSend(log[i].of)
        BY DEF Inv, Completes
    <1>2. Inv => SentIsTransferred
        BY <1>1, NextIsOwn DEF SentIsTransferred, TokensSent, Transfers
    <1> QED BY <1>2, InvAlways, PTL
-----------------------------------------------------------------------------
\* The last of several positions exists: their distances from the end have a
\* least one, the natural numbers being well founded.
LEMMA LeastNumber ==
    ASSUME NEW T, T \subseteq Nat, T # {}
    PROVE  \E n \in T : \A m \in T : n <= m
    <1> DEFINE R == OpToRel(<, Nat)
    <1>1. IsWellFoundedOn(R, Nat)
        BY NatLessThanWellFounded
    <1>2. PICK n \in T : \A m \in T : <<m, n>> \notin R
        <2> HIDE DEF R
        <2> QED BY <1>1, WFMin
    <1>3. \A m \in T : ~(m < n)
        BY <1>2 DEF OpToRel
    <1> QED BY <1>3

LEMMA LastExists ==
    ASSUME NEW n \in Nat, NEW T, T \subseteq 1 .. n, T # {}
    PROVE  \E m \in T : \A k \in T : k <= m
    <1> DEFINE D == {n - k : k \in T}
    <1>1. D \subseteq Nat
        BY SMT
    <1>2. D # {}
        OBVIOUS
    <1>3. PICK d \in D : \A e \in D : d <= e
        <2> HIDE DEF D
        <2> QED BY <1>1, <1>2, LeastNumber
    <1>4. PICK m \in T : d = n - m
        OBVIOUS
    <1>5. \A k \in T : n - m <= n - k
        BY <1>3, <1>4
    <1> QED BY <1>5

LEMMA LastOfIsLast ==
    ASSUME TypeOK, NEW kinds, LastOf(kinds) # 0
    PROVE  /\ LastOf(kinds) \in DOMAIN log /\ log[LastOf(kinds)].kind \in kinds
           /\ \A k \in DOMAIN log : log[k].kind \in kinds => k <= LastOf(kinds)
    <1> DEFINE at == {i \in DOMAIN log : log[i].kind \in kinds}
    <1>1. at # {} /\ LastOf(kinds) = CHOOSE i \in at : \A k \in at : k <= i
        BY DEF LastOf
    <1>2. \E i \in at : \A k \in at : k <= i
        <2>1. Len(log) \in Nat /\ at \subseteq 1 .. Len(log)
            BY DEF TypeOK
        <2> HIDE DEF at
        <2> QED BY <1>1, <2>1, LastExists
    <1>3. LastOf(kinds) \in at /\ \A k \in at : k <= LastOf(kinds)
        <2> HIDE DEF at
        <2> QED BY <1>1, <1>2
    <1> QED BY <1>3

\* When the transfers of a token do not overlap and none is open, the last send
\* and the last receive belong together if they are of one token: a receive of
\* another transfer would have that send between its halves.
LEMMA LastPairIsATransfer ==
    ASSUME Inv, OneAtATime, Open = {},
           LastOf({"TokenSend"}) # 0, LastOf({"TokenReceive"}) # 0,
           SameToken(LastOf({"TokenSend"}), LastOf({"TokenReceive"}))
    PROVE  <<LastOf({"TokenSend"}), LastOf({"TokenReceive"})>> \in Transfers
    <1> DEFINE s == LastOf({"TokenSend"})
               r == LastOf({"TokenReceive"})
               j == log[r].of
    <1>0. DOMAIN log \subseteq Int
        BY DEF Inv, TypeOK
    <1>1. /\ s \in DOMAIN log /\ IsSend(s)
          /\ \A k \in DOMAIN log : IsSend(k) => k <= s
        BY LastOfIsLast DEF Inv, IsSend
    <1>2. /\ r \in DOMAIN log /\ IsReceive(r)
          /\ \A k \in DOMAIN log : IsReceive(k) => k <= r
        BY LastOfIsLast DEF Inv, IsReceive
    <1>3. log[s].data.symbol = log[r].data.symbol
        BY DEF SameToken
    <1> HIDE DEF s, r
    <1>4. PICK i \in DOMAIN log : IsReceive(i) /\ log[i].of = s
        BY <1>1 DEF Open
    <1>5. j \in DOMAIN log /\ j < r /\ IsSend(j) /\ Equal(j, r)
        BY <1>2 DEF Inv, Completes
    <1>6. s < i /\ i <= r
        BY <1>2, <1>4 DEF Inv, Completes
    <1>7. ASSUME j # s PROVE FALSE
        <2>1. j < s /\ s < r
            BY <1>0, <1>1, <1>2, <1>4, <1>5, <1>6, <1>7
        <2>2. <<j, r>> \in Transfers
            BY <1>2, <1>5 DEF Transfers
        <2>3. log[s].data.symbol # log[j].data.symbol
            BY <1>1, <2>1, <2>2 DEF OneAtATime
        <2> QED BY <1>3, <1>5, <2>3 DEF Equal
    <1>8. <<s, r>> \in Transfers
        BY <1>1, <1>2, <1>7 DEF Transfers
    <1> QED BY <1>8 DEF s, r

\* The text of a transaction never names a sender and a receiver who did not
\* deal with each other, for logs of any length whose transfers of a token do
\* not overlap (GetTxDescription, RpcUtils.h:275-432).
THEOREM DescriptionsNameTransfers == Spec => []DescriptionNamesATransfer
    <1>1. Inv => DescriptionNamesATransfer
        <2> SUFFICES ASSUME Inv, OneAtATime, Open = {}, NEW a \in Addresses \cup {Null}
                     PROVE  NamesATransfer(Description(a))
            BY DEF DescriptionNamesATransfer
        <2> DEFINE s == LastOf({"TokenSend"})
                   r == LastOf({"TokenReceive"})
                   n == LastOf({"TokenSend", "TokenReceive", "TokenStake"})
        <2>1. Description(a) = Parties(a, s, r, n) \/ (Description(a).from = 0 /\ Description(a).to = 0)
            BY DEF Description, Says, Custom
        <2>2. CASE Description(a).from = 0 /\ Description(a).to = 0
            BY <2>2 DEF NamesATransfer
        <2>3. CASE Description(a) = Parties(a, s, r, n) /\ r # 0 /\ s # 0 /\ SameToken(s, r)
            <3>1. <<s, r>> \in Transfers
                BY <2>3, LastPairIsATransfer
            <3>2. Parties(a, s, r, n).from \in {0, s} /\ Parties(a, s, r, n).to \in {0, r}
                BY <2>3 DEF Parties, Custom, ToldTo, Says
            <3> QED BY <2>3, <3>1, <3>2 DEF NamesATransfer
        <2>4. CASE Description(a) = Parties(a, s, r, n) /\ r # 0 /\ ~(s # 0 /\ SameToken(s, r))
            <3>1. r \in DOMAIN log /\ IsReceive(r)
                BY <2>4, LastOfIsLast DEF Inv, IsReceive
            <3>2. <<log[r].of, r>> \in Transfers
                BY <3>1 DEF Inv, Completes, Transfers
            <3>3. Parties(a, s, r, n).from = 0 /\ Parties(a, s, r, n).to \in {0, r}
                BY <2>4 DEF Parties, Custom, Says
            <3> QED BY <2>4, <3>2, <3>3 DEF NamesATransfer
        <2>5. CASE Description(a) = Parties(a, s, r, n) /\ r = 0
            BY <2>5 DEF Parties, Custom, Says, NamesATransfer
        <2> QED BY <2>1, <2>2, <2>3, <2>4, <2>5
    <1> QED BY <1>1, InvAlways, PTL
=============================================================================
