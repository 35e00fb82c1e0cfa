----------------------- MODULE SecureByteArrayProofs -----------------------
(***************************************************************************)
(* What the run of MCSecureByteArray checks for two arrays and four        *)
(* handles, for any number of arrays, handles and blocks.                  *)
(***************************************************************************)
EXTENDS SecureByteArray, FiniteSetTheorems, TLAPS

Kinds == {"reader", "writer"}

Members == [alive : BOOLEAN, m_data : Blocks \cup {None}, m_readers : Nat, m_writers : Nat,
            m_protectAccess : BOOLEAN]

Types ==
  /\ array \in [Arrays -> Members]
  /\ handle \in [Handles -> [kind : Kinds \cup {"closed"}, owner : Arrays \cup {None},
                             data : Blocks \cup {None}]]
  /\ access \in [Blocks -> {"Freed", "NoAccess", "ReadOnly", "ReadWrite"}]
  /\ asked \in [Blocks -> BOOLEAN]

\* The counts are those of the open handles.
Counts ==
  \A o \in Arrays : /\ array[o].m_readers = Cardinality(Open(o, "reader"))
                    /\ array[o].m_writers = Cardinality(Open(o, "writer"))

\* An open handle has an array, which exists and has the block that the handle points to.
Linked ==
  \A h \in Handles :
    /\ handle[h].kind = "closed" => handle[h].owner = None
    /\ handle[h].kind # "closed" => /\ handle[h].owner \in Arrays
                                    /\ array[handle[h].owner].alive
                                    /\ array[handle[h].owner].m_data # None
                                    /\ handle[h].data = array[handle[h].owner].m_data

\* No two arrays have the same block, an array that is gone has none, and what is not freed is
\* some array's.
Owned ==
  /\ \A o \in Arrays : array[o].m_data # None => array[o].alive /\ access[array[o].m_data] # "Freed"
  /\ \A o, p \in Arrays : array[o].m_data = array[p].m_data /\ array[o].m_data # None => o = p
  /\ \A b \in Blocks : access[b] # "Freed" => \E o \in Arrays : array[o].m_data = b

\* A protecting array's block is open as far as its handles call for, once it was asked to be
\* protected or a handle is open; another's is always open.
PageRight(o) ==
  LET b == array[o].m_data
  IN b # None =>
       /\ array[o].m_protectAccess =>
            (asked[b] \/ Open(o, "reader") # {} \/ Open(o, "writer") # {} => access[b] = Due(o))
       /\ ~ array[o].m_protectAccess => access[b] = "ReadWrite" /\ ~ asked[b]

PagesRight == \A o \in Arrays : PageRight(o)

IInv == Types /\ Counts /\ Linked /\ Owned /\ PagesRight
-----------------------------------------------------------------------------
(* The sets of open handles. *)

LEMMA OpenFinite ==
  \A o \in Arrays, kind \in Kinds : IsFiniteSet(Open(o, kind)) /\ Cardinality(Open(o, kind)) \in Nat
  <1>1. ASSUME NEW o \in Arrays, NEW kind \in Kinds PROVE Open(o, kind) \in SUBSET Handles
    BY DEF Open
  <1>. QED  BY <1>1, HandlesAssumption, FS_Subset, FS_CardinalityType

LEMMA Counted ==
  ASSUME Types, Counts, NEW o \in Arrays
  PROVE  /\ array[o].m_readers = 0 <=> Open(o, "reader") = {}
         /\ array[o].m_writers = 0 <=> Open(o, "writer") = {}
  BY OpenFinite, FS_EmptySet DEF Counts, Kinds

\* An array that nobody uses, or that is gone or has no block, has no open handle.
LEMMA NoHandles ==
  ASSUME Types, Linked, NEW o \in Arrays, Unused(o) \/ ~ array[o].alive \/ array[o].m_data = None
  PROVE  /\ Open(o, "reader") = {} /\ Open(o, "writer") = {}
         /\ \A h \in Handles : handle[h].owner # o
  <1>1. ASSUME NEW h \in Handles, handle[h].owner = o PROVE FALSE
    <2>1. o # None
      BY NoneAssumption
    <2>. QED  BY <1>1, <2>1 DEF Linked, Unused
  <1>. QED  BY <1>1 DEF Open

LEMMA Handed ==
  ASSUME Types, NEW h \in Handles, NEW o \in Arrays, NEW kind \in Kinds, Hand(h, o, kind)
  PROVE  /\ h \notin Open(o, kind) /\ Open(o, kind)' = Open(o, kind) \cup {h}
         /\ \A p \in Arrays, k \in Kinds : p # o \/ k # kind => Open(p, k)' = Open(p, k)
  <1>1. handle[h].kind = "closed" /\ handle' = [handle EXCEPT ![h] = [kind |-> kind, owner |-> o, data |-> array[o].m_data]]
    BY DEF Hand
  <1>2. \A g \in Handles : /\ g # h => handle'[g] = handle[g]
                           /\ g = h => handle'[g].kind = kind /\ handle'[g].owner = o
    BY <1>1 DEF Types
  <1>3. handle[h].kind \notin Kinds
    BY <1>1 DEF Kinds
  <1>. QED  BY <1>2, <1>3 DEF Open

LEMMA Dropped ==
  ASSUME Types, NEW h \in Handles, NEW o \in Arrays, NEW kind \in Kinds,
         handle[h].kind = kind, handle[h].owner = o, Drop(h)
  PROVE  /\ h \in Open(o, kind) /\ Open(o, kind)' = Open(o, kind) \ {h}
         /\ \A p \in Arrays, k \in Kinds : p # o \/ k # kind => Open(p, k)' = Open(p, k)
  <1>1. handle' = [handle EXCEPT ![h] = Closed]
    BY DEF Drop
  <1>2. \A g \in Handles : /\ g # h => handle'[g] = handle[g]
                           /\ g = h => handle'[g].kind = "closed"
    BY <1>1 DEF Types, Closed
  <1>3. "closed" \notin Kinds
    BY DEF Kinds
  <1>. QED  BY <1>2, <1>3 DEF Open

LEMMA DueIs ==
  ASSUME NEW o
  PROVE  Due(o) = IF Open(o, "writer") # {} THEN "ReadWrite"
                  ELSE IF Open(o, "reader") # {} THEN "ReadOnly" ELSE "NoAccess"
  BY DEF Due

LEMMA DueWillBe ==
  ASSUME NEW o
  PROVE  Due(o)' = IF Open(o, "writer")' # {} THEN "ReadWrite"
                   ELSE IF Open(o, "reader")' # {} THEN "ReadOnly" ELSE "NoAccess"
  BY DEF Due

LEMMA InitIInv == Init => IInv
  <1>. SUFFICES ASSUME Init PROVE IInv
    OBVIOUS
  <1>1. Types
    BY DEF Init, Types, Members, Gone, Closed, Kinds
  <1>2. Linked
    BY DEF Init, Linked, Closed
  <1>3. \A o \in Arrays : Open(o, "reader") = {} /\ Open(o, "writer") = {}
    BY DEF Init, Open, Closed
  <1>4. Counts
    BY <1>3, FS_EmptySet DEF Init, Counts, Gone
  <1>5. Owned /\ PagesRight
    BY DEF Init, Owned, PagesRight, PageRight, Gone
  <1>. QED  BY <1>1, <1>2, <1>4, <1>5 DEF IInv
-----------------------------------------------------------------------------
(* Opening and closing a handle. *)

LEMMA ReadersSet ==
  ASSUME Types, NEW o \in Arrays, NEW n \in Nat, array' = [array EXCEPT ![o].m_readers = n]
  PROVE  /\ array' \in [Arrays -> Members]
         /\ \A p \in Arrays : p # o => array'[p] = array[p]
         /\ array'[o].m_readers = n /\ array'[o].m_writers = array[o].m_writers
         /\ array'[o].alive = array[o].alive /\ array'[o].m_data = array[o].m_data
         /\ array'[o].m_protectAccess = array[o].m_protectAccess
  BY DEF Types, Members

LEMMA WritersSet ==
  ASSUME Types, NEW o \in Arrays, NEW n \in Nat, array' = [array EXCEPT ![o].m_writers = n]
  PROVE  /\ array' \in [Arrays -> Members]
         /\ \A p \in Arrays : p # o => array'[p] = array[p]
         /\ array'[o].m_writers = n /\ array'[o].m_readers = array[o].m_readers
         /\ array'[o].alive = array[o].alive /\ array'[o].m_data = array[o].m_data
         /\ array'[o].m_protectAccess = array[o].m_protectAccess
  BY DEF Types, Members

\* A call that protects the array's block touches no other and frees none.
LEMMA Protected ==
  ASSUME Types, Owned, NEW o \in Arrays, array[o].m_data # None,
         NEW condition \in BOOLEAN, NEW protection \in {"NoAccess", "ReadOnly", "ReadWrite"},
         Protect(o, condition, protection)
  PROVE  /\ access' \in [Blocks -> {"Freed", "NoAccess", "ReadOnly", "ReadWrite"}]
         /\ array[o].m_data \in Blocks /\ access'[array[o].m_data] # "Freed"
         /\ \A c \in Blocks : c # array[o].m_data => access'[c] = access[c]
         /\ access'[array[o].m_data] = IF array[o].m_protectAccess /\ condition
                                       THEN protection ELSE access[array[o].m_data]
  BY DEF Types, Members, Owned, Protect

\* Such a call, on one array, leaves every other as it was.
LEMMA Elsewhere ==
  ASSUME IInv, NEW o \in Arrays, array[o].m_data # None, asked' = asked,
         \A p \in Arrays : p # o => array'[p] = array[p],
         array'[o].m_data = array[o].m_data, array'[o].alive = array[o].alive,
         \A p \in Arrays, k \in Kinds : p # o => Open(p, k)' = Open(p, k),
         \A c \in Blocks : c # array[o].m_data => access'[c] = access[c],
         access'[array[o].m_data] # "Freed",
         PageRight(o)'
  PROVE  Owned' /\ PagesRight'
  <1>1. Types /\ Owned /\ PagesRight
    BY DEF IInv
  <1>2. Owned'
    BY <1>1 DEF Owned, Types, Members
  <1>3. ASSUME NEW p \in Arrays, p # o PROVE PageRight(p)'
    <2>1. array'[p] = array[p] /\ Open(p, "reader")' = Open(p, "reader") /\ Open(p, "writer")' = Open(p, "writer")
      BY <1>3 DEF Kinds
    <2>2. array[p].m_data # None => array[p].m_data \in Blocks /\ array[p].m_data # array[o].m_data
      BY <1>1, <1>3 DEF Owned, Types, Members
    <2>3. array[p].m_data # None => access'[array[p].m_data] = access[array[p].m_data]
      BY <2>2
    <2>4. Due(p)' = Due(p)
      BY <2>1, DueIs, DueWillBe
    <2>5. PageRight(p)
      BY <1>1 DEF PagesRight
    <2>. QED  BY <2>1, <2>3, <2>4, <2>5 DEF PageRight
  <1>. QED  BY <1>2, <1>3 DEF PagesRight

LEMMA LinkedStep ==
  ASSUME Linked,
         \A p \in Arrays : array'[p].alive = array[p].alive /\ array'[p].m_data = array[p].m_data,
         \A g \in Handles : \/ handle'[g] = handle[g]
                            \/ handle'[g] = Closed
                            \/ /\ handle'[g].kind # "closed" /\ handle'[g].owner \in Arrays
                               /\ array[handle'[g].owner].alive
                               /\ array[handle'[g].owner].m_data # None
                               /\ handle'[g].data = array[handle'[g].owner].m_data
  PROVE  Linked'
  BY DEF Linked, Closed

LEMMA HandLinks ==
  ASSUME Types, Linked, NEW h \in Handles, NEW o \in Arrays, NEW kind \in Kinds, Hand(h, o, kind),
         array[o].alive, array[o].m_data # None,
         \A p \in Arrays : array'[p].alive = array[p].alive /\ array'[p].m_data = array[p].m_data
  PROVE  Linked' /\ handle' \in [Handles -> [kind : Kinds \cup {"closed"}, owner : Arrays \cup {None},
                                             data : Blocks \cup {None}]]
  <1>. DEFINE point == [kind |-> kind, owner |-> o, data |-> array[o].m_data]
  <1>1. handle' = [handle EXCEPT ![h] = point] /\ kind # "closed"
    BY DEF Hand, Kinds
  <1>2. \A g \in Handles : handle'[g] = handle[g] \/ handle'[g] = point
    BY <1>1 DEF Types
  <1>3. Linked'
    BY <1>1, <1>2, LinkedStep
  <1>. QED  BY <1>1, <1>3 DEF Types, Members

LEMMA DropLinks ==
  ASSUME Types, Linked, NEW h \in Handles, Drop(h),
         \A p \in Arrays : array'[p].alive = array[p].alive /\ array'[p].m_data = array[p].m_data
  PROVE  Linked' /\ handle' \in [Handles -> [kind : Kinds \cup {"closed"}, owner : Arrays \cup {None},
                                             data : Blocks \cup {None}]]
  <1>1. handle' = [handle EXCEPT ![h] = Closed]
    BY DEF Drop
  <1>2. \A g \in Handles : handle'[g] = handle[g] \/ handle'[g] = Closed
    BY <1>1 DEF Types
  <1>3. Linked'
    BY <1>2, LinkedStep
  <1>. QED  BY <1>1, <1>3 DEF Types, Closed

LEMMA ReadStep == ASSUME IInv, NEW o \in Arrays, NEW h \in Handles, Read(o, h) PROVE IInv'
  <1>. DEFINE b == array[o].m_data
              R == Open(o, "reader")
              W == Open(o, "writer")
  <1>1. Types /\ Counts /\ Linked /\ Owned /\ PageRight(o)
    BY DEF IInv, PagesRight
  <1>2. array[o].alive /\ b # None /\ Hand(h, o, "reader") /\ "reader" \in Kinds
    BY DEF Read, Kinds
  <1>3. /\ array[o].m_readers \in Nat /\ array[o].m_readers + 1 \in Nat
        /\ array' = [array EXCEPT ![o].m_readers = array[o].m_readers + 1]
    BY <1>1 DEF Types, Members, Read
  <1>4. /\ array' \in [Arrays -> Members] /\ \A p \in Arrays : p # o => array'[p] = array[p]
        /\ array'[o].m_readers = array[o].m_readers + 1 /\ array'[o].m_writers = array[o].m_writers
        /\ array'[o].alive = array[o].alive /\ array'[o].m_data = b
        /\ array'[o].m_protectAccess = array[o].m_protectAccess
    BY <1>1, <1>3, ReadersSet
  <1>5. /\ h \notin R /\ R' = R \cup {h} /\ W' = W
        /\ \A p \in Arrays, k \in Kinds : p # o => Open(p, k)' = Open(p, k)
    BY <1>1, <1>2, Handed DEF Kinds
  <1>6. Idle(array[o]) <=> R = {} /\ W = {}
    BY <1>1, Counted DEF Idle
  <1>7. /\ access' \in [Blocks -> {"Freed", "NoAccess", "ReadOnly", "ReadWrite"}]
        /\ b \in Blocks /\ access'[b] # "Freed"
        /\ \A c \in Blocks : c # b => access'[c] = access[c]
        /\ access'[b] = IF array[o].m_protectAccess /\ R = {} /\ W = {} THEN "ReadOnly" ELSE access[b]
    <2>1. Idle(array[o]) \in BOOLEAN /\ Protect(o, Idle(array[o]), "ReadOnly")
      BY DEF Idle, Read
    <2>. QED  BY <1>1, <1>2, <1>6, <2>1, Protected
  <1>8. PageRight(o)'
    <2>1. Due(o)' = IF W # {} THEN "ReadWrite" ELSE "ReadOnly"
      BY <1>5, DueWillBe
    <2>2. asked' = asked
      BY <1>2 DEF Hand
    <2>3. R # {} \/ W # {} => (array[o].m_protectAccess => access[b] = Due(o))
      BY <1>1, <1>2 DEF PageRight
    <2>. QED  BY <1>1, <1>2, <1>4, <1>7, <2>1, <2>2, <2>3, DueIs DEF PageRight
  <1>9. Linked' /\ Types'
    <2>1. \A p \in Arrays : array'[p].alive = array[p].alive /\ array'[p].m_data = array[p].m_data
      BY <1>4
    <2>2. Linked' /\ handle' \in [Handles -> [kind : Kinds \cup {"closed"}, owner : Arrays \cup {None},
                                              data : Blocks \cup {None}]]
      BY <1>1, <1>2, <2>1, HandLinks
    <2>3. asked' = asked
      BY <1>2 DEF Hand
    <2>. QED  BY <1>1, <1>4, <1>7, <2>2, <2>3 DEF Types
  <1>10. Counts'
    <2>1. IsFiniteSet(R) /\ Cardinality(R \cup {h}) = Cardinality(R) + 1
      BY <1>2, <1>5, OpenFinite, FS_AddElement
    <2>2. array'[o].m_readers = Cardinality(R') /\ array'[o].m_writers = Cardinality(W')
      BY <1>1, <1>4, <1>5, <2>1 DEF Counts
    <2>3. ASSUME NEW p \in Arrays, p # o
          PROVE  array'[p].m_readers = Cardinality(Open(p, "reader")') /\ array'[p].m_writers = Cardinality(Open(p, "writer")')
      BY <1>1, <1>4, <1>5, <2>3 DEF Counts, Kinds
    <2>. QED  BY <2>2, <2>3 DEF Counts
  <1>. QED  BY <1>2, <1>4, <1>5, <1>7, <1>8, <1>9, <1>10, Elsewhere DEF IInv, Hand

LEMMA WriteStep == ASSUME IInv, NEW o \in Arrays, NEW h \in Handles, Write(o, h) PROVE IInv'
  <1>. DEFINE b == array[o].m_data
              R == Open(o, "reader")
              W == Open(o, "writer")
  <1>1. Types /\ Counts /\ Linked /\ Owned /\ PageRight(o)
    BY DEF IInv, PagesRight
  <1>2. array[o].alive /\ b # None /\ Hand(h, o, "writer") /\ "writer" \in Kinds
    BY DEF Write, Kinds
  <1>3. /\ array[o].m_writers \in Nat /\ array[o].m_writers + 1 \in Nat
        /\ array' = [array EXCEPT ![o].m_writers = array[o].m_writers + 1]
    BY <1>1 DEF Types, Members, Write
  <1>4. /\ array' \in [Arrays -> Members] /\ \A p \in Arrays : p # o => array'[p] = array[p]
        /\ array'[o].m_writers = array[o].m_writers + 1 /\ array'[o].m_readers = array[o].m_readers
        /\ array'[o].alive = array[o].alive /\ array'[o].m_data = b
        /\ array'[o].m_protectAccess = array[o].m_protectAccess
    BY <1>1, <1>3, WritersSet
  <1>5. /\ h \notin W /\ W' = W \cup {h} /\ R' = R
        /\ \A p \in Arrays, k \in Kinds : p # o => Open(p, k)' = Open(p, k)
    BY <1>1, <1>2, Handed DEF Kinds
  <1>6. array[o].m_writers = 0 <=> W = {}
    BY <1>1, Counted
  <1>7. /\ access' \in [Blocks -> {"Freed", "NoAccess", "ReadOnly", "ReadWrite"}]
        /\ b \in Blocks /\ access'[b] # "Freed"
        /\ \A c \in Blocks : c # b => access'[c] = access[c]
        /\ access'[b] = IF array[o].m_protectAccess /\ W = {} THEN "ReadWrite" ELSE access[b]
    <2>1. (array[o].m_writers = 0) \in BOOLEAN /\ Protect(o, array[o].m_writers = 0, "ReadWrite")
      BY DEF Write
    <2>. QED  BY <1>1, <1>2, <1>6, <2>1, Protected
  <1>8. PageRight(o)'
    <2>1. Due(o)' = "ReadWrite"
      BY <1>5, DueWillBe
    <2>2. asked' = asked
      BY <1>2 DEF Hand
    <2>3. W # {} => (array[o].m_protectAccess => access[b] = Due(o))
      BY <1>1, <1>2 DEF PageRight
    <2>. QED  BY <1>1, <1>2, <1>4, <1>7, <2>1, <2>2, <2>3, DueIs DEF PageRight
  <1>9. Linked' /\ Types'
    <2>1. \A p \in Arrays : array'[p].alive = array[p].alive /\ array'[p].m_data = array[p].m_data
      BY <1>4
    <2>2. Linked' /\ handle' \in [Handles -> [kind : Kinds \cup {"closed"}, owner : Arrays \cup {None},
                                              data : Blocks \cup {None}]]
      BY <1>1, <1>2, <2>1, HandLinks
    <2>3. asked' = asked
      BY <1>2 DEF Hand
    <2>. QED  BY <1>1, <1>4, <1>7, <2>2, <2>3 DEF Types
  <1>10. Counts'
    <2>1. IsFiniteSet(W) /\ Cardinality(W \cup {h}) = Cardinality(W) + 1
      BY <1>2, <1>5, OpenFinite, FS_AddElement
    <2>2. array'[o].m_readers = Cardinality(R') /\ array'[o].m_writers = Cardinality(W')
      BY <1>1, <1>4, <1>5, <2>1 DEF Counts
    <2>3. ASSUME NEW p \in Arrays, p # o
          PROVE  array'[p].m_readers = Cardinality(Open(p, "reader")') /\ array'[p].m_writers = Cardinality(Open(p, "writer")')
      BY <1>1, <1>4, <1>5, <2>3 DEF Counts, Kinds
    <2>. QED  BY <2>2, <2>3 DEF Counts
  <1>. QED  BY <1>2, <1>4, <1>5, <1>7, <1>8, <1>9, <1>10, Elsewhere DEF IInv, Hand

\* The block's protection once the last handle that called for more is closed.
LEMMA UnlockReaderStep == ASSUME IInv, NEW h \in Handles, UnlockReader(h) PROVE IInv'
  <1>. DEFINE o == handle[h].owner
              b == array[o].m_data
              R == Open(o, "reader")
              W == Open(o, "writer")
  <1>1. Types /\ Counts /\ Linked /\ Owned /\ PagesRight
    BY DEF IInv
  <1>2. handle[h].kind = "reader" /\ Drop(h) /\ "reader" \in Kinds
    BY DEF UnlockReader, Kinds
  <1>3. o \in Arrays /\ array[o].alive /\ b # None /\ PageRight(o)
    BY <1>1, <1>2 DEF Linked, PagesRight
  <1>4. h \in R /\ IsFiniteSet(R) /\ array[o].m_readers = Cardinality(R) /\ Cardinality(R) \in Nat
    BY <1>1, <1>2, <1>3, OpenFinite DEF Open, Counts
  <1>5. Cardinality(R \ {h}) = Cardinality(R) - 1 /\ Cardinality(R \ {h}) \in Nat
    BY <1>4, FS_RemoveElement, FS_CardinalityType
  <1>6. /\ array[o].m_readers - 1 \in Nat
        /\ array' = [array EXCEPT ![o].m_readers = array[o].m_readers - 1]
    BY <1>4, <1>5 DEF UnlockReader
  <1>. DEFINE shut == array'[o].m_readers = 0 /\ array'[o].m_writers = 0
  <1>7. shut \in BOOLEAN /\ Protect(o, shut, "NoAccess")
    BY DEF UnlockReader, Idle
  <1>. HIDE DEF o
  <1>8. /\ array' \in [Arrays -> Members] /\ \A p \in Arrays : p # o => array'[p] = array[p]
        /\ array'[o].m_readers = array[o].m_readers - 1 /\ array'[o].m_writers = array[o].m_writers
        /\ array'[o].alive = array[o].alive /\ array'[o].m_data = b
        /\ array'[o].m_protectAccess = array[o].m_protectAccess
    BY <1>1, <1>3, <1>6, ReadersSet
  <1>. DEFINE left == Open(o, "reader") \ {h}
  <1>9. /\ \A p \in Arrays, k \in Kinds : p # o \/ k # "reader" => Open(p, k)' = Open(p, k)
        /\ \A p \in Arrays : p = o => Open(p, "reader")' = left /\ Open(p, "writer")' = W
    BY <1>1, <1>2, <1>3, Dropped DEF o, Kinds
  <1>10. shut <=> left = {} /\ W = {}
    <2>1. IsFiniteSet(left)
      BY <1>4, FS_RemoveElement
    <2>2. Cardinality(left) = 0 <=> left = {}
      BY <2>1, FS_EmptySet
    <2>. QED  BY <1>1, <1>3, <1>4, <1>5, <1>8, <2>2, Counted
  <1>11. /\ access' \in [Blocks -> {"Freed", "NoAccess", "ReadOnly", "ReadWrite"}]
         /\ b \in Blocks /\ access'[b] # "Freed"
         /\ \A c \in Blocks : c # b => access'[c] = access[c]
         /\ access'[b] = IF array[o].m_protectAccess /\ left = {} /\ W = {} THEN "NoAccess" ELSE access[b]
    <2>. HIDE DEF shut
    <2>. QED  BY <1>1, <1>3, <1>7, <1>10, Protected
  <1>12. asked' = asked
    BY <1>2 DEF Drop
  <1>13. ASSUME NEW p \in Arrays, p = o PROVE PageRight(p)'
    <2>1. Due(p)' = IF W # {} THEN "ReadWrite" ELSE IF left # {} THEN "ReadOnly" ELSE "NoAccess"
      BY <1>9, <1>13, DueWillBe
    <2>2. array[o].m_protectAccess => access[b] = IF W # {} THEN "ReadWrite" ELSE "ReadOnly"
      BY <1>3, <1>4, DueIs DEF PageRight
    <2>. QED  BY <1>3, <1>8, <1>9, <1>11, <1>12, <1>13, <2>1, <2>2 DEF PageRight
  <1>14. Linked' /\ Types'
    <2>1. \A p \in Arrays : array'[p].alive = array[p].alive /\ array'[p].m_data = array[p].m_data
      BY <1>8
    <2>2. Linked' /\ handle' \in [Handles -> [kind : Kinds \cup {"closed"}, owner : Arrays \cup {None},
                                              data : Blocks \cup {None}]]
      BY <1>1, <1>2, <2>1, DropLinks
    <2>. QED  BY <1>1, <1>8, <1>11, <1>12, <2>2 DEF Types
  <1>15. Counts'
    <2>1. ASSUME NEW p \in Arrays
          PROVE  array'[p].m_readers = Cardinality(Open(p, "reader")') /\ array'[p].m_writers = Cardinality(Open(p, "writer")')
      <3>1. CASE p = o
        BY <1>1, <1>4, <1>5, <1>8, <1>9, <3>1 DEF Counts
      <3>2. CASE p # o
        BY <1>1, <1>8, <1>9, <3>2 DEF Counts, Kinds
      <3>. QED  BY <3>1, <3>2
    <2>. QED  BY <2>1 DEF Counts
  <1>. QED  BY <1>3, <1>8, <1>9, <1>11, <1>12, <1>13, <1>14, <1>15, Elsewhere DEF IInv

LEMMA UnlockWriterStep == ASSUME IInv, NEW h \in Handles, UnlockWriter(h) PROVE IInv'
  <1>. DEFINE o == handle[h].owner
              b == array[o].m_data
              R == Open(o, "reader")
              W == Open(o, "writer")
  <1>1. Types /\ Counts /\ Linked /\ Owned /\ PagesRight
    BY DEF IInv
  <1>2. handle[h].kind = "writer" /\ Drop(h) /\ "writer" \in Kinds
    BY DEF UnlockWriter, Kinds
  <1>3. o \in Arrays /\ array[o].alive /\ b # None /\ PageRight(o)
    BY <1>1, <1>2 DEF Linked, PagesRight
  <1>4. h \in W /\ IsFiniteSet(W) /\ array[o].m_writers = Cardinality(W) /\ Cardinality(W) \in Nat
    BY <1>1, <1>2, <1>3, OpenFinite DEF Open, Counts
  <1>5. Cardinality(W \ {h}) = Cardinality(W) - 1 /\ Cardinality(W \ {h}) \in Nat
    BY <1>4, FS_RemoveElement, FS_CardinalityType
  <1>6. /\ array[o].m_writers - 1 \in Nat
        /\ array' = [array EXCEPT ![o].m_writers = array[o].m_writers - 1]
    BY <1>4, <1>5 DEF UnlockWriter
  <1>. DEFINE shut == array'[o].m_writers = 0
              protection == IF array'[o].m_readers = 0 THEN "NoAccess" ELSE "ReadOnly"
  <1>7. shut \in BOOLEAN /\ protection \in {"NoAccess", "ReadOnly", "ReadWrite"} /\ Protect(o, shut, protection)
    BY DEF UnlockWriter
  <1>. HIDE DEF o
  <1>8. /\ array' \in [Arrays -> Members] /\ \A p \in Arrays : p # o => array'[p] = array[p]
        /\ array'[o].m_writers = array[o].m_writers - 1 /\ array'[o].m_readers = array[o].m_readers
        /\ array'[o].alive = array[o].alive /\ array'[o].m_data = b
        /\ array'[o].m_protectAccess = array[o].m_protectAccess
    BY <1>1, <1>3, <1>6, WritersSet
  <1>. DEFINE left == Open(o, "writer") \ {h}
  <1>9. /\ \A p \in Arrays, k \in Kinds : p # o \/ k # "writer" => Open(p, k)' = Open(p, k)
        /\ \A p \in Arrays : p = o => Open(p, "writer")' = left /\ Open(p, "reader")' = R
    BY <1>1, <1>2, <1>3, Dropped DEF o, Kinds
  <1>10. (shut <=> left = {}) /\ protection = IF R = {} THEN "NoAccess" ELSE "ReadOnly"
    <2>1. IsFiniteSet(left)
      BY <1>4, FS_RemoveElement
    <2>2. Cardinality(left) = 0 <=> left = {}
      BY <2>1, FS_EmptySet
    <2>. QED  BY <1>1, <1>3, <1>4, <1>5, <1>8, <2>2, Counted
  <1>11. /\ access' \in [Blocks -> {"Freed", "NoAccess", "ReadOnly", "ReadWrite"}]
         /\ b \in Blocks /\ access'[b] # "Freed"
         /\ \A c \in Blocks : c # b => access'[c] = access[c]
         /\ access'[b] = IF array[o].m_protectAccess /\ left = {}
                         THEN IF R = {} THEN "NoAccess" ELSE "ReadOnly" ELSE access[b]
    <2>. HIDE DEF shut, protection
    <2>. QED  BY <1>1, <1>3, <1>7, <1>10, Protected
  <1>12. asked' = asked
    BY <1>2 DEF Drop
  <1>13. ASSUME NEW p \in Arrays, p = o PROVE PageRight(p)'
    <2>1. Due(p)' = IF left # {} THEN "ReadWrite" ELSE IF R # {} THEN "ReadOnly" ELSE "NoAccess"
      BY <1>9, <1>13, DueWillBe
    <2>2. array[o].m_protectAccess => access[b] = "ReadWrite"
      BY <1>3, <1>4, DueIs DEF PageRight
    <2>. QED  BY <1>3, <1>8, <1>9, <1>11, <1>12, <1>13, <2>1, <2>2 DEF PageRight
  <1>14. Linked' /\ Types'
    <2>1. \A p \in Arrays : array'[p].alive = array[p].alive /\ array'[p].m_data = array[p].m_data
      BY <1>8
    <2>2. Linked' /\ handle' \in [Handles -> [kind : Kinds \cup {"closed"}, owner : Arrays \cup {None},
                                              data : Blocks \cup {None}]]
      BY <1>1, <1>2, <2>1, DropLinks
    <2>. QED  BY <1>1, <1>8, <1>11, <1>12, <2>2 DEF Types
  <1>15. Counts'
    <2>1. ASSUME NEW p \in Arrays
          PROVE  array'[p].m_readers = Cardinality(Open(p, "reader")') /\ array'[p].m_writers = Cardinality(Open(p, "writer")')
      <3>1. CASE p = o
        BY <1>1, <1>4, <1>5, <1>8, <1>9, <3>1 DEF Counts
      <3>2. CASE p # o
        BY <1>1, <1>8, <1>9, <3>2 DEF Counts, Kinds
      <3>. QED  BY <3>1, <3>2
    <2>. QED  BY <2>1 DEF Counts
  <1>. QED  BY <1>3, <1>8, <1>9, <1>11, <1>12, <1>13, <1>14, <1>15, Elsewhere DEF IInv
-----------------------------------------------------------------------------
(* Making and destroying an array. *)

\* A call that changes only arrays without handles keeps the counts and the links.
LEMMA ObjectStep ==
  ASSUME Types, Counts, Linked, handle' = handle,
         \A p \in Arrays : \/ array'[p] = array[p]
                           \/ /\ Unused(p) \/ ~ array[p].alive
                              /\ array'[p].m_readers = 0 /\ array'[p].m_writers = 0
  PROVE  /\ Counts' /\ Linked'
         /\ \A p \in Arrays, k \in Kinds : Open(p, k)' = Open(p, k)
         /\ \A p \in Arrays : Due(p)' = Due(p)
  <1>1. \A p, k : Open(p, k)' = Open(p, k)
    BY DEF Open
  <1>2. Counts'
    <2>1. ASSUME NEW p \in Arrays
          PROVE  array'[p].m_readers = Cardinality(Open(p, "reader")') /\ array'[p].m_writers = Cardinality(Open(p, "writer")')
      <3>1. CASE array'[p] = array[p]
        BY <1>1, <3>1 DEF Counts
      <3>2. CASE array'[p] # array[p]
        BY <1>1, <3>2, NoHandles, FS_EmptySet
      <3>. QED  BY <3>1, <3>2
    <2>. QED  BY <2>1 DEF Counts
  <1>3. Linked'
    <2>1. ASSUME NEW h \in Handles, handle[h].kind # "closed" PROVE array'[handle[h].owner] = array[handle[h].owner]
      BY <2>1 DEF Linked, Unused
    <2>. QED  BY <2>1 DEF Linked
  <1>. QED  BY <1>1, <1>2, <1>3, DueIs, DueWillBe

\* The page of an array that the call leaves alone.
LEMMA SamePage ==
  ASSUME NEW p \in Arrays, PageRight(p), array'[p] = array[p],
         Open(p, "reader")' = Open(p, "reader"), Open(p, "writer")' = Open(p, "writer"),
         array[p].m_data # None => /\ access'[array[p].m_data] = access[array[p].m_data]
                                   /\ asked'[array[p].m_data] = asked[array[p].m_data]
  PROVE  PageRight(p)'
  <1>1. Due(p)' = Due(p)
    BY DueIs, DueWillBe
  <1>. QED  BY <1>1 DEF PageRight

LEMMA ConstructEmptyStep == ASSUME IInv, NEW o \in Arrays, ConstructEmpty(o) PROVE IInv'
  <1>. DEFINE new == [Gone EXCEPT !.alive = TRUE]
  <1>1. Types /\ Counts /\ Linked /\ Owned /\ PagesRight
    BY DEF IInv
  <1>2. /\ new \in Members /\ new.alive /\ new.m_data = None /\ new.m_readers = 0 /\ new.m_writers = 0
    BY DEF Gone, Members
  <1>. HIDE DEF new
  <1>3. /\ ~ array[o].alive /\ array[o].m_data = None /\ array' = [array EXCEPT ![o] = new]
        /\ handle' = handle /\ access' = access /\ asked' = asked
    BY <1>1 DEF ConstructEmpty, Owned, new
  <1>4. array' \in [Arrays -> Members] /\ array'[o] = new /\ \A p \in Arrays : p # o => array'[p] = array[p]
    BY <1>1, <1>2, <1>3 DEF Types
  <1>5. Types'
    BY <1>1, <1>3, <1>4 DEF Types
  <1>6. Counts' /\ Linked' /\ \A p \in Arrays, k \in Kinds : Open(p, k)' = Open(p, k)
    BY <1>1, <1>2, <1>3, <1>4, ObjectStep
  <1>7. Owned'
    BY <1>1, <1>2, <1>3, <1>4 DEF Owned, Types, Members
  <1>8. ASSUME NEW p \in Arrays PROVE PageRight(p)'
    <2>1. CASE p = o
      BY <1>2, <1>4, <2>1 DEF PageRight
    <2>2. CASE p # o
      BY <1>1, <1>3, <1>4, <1>6, <2>2, SamePage DEF PagesRight, Kinds
    <2>. QED  BY <2>1, <2>2
  <1>. QED  BY <1>5, <1>6, <1>7, <1>8 DEF IInv, PagesRight

LEMMA ConstructStep ==
  ASSUME IInv, NEW o \in Arrays, NEW protectAccess \in BOOLEAN, Construct(o, protectAccess) PROVE IInv'
  <1>1. Types /\ Counts /\ Linked /\ Owned /\ PagesRight
    BY DEF IInv
  <1>2. PICK b \in Blocks :
          /\ access[b] = "Freed"
          /\ array' = [array EXCEPT ![o] = [Gone EXCEPT !.alive = TRUE, !.m_data = b, !.m_protectAccess = protectAccess]]
          /\ access' = [access EXCEPT ![b] = IF protectAccess THEN "NoAccess" ELSE "ReadWrite"]
          /\ asked' = [asked EXCEPT ![b] = protectAccess]
    BY DEF Construct
  <1>. DEFINE new == [Gone EXCEPT !.alive = TRUE, !.m_data = b, !.m_protectAccess = protectAccess]
  <1>3. b # None /\ ~ array[o].alive /\ array[o].m_data = None /\ handle' = handle
    BY <1>1, NoneAssumption DEF Construct, Owned
  <1>4. /\ new \in Members /\ new.alive /\ new.m_data = b /\ new.m_readers = 0 /\ new.m_writers = 0
        /\ new.m_protectAccess = protectAccess
    BY DEF Gone, Members
  <1>5. array' = [array EXCEPT ![o] = new]
    BY <1>2
  <1>. HIDE DEF new
  <1>6. array' \in [Arrays -> Members] /\ array'[o] = new /\ \A p \in Arrays : p # o => array'[p] = array[p]
    BY <1>1, <1>4, <1>5 DEF Types
  <1>7. /\ access' \in [Blocks -> {"Freed", "NoAccess", "ReadOnly", "ReadWrite"}] /\ asked' \in [Blocks -> BOOLEAN]
        /\ access'[b] = IF protectAccess THEN "NoAccess" ELSE "ReadWrite"
        /\ asked'[b] = protectAccess
        /\ \A c \in Blocks : c # b => access'[c] = access[c] /\ asked'[c] = asked[c]
    BY <1>1, <1>2 DEF Types
  <1>8. Types'
    BY <1>1, <1>3, <1>6, <1>7 DEF Types
  <1>9. Counts' /\ Linked' /\ \A p \in Arrays, k \in Kinds : Open(p, k)' = Open(p, k)
    BY <1>1, <1>3, <1>4, <1>6, ObjectStep
  <1>10. \A p \in Arrays : array[p].m_data # b
    BY <1>1, <1>2, <1>3 DEF Owned
  <1>11. Owned'
    <2>1. \A p \in Arrays : /\ p = o => array'[p].m_data = b /\ array'[p].alive
                            /\ p # o => /\ array'[p].m_data = array[p].m_data /\ array[p].m_data # b
                                        /\ array'[p].alive = array[p].alive
      BY <1>4, <1>6, <1>10
    <2>2. \A p \in Arrays : array'[p].m_data # None => array'[p].alive /\ access'[array'[p].m_data] # "Freed"
      BY <1>1, <1>7, <2>1 DEF Owned, Types, Members
    <2>3. \A p, q \in Arrays : array'[p].m_data = array'[q].m_data /\ array'[p].m_data # None => p = q
      BY <1>1, <2>1 DEF Owned
    <2>4. ASSUME NEW c \in Blocks, access'[c] # "Freed" PROVE \E p \in Arrays : array'[p].m_data = c
      <3>1. CASE c = b
        BY <2>1, <3>1
      <3>2. CASE c # b
        <4>1. PICK p \in Arrays : array[p].m_data = c
          BY <1>1, <1>7, <2>4, <3>2 DEF Owned
        <4>2. c # None
          BY NoneAssumption
        <4>. QED  BY <1>3, <2>1, <4>1, <4>2
      <3>. QED  BY <3>1, <3>2
    <2>. QED  BY <2>2, <2>3, <2>4 DEF Owned
  <1>12. ASSUME NEW p \in Arrays PROVE PageRight(p)'
    <2>1. CASE p = o
      <3>1. Due(o)' = "NoAccess"
        BY <1>1, <1>3, <1>9, NoHandles, DueWillBe DEF Kinds
      <3>. QED  BY <1>4, <1>6, <1>7, <2>1, <3>1 DEF PageRight
    <2>2. CASE p # o
      BY <1>1, <1>6, <1>7, <1>9, <1>10, <2>2, SamePage DEF PagesRight, Kinds, Types, Members
    <2>. QED  BY <2>1, <2>2
  <1>. QED  BY <1>8, <1>9, <1>11, <1>12 DEF IInv, PagesRight

LEMMA DestroyStep == ASSUME IInv, NEW o \in Arrays, Destroy(o) PROVE IInv'
  <1>1. Types /\ Counts /\ Linked /\ Owned /\ PagesRight
    BY DEF IInv
  <1>2. /\ Unused(o) /\ array' = [array EXCEPT ![o] = Gone] /\ access' = Release(o)
        /\ handle' = handle /\ asked' = asked
    BY DEF Destroy
  <1>3. Gone \in Members /\ ~ Gone.alive /\ Gone.m_data = None /\ Gone.m_readers = 0 /\ Gone.m_writers = 0
    BY DEF Gone, Members
  <1>4. array' \in [Arrays -> Members] /\ array'[o] = Gone /\ \A p \in Arrays : p # o => array'[p] = array[p]
    BY <1>1, <1>2, <1>3 DEF Types
  <1>5. /\ access' \in [Blocks -> {"Freed", "NoAccess", "ReadOnly", "ReadWrite"}]
        /\ \A c \in Blocks : access'[c] = IF c = array[o].m_data THEN "Freed" ELSE access[c]
    BY <1>1, <1>2 DEF Release, Types
  <1>6. Types'
    BY <1>1, <1>2, <1>4, <1>5 DEF Types
  <1>7. Counts' /\ Linked' /\ \A p \in Arrays, k \in Kinds : Open(p, k)' = Open(p, k)
    BY <1>1, <1>2, <1>3, <1>4, ObjectStep
  <1>8. Owned'
    <2>1. \A p \in Arrays : /\ p = o => array'[p].m_data = None
                            /\ p # o => array'[p].m_data = array[p].m_data /\ array'[p].alive = array[p].alive
      BY <1>3, <1>4
    <2>2. \A p \in Arrays : array'[p].m_data # None => array'[p].alive /\ access'[array'[p].m_data] # "Freed"
      BY <1>1, <1>5, <2>1 DEF Owned, Types, Members
    <2>3. \A p, q \in Arrays : array'[p].m_data = array'[q].m_data /\ array'[p].m_data # None => p = q
      BY <1>1, <2>1 DEF Owned
    <2>4. \A c \in Blocks : access'[c] # "Freed" => \E p \in Arrays : array'[p].m_data = c
      BY <1>1, <1>5, <2>1 DEF Owned
    <2>. QED  BY <2>2, <2>3, <2>4 DEF Owned
  <1>9. ASSUME NEW p \in Arrays PROVE PageRight(p)'
    <2>1. CASE p = o
      BY <1>3, <1>4, <2>1 DEF PageRight
    <2>2. CASE p # o
      <3>1. array[p].m_data # None => array[p].m_data \in Blocks /\ array[p].m_data # array[o].m_data
        BY <1>1, <2>2 DEF Owned, Types, Members
      <3>. QED  BY <1>1, <1>2, <1>4, <1>5, <1>7, <2>2, <3>1, SamePage DEF PagesRight, Kinds
    <2>. QED  BY <2>1, <2>2
  <1>. QED  BY <1>6, <1>7, <1>8, <1>9 DEF IInv, PagesRight

LEMMA MoveConstructStep ==
  ASSUME IInv, NEW o \in Arrays, NEW p \in Arrays, MoveConstruct(o, p) PROVE IInv'
  <1>1. Types /\ Counts /\ Linked /\ Owned /\ PagesRight
    BY DEF IInv
  <1>. DEFINE b     == array[p].m_data
              new   == [Gone EXCEPT !.alive = TRUE, !.m_data = b]
              moved == [array EXCEPT ![o] = new]
              gone  == [array[p] EXCEPT !.m_data = None]
  <1>2. /\ ~ array[o].alive /\ array[p].alive /\ Unused(p) /\ o # p /\ array[o].m_data = None
        /\ handle' = handle /\ access' = access /\ asked' = asked
    BY <1>1 DEF MoveConstruct, Owned
  <1>3. /\ new \in Members /\ new.alive /\ new.m_data = b /\ new.m_readers = 0 /\ new.m_writers = 0
        /\ new.m_protectAccess
    BY <1>1 DEF Gone, Members, Types
  <1>4. gone \in Members /\ gone.alive /\ gone.m_data = None /\ gone.m_readers = 0 /\ gone.m_writers = 0
    <2>1. array[p] \in Members /\ array[p].m_readers = 0 /\ array[p].m_writers = 0
      BY <1>1, <1>2, NoHandles, Counted DEF Types
    <2>. QED  BY <1>2, <2>1 DEF Members
  <1>5. array' = [moved EXCEPT ![p].m_data = None]
    BY Zenon DEF MoveConstruct
  <1>. HIDE DEF new
  <1>6. moved \in [Arrays -> Members] /\ moved[o] = new /\ \A q \in Arrays : q # o => moved[q] = array[q]
    BY <1>1, <1>3 DEF Types
  <1>. HIDE DEF moved
  <1>7. /\ array' = [moved EXCEPT ![p] = gone]
    BY <1>2, <1>5, <1>6
  <1>. HIDE DEF gone
  <1>8. /\ array' \in [Arrays -> Members] /\ array'[o] = new /\ array'[p] = gone
        /\ \A q \in Arrays : q # o /\ q # p => array'[q] = array[q]
    BY <1>2, <1>4, <1>6, <1>7
  <1>9. Types'
    BY <1>1, <1>2, <1>8 DEF Types
  <1>10. Counts' /\ Linked' /\ \A q \in Arrays, k \in Kinds : Open(q, k)' = Open(q, k)
    BY <1>1, <1>2, <1>3, <1>4, <1>8, ObjectStep
  <1>11. Owned'
    <2>1. \A q \in Arrays : /\ q = o => array'[q].m_data = b /\ array'[q].alive
                            /\ q = p => array'[q].m_data = None
                            /\ q # o /\ q # p => array'[q].m_data = array[q].m_data /\ array'[q].alive = array[q].alive
      BY <1>3, <1>4, <1>8
    <2>2. \A q \in Arrays : array'[q].m_data # None => array'[q].alive /\ access'[array'[q].m_data] # "Freed"
      BY <1>1, <1>2, <2>1 DEF Owned
    <2>3. \A q, r \in Arrays : array'[q].m_data = array'[r].m_data /\ array'[q].m_data # None => q = r
      BY <1>1, <2>1 DEF Owned
    <2>4. ASSUME NEW c \in Blocks, access'[c] # "Freed" PROVE \E q \in Arrays : array'[q].m_data = c
      <3>1. PICK q \in Arrays : array[q].m_data = c
        BY <1>1, <1>2, <2>4 DEF Owned
      <3>2. q # o
        BY <1>2, <3>1, NoneAssumption
      <3>. QED  BY <2>1, <3>1, <3>2
    <2>. QED  BY <2>2, <2>3, <2>4 DEF Owned
  <1>12. ASSUME NEW q \in Arrays PROVE PageRight(q)'
    <2>1. CASE q = o
      <3>1. Due(o)' = "NoAccess"
        BY <1>1, <1>2, <1>10, NoHandles, DueWillBe DEF Kinds
      <3>2. Open(p, "reader") = {} /\ Open(p, "writer") = {} /\ Due(p) = "NoAccess" /\ PageRight(p)
        BY <1>1, <1>2, NoHandles, DueIs DEF PagesRight
      <3>3. Open(o, "reader")' = {} /\ Open(o, "writer")' = {}
        BY <1>1, <1>2, <1>10, NoHandles DEF Kinds
      <3>4. b # None /\ asked[b] => access[b] = "NoAccess"
        BY <3>2 DEF PageRight
      <3>. QED  BY <1>2, <1>3, <1>8, <2>1, <3>1, <3>3, <3>4 DEF PageRight
    <2>2. CASE q = p
      BY <1>4, <1>8, <2>2 DEF PageRight
    <2>3. CASE q # o /\ q # p
      BY <1>1, <1>2, <1>8, <1>10, <2>3, SamePage DEF PagesRight, Kinds
    <2>. QED  BY <2>1, <2>2, <2>3
  <1>. QED  BY <1>9, <1>10, <1>11, <1>12 DEF IInv, PagesRight

LEMMA CopyStep == ASSUME IInv, NEW o \in Arrays, NEW p \in Arrays, Copy(o, p) PROVE IInv'
  <1>1. Types /\ Counts /\ Linked /\ Owned /\ PagesRight
    BY DEF IInv
  <1>. DEFINE other   == array[p]
              protect == other.m_protectAccess
              after   == [c \in Blocks |->
                            IF c = other.m_data /\ other.m_protectAccess /\ Idle(other)
                            THEN "NoAccess" ELSE Release(o)[c]]
  <1>2. /\ o # p /\ other.alive /\ Unused(o) /\ handle' = handle
    BY DEF Copy
  <1>3. PICK b \in Blocks :
          /\ Release(o)[b] = "Freed"
          /\ array' = [array EXCEPT ![o].alive = TRUE, ![o].m_data = b, ![o].m_protectAccess = other.m_protectAccess]
          /\ access' = [after EXCEPT ![b] = IF protect THEN "NoAccess" ELSE "ReadWrite"]
          /\ asked' = [asked EXCEPT ![b] = protect]
    BY Zenon DEF Copy
  <1>4. /\ other.m_data \in Blocks \cup {None} /\ protect \in BOOLEAN /\ b # None
        /\ other.m_data # None => access[other.m_data] # "Freed" /\ other.m_data # array[o].m_data
    BY <1>1, <1>2, NoneAssumption DEF Types, Members, Owned
  <1>. DEFINE made  == [array EXCEPT ![o].alive = TRUE]
              given == [made EXCEPT ![o].m_data = b]
  <1>5. array' = [given EXCEPT ![o].m_protectAccess = other.m_protectAccess]
    BY <1>3, Zenon
  <1>. HIDE DEF protect
  <1>6. /\ made \in [Arrays -> Members] /\ made[o].alive
        /\ made[o].m_readers = array[o].m_readers /\ made[o].m_writers = array[o].m_writers
        /\ \A q \in Arrays : q # o => made[q] = array[q]
    BY <1>1 DEF Types, Members
  <1>. HIDE DEF made
  <1>7. /\ given \in [Arrays -> Members] /\ given[o].alive /\ given[o].m_data = b
        /\ given[o].m_readers = array[o].m_readers /\ given[o].m_writers = array[o].m_writers
        /\ \A q \in Arrays : q # o => given[q] = array[q]
    BY <1>6 DEF Members
  <1>. HIDE DEF given
  <1>8. /\ array' \in [Arrays -> Members] /\ array'[o].alive /\ array'[o].m_data = b
        /\ array'[o].m_protectAccess = protect
        /\ array'[o].m_readers = array[o].m_readers /\ array'[o].m_writers = array[o].m_writers
        /\ \A q \in Arrays : q # o => array'[q] = array[q]
    BY <1>4, <1>5, <1>7 DEF Members, protect
  <1>9. \A c \in Blocks : Release(o)[c] = IF c = array[o].m_data THEN "Freed" ELSE access[c]
    BY DEF Release
  <1>10. b # other.m_data
    BY <1>3, <1>4, <1>9
  <1>11. /\ access' \in [Blocks -> {"Freed", "NoAccess", "ReadOnly", "ReadWrite"}]
         /\ access'[b] = IF protect THEN "NoAccess" ELSE "ReadWrite"
         /\ other.m_data # None => access'[other.m_data] = IF protect /\ Idle(other) THEN "NoAccess"
                                                           ELSE access[other.m_data]
         /\ \A c \in Blocks : c # b /\ c # other.m_data =>
              access'[c] = IF c = array[o].m_data THEN "Freed" ELSE access[c]
    <2>1. Release(o) \in [Blocks -> {"Freed", "NoAccess", "ReadOnly", "ReadWrite"}]
      BY <1>1 DEF Release, Types
    <2>2. /\ after \in [Blocks -> {"Freed", "NoAccess", "ReadOnly", "ReadWrite"}]
          /\ \A c \in Blocks : after[c] = IF c = other.m_data /\ protect /\ Idle(other)
                                          THEN "NoAccess" ELSE Release(o)[c]
      BY <2>1 DEF protect
    <2>. HIDE DEF after
    <2>. QED  BY <1>3, <1>4, <1>9, <1>10, <2>2
  <1>12. /\ asked' \in [Blocks -> BOOLEAN] /\ asked'[b] = protect
         /\ \A c \in Blocks : c # b => asked'[c] = asked[c]
    BY <1>1, <1>3, <1>4 DEF Types
  <1>13. Types'
    BY <1>1, <1>2, <1>8, <1>11, <1>12 DEF Types
  <1>14. Counts' /\ Linked' /\ \A q \in Arrays, k \in Kinds : Open(q, k)' = Open(q, k)
    <2>1. array[o].m_readers = 0 /\ array[o].m_writers = 0
      BY <1>1, <1>2, NoHandles, Counted
    <2>. QED  BY <1>1, <1>2, <1>8, <2>1, ObjectStep
  <1>15. \A q \in Arrays : q # o => array[q].m_data # b
    <2>1. access[b] = "Freed" \/ b = array[o].m_data
      BY <1>3, <1>9
    <2>. QED  BY <1>1, <1>4, <2>1 DEF Owned
  <1>16. Owned'
    <2>1. \A q \in Arrays : /\ q = o => array'[q].m_data = b /\ array'[q].alive
                            /\ q # o => /\ array'[q].m_data = array[q].m_data /\ array[q].m_data # b
                                        /\ array'[q].alive = array[q].alive
      BY <1>8, <1>15
    <2>2. ASSUME NEW q \in Arrays, array'[q].m_data # None
          PROVE  array'[q].alive /\ access'[array'[q].m_data] # "Freed"
      <3>1. CASE q = o
        BY <1>11, <2>1, <3>1
      <3>2. CASE q # o
        <4>1. /\ array[q].m_data \in Blocks /\ array[q].m_data # array[o].m_data /\ array[q].alive
              /\ access[array[q].m_data] # "Freed" /\ array[q].m_data # None /\ array[q].m_data # b
          BY <1>1, <2>1, <2>2, <3>2 DEF Owned, Types, Members
        <4>2. CASE array[q].m_data = other.m_data
          BY <1>11, <2>1, <3>2, <4>1, <4>2
        <4>3. CASE array[q].m_data # other.m_data
          BY <1>11, <2>1, <3>2, <4>1, <4>3
        <4>. QED  BY <4>2, <4>3
      <3>. QED  BY <3>1, <3>2
    <2>3. \A q, r \in Arrays : array'[q].m_data = array'[r].m_data /\ array'[q].m_data # None => q = r
      BY <1>1, <2>1 DEF Owned
    <2>4. ASSUME NEW c \in Blocks, access'[c] # "Freed" PROVE \E q \in Arrays : array'[q].m_data = c
      <3>1. CASE c = b
        BY <2>1, <3>1
      <3>2. CASE c = other.m_data
        BY <1>2, <2>1, <3>2
      <3>3. CASE c # b /\ c # other.m_data
        <4>1. c # array[o].m_data /\ access[c] # "Freed"
          BY <1>11, <2>4, <3>3
        <4>2. PICK q \in Arrays : array[q].m_data = c
          BY <1>1, <4>1 DEF Owned
        <4>. QED  BY <2>1, <4>1, <4>2
      <3>. QED  BY <3>1, <3>2, <3>3
    <2>. QED  BY <2>2, <2>3, <2>4 DEF Owned
  <1>17. ASSUME NEW q \in Arrays PROVE PageRight(q)'
    <2>1. CASE q = o
      <3>1. Due(o)' = "NoAccess"
        BY <1>1, <1>2, <1>14, NoHandles, DueWillBe DEF Kinds
      <3>. QED  BY <1>8, <1>11, <1>12, <2>1, <3>1 DEF PageRight
    <2>2. CASE q = p
      <3>1. /\ array'[p] = other /\ PageRight(p) /\ Due(p)' = Due(p)
            /\ Open(p, "reader")' = Open(p, "reader") /\ Open(p, "writer")' = Open(p, "writer")
        BY <1>1, <1>2, <1>8, <1>14, DueIs, DueWillBe DEF PagesRight, Kinds
      <3>2. Idle(other) => Due(p) = "NoAccess"
        BY <1>1, Counted, DueIs DEF Idle
      <3>3. Idle(other) \in BOOLEAN /\ (other.m_data # None => asked'[other.m_data] = asked[other.m_data])
        BY <1>4, <1>10, <1>12 DEF Idle
      <3>. QED  BY <1>2, <1>11, <2>2, <3>1, <3>2, <3>3 DEF PageRight, protect
    <2>3. CASE q # o /\ q # p
      <3>1. array[q].m_data # None => /\ array[q].m_data \in Blocks /\ array[q].m_data # array[o].m_data
                                      /\ array[q].m_data # other.m_data /\ array[q].m_data # b
        BY <1>1, <1>15, <2>3 DEF Owned, Types, Members
      <3>. QED  BY <1>1, <1>8, <1>11, <1>12, <1>14, <2>3, <3>1, SamePage DEF PagesRight, Kinds
    <2>. QED  BY <2>1, <2>2, <2>3
  <1>. QED  BY <1>13, <1>14, <1>16, <1>17 DEF IInv, PagesRight
-----------------------------------------------------------------------------
LEMMA Inductive == ASSUME IInv, [Next]_vars PROVE IInv'
  <1>1. CASE UNCHANGED vars
    <2>1. array' = array /\ handle' = handle /\ access' = access /\ asked' = asked
      BY <1>1 DEF vars
    <2>2. Types' /\ Owned'
      BY <2>1 DEF IInv, Types, Owned
    <2>3. Counts' /\ Linked' /\ \A p \in Arrays, k \in Kinds : Open(p, k)' = Open(p, k)
      BY <2>1, ObjectStep DEF IInv
    <2>4. PagesRight'
      BY <2>1, <2>3, SamePage DEF IInv, PagesRight, Kinds
    <2>. QED  BY <2>2, <2>3, <2>4 DEF IInv
  <1>2. CASE Next
    BY <1>2, ConstructEmptyStep, ConstructStep, DestroyStep, MoveConstructStep, CopyStep,
       ReadStep, WriteStep, UnlockReaderStep, UnlockWriterStep DEF Next
  <1>. QED  BY <1>1, <1>2

LEMMA Invariant == Spec => []IInv
  BY InitIInv, Inductive, PTL DEF Spec

\* A protected block is open exactly as far as the open handles call for
\* (SecureByteArray.h:87-122, 217-235).
THEOREM PagesMatchHandles == Spec => []AccessMatchesHandles
  <1>1. IInv => AccessMatchesHandles
    BY DEF IInv, Types, Members, PagesRight, PageRight, AccessMatchesHandles
  <1>. QED  BY <1>1, Invariant, PTL

\* An open handle points to its array's block, and may use it (SecureByteArray.h:89, 105, 217-235).
THEOREM HandlesAreUsable == Spec => []HandlesUsable
  <1>1. ASSUME IInv, NEW h \in Handles
        PROVE  /\ handle[h].kind # "closed" => handle[h].data = array[handle[h].owner].m_data
               /\ handle[h].kind = "reader" => access[handle[h].data] \in {"ReadOnly", "ReadWrite"}
               /\ handle[h].kind = "writer" => access[handle[h].data] = "ReadWrite"
    <2>. DEFINE o == handle[h].owner
    <2>1. handle[h].kind # "closed" => o \in Arrays /\ array[o].m_data # None /\ handle[h].data = array[o].m_data
      BY <1>1 DEF IInv, Linked
    <2>2. handle[h].kind = "reader" => h \in Open(o, "reader")
      BY DEF Open
    <2>3. handle[h].kind = "writer" => h \in Open(o, "writer")
      BY DEF Open
    <2>4. handle[h].kind # "closed" => PageRight(o) /\ array[o].m_protectAccess \in BOOLEAN
      BY <1>1, <2>1 DEF IInv, PagesRight, Types, Members
    <2>5. handle[h].kind = "writer" => access[array[o].m_data] = "ReadWrite"
      BY <2>1, <2>3, <2>4, DueIs DEF PageRight
    <2>6. handle[h].kind = "reader" => access[array[o].m_data] \in {"ReadOnly", "ReadWrite"}
      BY <2>1, <2>2, <2>4, DueIs DEF PageRight
    <2>. QED  BY <2>1, <2>5, <2>6
  <1>2. IInv => HandlesUsable
    BY <1>1 DEF HandlesUsable
  <1>. QED  BY <1>2, Invariant, PTL

\* Every allocated block has one array that will free it, and a freed one has none
\* (SecureByteArray.h:47-68, 189-194).
THEOREM BlocksHaveOneOwner == Spec => []OneOwner
  <1>1. ASSUME IInv, NEW b \in Blocks
        PROVE  Cardinality({o \in Arrays : array[o].m_data = b}) = IF access[b] = "Freed" THEN 0 ELSE 1
    <2>1. Owned /\ b # None
      BY <1>1, NoneAssumption DEF IInv
    <2>2. CASE access[b] = "Freed"
      <3>1. {o \in Arrays : array[o].m_data = b} = {}
        BY <2>1, <2>2 DEF Owned
      <3>. QED  BY <2>2, <3>1, FS_EmptySet
    <2>3. CASE access[b] # "Freed"
      <3>1. PICK o \in Arrays : array[o].m_data = b
        BY <2>1, <2>3 DEF Owned
      <3>2. {p \in Arrays : array[p].m_data = b} = {o}
        BY <2>1, <3>1 DEF Owned
      <3>. QED  BY <2>3, <3>2, FS_Singleton
    <2>. QED  BY <2>2, <2>3
  <1>2. IInv => OneOwner
    BY <1>1 DEF OneOwner
  <1>. QED  BY <1>2, Invariant, PTL
=============================================================================
