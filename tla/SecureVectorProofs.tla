------------------------- MODULE SecureVectorProofs -------------------------
(***************************************************************************)
(* What the run of MCSecureVector checks up to a capacity of four, for     *)
(* storages of every capacity and every set of elements: that nothing is   *)
(* given back unerased, that pins are kept, and that each call does to the *)
(* elements what SequenceContract says.                                    *)
(***************************************************************************)
EXTENDS SecureVector, TLAPS

Storages == [cells : Seq(Values), size : Nat, locked : BOOLEAN]

\* A vector is never longer than its storage.
Inv == data \in Storages /\ data.size <= Capacity

\* The first n values of a sequence, in cells that are otherwise 0.
LEMMA StorageType ==
  ASSUME NEW s \in Seq(Values), NEW capacity \in Nat, Len(s) <= capacity
  PROVE  /\ Storage(s, capacity) \in Storages
         /\ Len(Storage(s, capacity).cells) = capacity
         /\ Storage(s, capacity).size = Len(s)
         /\ Storage(s, capacity).locked = FALSE
  <1>. DEFINE cells == [i \in 1 .. capacity |-> IF i <= Len(s) THEN s[i] ELSE 0]
  <1>1. \A i \in 1 .. capacity : cells[i] \in Values
    BY ValuesAssumption
  <1>2. cells \in Seq(Values) /\ Len(cells) = capacity
    BY <1>1
  <1>. QED  BY <1>2 DEF Storage, Storages

LEMMA LiveType ==
  ASSUME NEW v \in Storages, v.size <= Len(v.cells)
  PROVE  Live(v) \in Seq(Values) /\ Len(Live(v)) = v.size
  BY DEF Live, Storages

\* Erasing keeps the storage, leaves nothing in it and unpins it.
LEMMA UnlockMemType ==
  ASSUME NEW v \in Storages
  PROVE  /\ UnlockMem(v) \in Storages
         /\ Len(UnlockMem(v).cells) = Len(v.cells)
         /\ UnlockMem(v).size = v.size
         /\ ~ UnlockMem(v).locked
         /\ ~ HoldsData(UnlockMem(v))
  <1>. DEFINE wiped == [i \in DOMAIN v.cells |-> 0]
  <1>1. wiped \in Seq(Values) /\ Len(wiped) = Len(v.cells)
    BY ValuesAssumption DEF Storages
  <1>2. /\ UnlockMem(v) \in Storages /\ UnlockMem(v).cells = wiped
        /\ UnlockMem(v).size = v.size /\ UnlockMem(v).locked = FALSE
    BY <1>1 DEF UnlockMem, Storages
  <1>3. ~ HoldsData(UnlockMem(v))
    BY <1>2 DEF HoldsData
  <1>. QED  BY <1>1, <1>2, <1>3 DEF Storages

LEMMA UnlockType ==
  ASSUME NEW v \in Storages
  PROVE  /\ Unlock(v) \in Storages
         /\ Len(Unlock(v).cells) = Len(v.cells)
         /\ Unlock(v).size = v.size
         /\ v.size # 0 => ~ Unlock(v).locked /\ ~ HoldsData(Unlock(v))
  BY UnlockMemType DEF Unlock

LEMMA LockType ==
  ASSUME NEW v \in Storages
  PROVE  /\ Lock(v) \in Storages
         /\ Lock(v).cells = v.cells /\ Lock(v).size = v.size
         /\ v.size # 0 => Lock(v).locked
  BY DEF Lock, Storages

LEMMA VectorsAreSequences == \A other \in Vectors : other \in Seq(Values)
  BY DEF Vectors

LEMMA InitInv == Init => Inv
  BY DEF Init, Inv, Default, Storages, Capacity
-----------------------------------------------------------------------------
(* What each call leaves in the vector and gives back. *)

\* What is given back after Unlock is erased and unpinned, unless Unlock took it for unused.
Erased   == \A v \in freed' : (HoldsData(v) \/ v.locked) => data.size = 0
\* The vector is pinned, unless it was not and kept its storage, or is the first element of a new one.
Pinned   == data'.size > 0 /\ ~ data'.locked =>
              \/ data.size > 0 /\ ~ data.locked /\ Len(data'.cells) = Capacity
              \/ Capacity = 0 /\ data'.size = 1

LEMMA NothingFreed == freed' = {} => Erased
  BY DEF Erased

LEMMA UnlockFreed ==
  ASSUME Inv, freed' = Free(Unlock(data)) PROVE Erased
  BY UnlockType DEF Erased, Free, Inv

LEMMA ResizeInPlaceStep ==
  ASSUME Inv, NEW n \in 0 .. MaxCap, ResizeInPlace(n)
  PROVE  Inv' /\ Erased /\ (data.size > 0 => Pinned) /\ data'.size = n
  <1>. DEFINE cells == [i \in DOMAIN data.cells |-> IF data.size < i /\ i <= n THEN 0 ELSE data.cells[i]]
  <1>1. data.cells \in Seq(Values) /\ data.size \in Nat /\ data.locked \in BOOLEAN /\ n <= Len(data.cells)
    BY DEF Inv, Storages, ResizeInPlace, Capacity
  <1>2. cells \in Seq(Values) /\ Len(cells) = Len(data.cells)
    <2>1. DOMAIN data.cells = 1 .. Len(data.cells) /\ Len(data.cells) \in Nat
      BY <1>1
    <2>2. \A i \in 1 .. Len(data.cells) : data.cells[i] \in Values
      BY <1>1
    <2>3. cells \in [1 .. Len(data.cells) -> Values]
      BY <2>1, <2>2, ValuesAssumption
    <2>. QED  BY <2>1, <2>3
  <1>3. data' = [cells |-> cells, size |-> n, locked |-> data.locked]
    BY DEF Inv, Storages, ResizeInPlace
  <1>4. Inv'
    BY <1>1, <1>2, <1>3, MaxCapAssumption DEF Inv, Storages, Capacity
  <1>5. Erased
    BY NothingFreed DEF ResizeInPlace
  <1>6. data.size > 0 => Pinned
    BY <1>1, <1>2, <1>3 DEF Pinned, Capacity
  <1>. QED  BY <1>3, <1>4, <1>5, <1>6

LEMMA CloneType ==
  ASSUME Inv, NEW n \in Nat, n >= data.size
  PROVE  /\ Clone(n) \in Storages /\ Len(Clone(n).cells) = n /\ Clone(n).size = data.size
         /\ Clone(n) = Storage(Contents, n)
  BY LiveType, StorageType DEF Inv, Clone, Contents, Capacity

LEMMA ResizeBeyondStep ==
  ASSUME Inv, NEW n \in 0 .. MaxCap, ResizeBeyond(n)
  PROVE  Inv' /\ Erased /\ Pinned
  <1>1. n \in Nat /\ n > Len(data.cells) /\ n >= data.size /\ n # 0
    BY MaxCapAssumption DEF Inv, Storages, ResizeBeyond, Capacity
  <1>. DEFINE clone == [Clone(n) EXCEPT !.size = n]
  <1>2. clone \in Storages /\ Len(clone.cells) = n /\ clone.size = n
    BY <1>1, CloneType DEF Storages
  <1>3. data' = Lock(clone) /\ freed' = Free(Unlock(data))
    BY DEF ResizeBeyond
  <1>4. data' \in Storages /\ Len(data'.cells) = n /\ data'.size = n /\ data'.locked
    BY <1>1, <1>2, <1>3, LockType
  <1>5. Erased
    BY <1>3, UnlockFreed
  <1>. QED  BY <1>1, <1>4, <1>5 DEF Inv, Pinned, Capacity

LEMMA ReserveStep == ASSUME Inv, NEW n \in 0 .. MaxCap, Reserve(n) PROVE Inv' /\ n # 0
  <1>1. n \in Nat /\ n > Len(data.cells) /\ n >= data.size /\ n # 0
    BY MaxCapAssumption DEF Inv, Storages, Reserve, Capacity
  <1>2. data' = Clone(n)
    BY DEF Reserve, Clone
  <1>. QED  BY <1>1, <1>2, CloneType DEF Inv, Capacity

LEMMA Append1Type ==
  ASSUME NEW v \in Storages, v.size < Len(v.cells), NEW t \in Values
  PROVE  /\ Append1(v, t) \in Storages /\ Len(Append1(v, t).cells) = Len(v.cells)
         /\ Append1(v, t).size = v.size + 1 /\ Append1(v, t).locked = v.locked
  <1>1. v.cells \in Seq(Values) /\ v.size \in Nat
    BY DEF Storages
  <1>. DEFINE cells == [v.cells EXCEPT ![v.size + 1] = t]
  <1>2. cells \in Seq(Values) /\ Len(cells) = Len(v.cells)
    BY <1>1
  <1>. HIDE DEF cells
  <1>. DEFINE filled == [v EXCEPT !.cells = cells]
              longer == [filled EXCEPT !.size = v.size + 1]
  <1>3. filled \in Storages /\ filled.cells = cells /\ filled.locked = v.locked
    BY <1>2 DEF Storages
  <1>4. longer \in Storages /\ longer.cells = cells /\ longer.size = v.size + 1 /\ longer.locked = v.locked
    <2>1. v.size + 1 \in Nat
      BY <1>1
    <2>. HIDE DEF filled
    <2>. QED  BY <1>3, <2>1 DEF Storages
  <1>5. Append1(v, t) = longer
    BY Zenon DEF Append1, cells
  <1>. HIDE DEF longer
  <1>. QED  BY <1>2, <1>4, <1>5

LEMMA PushInPlaceStep ==
  ASSUME Inv, NEW t \in Values, PushInPlace(t) PROVE Inv' /\ Erased /\ Pinned
  <1>1. data \in Storages /\ data.size < Len(data.cells) /\ data.size \in Nat
    BY DEF Inv, Storages, PushInPlace, HasRoom, Capacity
  <1>. DEFINE longer == Append1(data, t)
  <1>2. longer \in Storages /\ Len(longer.cells) = Len(data.cells) /\ longer.size = data.size + 1
        /\ longer.locked = data.locked
    BY <1>1, Append1Type
  <1>. HIDE DEF longer
  <1>3. data' = [longer EXCEPT !.locked = longer.locked \/ data.size = 0]
    BY DEF PushInPlace, longer
  <1>4. data' \in Storages /\ data'.cells = longer.cells /\ data'.size = longer.size
        /\ data'.locked = (longer.locked \/ data.size = 0)
    BY <1>2, <1>3 DEF Storages
  <1>5. Inv'
    BY <1>1, <1>2, <1>4 DEF Inv, Capacity
  <1>6. Pinned
    <2>1. CASE data.size = 0
      BY <1>4, <2>1 DEF Pinned
    <2>2. CASE data.size # 0
      <3>1. data'.locked = data.locked /\ data.locked \in BOOLEAN
        BY <1>1, <1>2, <1>4, <2>2 DEF Storages
      <3>2. Len(data'.cells) = Capacity /\ data.size > 0
        BY <1>1, <1>2, <1>4, <2>2 DEF Capacity
      <3>. QED  BY <3>1, <3>2 DEF Pinned
    <2>. QED  BY <2>1, <2>2
  <1>7. Erased
    BY NothingFreed DEF PushInPlace
  <1>. QED  BY <1>5, <1>6, <1>7

LEMMA PushFirstStep ==
  ASSUME Inv, NEW t \in Values, PushFirst(t) PROVE Inv' /\ Erased /\ Pinned
  <1>1. Capacity = 0 /\ data' = Storage(<<t>>, 1) /\ freed' = {}
    BY DEF PushFirst
  <1>2. <<t>> \in Seq(Values) /\ Len(<<t>>) = 1 /\ Len(<<t>>) <= 1 /\ 1 \in Nat
    OBVIOUS
  <1>3. data' \in Storages /\ Len(data'.cells) = 1 /\ data'.size = 1
    BY <1>1, <1>2, StorageType, Zenon
  <1>. QED  BY <1>1, <1>3, NothingFreed DEF Inv, Pinned, Capacity

LEMMA PushBeyondStep ==
  ASSUME Inv, NEW t \in Values, PushBeyond(t) PROVE Inv' /\ Erased /\ Pinned
  <1>1. data \in Storages /\ data.size \in Nat /\ data.size # 0 /\ 2 * data.size > data.size
    BY DEF Inv, Storages, PushBeyond, HasRoom, Capacity
  <1>. DEFINE clone == Clone(2 * data.size)
  <1>2. clone \in Storages /\ Len(clone.cells) = 2 * data.size /\ clone.size = data.size
    BY <1>1, CloneType
  <1>. HIDE DEF clone
  <1>3. Lock(clone) \in Storages /\ Len(Lock(clone).cells) = 2 * data.size /\ Lock(clone).size = data.size
        /\ Lock(clone).locked
    BY <1>1, <1>2, LockType
  <1>4. data' = Append1(Lock(clone), t) /\ freed' = Free(Unlock(data))
    BY DEF PushBeyond, clone
  <1>5. data' \in Storages /\ Len(data'.cells) = 2 * data.size /\ data'.size = data.size + 1 /\ data'.locked
    BY <1>1, <1>3, <1>4, Append1Type
  <1>6. Inv' /\ Pinned
    BY <1>1, <1>5 DEF Inv, Pinned, Capacity
  <1>7. Erased
    BY <1>4, UnlockFreed
  <1>. QED  BY <1>6, <1>7

LEMMA PushOwnStep ==
  ASSUME Inv, NEW i \in 1 .. MaxCap, PushOwn(i) PROVE Inv' /\ Erased /\ Pinned
  <1>1. data.cells[i] \in Values
    BY DEF Inv, Storages, PushOwn, Capacity
  <1>2. PushInPlace(data.cells[i]) \/ PushBeyond(0)
    BY DEF PushOwn
  <1>. QED  BY <1>1, <1>2, PushInPlaceStep, PushBeyondStep, ValuesAssumption

LEMMA PopBackStep == ASSUME Inv, PopBack PROVE Inv' /\ Erased /\ Pinned
  <1>1. data \in Storages /\ data.size \in Nat /\ data.size > 0 /\ data.size <= Len(data.cells)
    BY DEF Inv, Storages, PopBack, Capacity
  <1>2. CASE data.size = 1
    <2>1. data' = [UnlockMem(data) EXCEPT !.size = 0]
      BY <1>2 DEF PopBack
    <2>2. data' \in Storages /\ data'.size = 0
      BY <1>1, <2>1, UnlockMemType DEF Storages
    <2>. QED  BY <2>2, NothingFreed DEF Inv, Storages, Pinned, Capacity, PopBack
  <1>3. CASE data.size # 1
    <2>1. data' = [data EXCEPT !.size = data.size - 1]
      BY <1>3 DEF PopBack
    <2>2. data' \in Storages /\ data'.size = data.size - 1 /\ data'.cells = data.cells /\ data'.locked = data.locked
      BY <1>1, <2>1 DEF Storages
    <2>. QED  BY <1>1, <2>2, NothingFreed DEF Inv, Pinned, Capacity, PopBack
  <1>. QED  BY <1>2, <1>3

LEMMA AssignStep ==
  ASSUME Inv, NEW other \in Vectors, Assign(other) PROVE Inv' /\ Erased /\ Pinned
  <1>1. other \in Seq(Values) /\ data \in Storages
    BY VectorsAreSequences DEF Inv
  <1>. DEFINE old == Unlock(data)
  <1>2. old \in Storages /\ Len(old.cells) = Capacity
    BY <1>1, UnlockType DEF Capacity
  <1>3. CASE Len(other) <= Capacity
    <2>. DEFINE cells == [i \in DOMAIN old.cells |-> IF i <= Len(other) THEN other[i] ELSE old.cells[i]]
                new   == [old EXCEPT !.size = Len(other),
                                     !.cells = [i \in DOMAIN @ |->
                                                  IF i <= Len(other) THEN other[i] ELSE @[i]]]
    <2>1. cells \in Seq(Values) /\ Len(cells) = Capacity
      <3>1. old.cells \in Seq(Values)
        BY <1>2 DEF Storages
      <3>2. \A i \in 1 .. Len(old.cells) : cells[i] \in Values
        BY <1>1, <3>1
      <3>. QED  BY <1>2, <3>1, <3>2
    <2>2. new \in Storages /\ new.cells = cells /\ new.size = Len(other)
      <3>1. new = [[old EXCEPT !.size = Len(other)] EXCEPT !.cells = cells]
        BY Zenon
      <3>2. Len(other) \in Nat
        BY <1>1
      <3>. HIDE DEF cells, new, old
      <3>. QED  BY <1>2, <2>1, <3>1, <3>2 DEF Storages
    <2>3. data' = Lock(new) /\ freed' = {}
      BY <1>3 DEF Assign
    <2>. HIDE DEF cells, new
    <2>4. data' \in Storages /\ Len(data'.cells) = Capacity /\ data'.size = Len(other) /\ (Len(other) # 0 => data'.locked)
      BY <2>1, <2>2, <2>3, LockType
    <2>5. Inv' /\ Pinned
      BY <1>1, <1>3, <2>4 DEF Inv, Pinned, Capacity
    <2>. QED  BY <2>3, <2>5, NothingFreed
  <1>4. CASE ~ (Len(other) <= Capacity)
    <2>1. data' = Lock(Storage(other, Len(other))) /\ freed' = Free(Unlock(data))
      BY <1>4 DEF Assign
    <2>2. Len(other) \in Nat /\ Len(other) <= Len(other)
      BY <1>1
    <2>3. /\ Storage(other, Len(other)) \in Storages
          /\ Len(Storage(other, Len(other)).cells) = Len(other)
          /\ Storage(other, Len(other)).size = Len(other)
      BY <1>1, <2>2, StorageType, Zenon
    <2>4. data' \in Storages /\ Len(data'.cells) = Len(other) /\ data'.size = Len(other) /\ (Len(other) # 0 => data'.locked)
      BY <2>1, <2>3, LockType
    <2>5. Inv' /\ Pinned
      BY <2>2, <2>4 DEF Inv, Pinned, Capacity
    <2>. QED  BY <2>1, <2>5, UnlockFreed
  <1>. QED  BY <1>3, <1>4

LEMMA SelfAssignStep == ASSUME Inv, SelfAssign PROVE Inv' /\ Erased /\ Pinned
  <1>1. Unlock(data) \in Storages /\ Len(Unlock(data).cells) = Len(data.cells) /\ Unlock(data).size = data.size
    BY UnlockType DEF Inv
  <1>2. data' = Lock(Unlock(data)) /\ freed' = {}
    BY DEF SelfAssign
  <1>3. data' \in Storages /\ Len(data'.cells) = Len(data.cells) /\ data'.size = data.size /\ (data.size # 0 => data'.locked)
    BY <1>1, <1>2, LockType
  <1>. QED  BY <1>2, <1>3, NothingFreed DEF Inv, Storages, Pinned, Capacity

LEMMA ClearStep == ASSUME Inv, Clear PROVE Inv' /\ Erased /\ Pinned
  <1>1. Unlock(data) \in Storages /\ data' = [Unlock(data) EXCEPT !.size = 0] /\ freed' = {}
    BY UnlockType DEF Inv, Clear
  <1>2. data' \in Storages /\ data'.size = 0
    BY <1>1 DEF Storages
  <1>. QED  BY <1>1, <1>2, NothingFreed DEF Inv, Storages, Pinned, Capacity

LEMMA DestroyStep == ASSUME Inv, Destroy PROVE Inv' /\ Erased /\ Pinned
  <1>1. data' = Default /\ freed' = Free(Unlock(data))
    BY DEF Destroy
  <1>. QED  BY <1>1, UnlockFreed DEF Inv, Storages, Default, Pinned, Capacity
-----------------------------------------------------------------------------
\* Every step keeps the invariant, and but for the calls named erases and pins.
LEMMA Step ==
  ASSUME Inv, [Next]_vars
  PROVE  /\ Inv'
         /\ vars' = vars \/ Erased \/ \E n \in 1 .. MaxCap : Reserve(n)
         /\ \/ vars' = vars \/ Pinned
            \/ \E n \in 1 .. MaxCap : Reserve(n)
            \/ data.size = 0 /\ \E n \in 1 .. MaxCap : ResizeInPlace(n)
  <1>1. CASE UNCHANGED vars
    BY <1>1 DEF Inv, vars, Capacity
  <1>2. ASSUME NEW n \in 0 .. MaxCap, ResizeInPlace(n)
        PROVE  Inv' /\ Erased /\ (Pinned \/ (data.size = 0 /\ n \in 1 .. MaxCap))
    <2>1. Inv' /\ Erased /\ (data.size > 0 => Pinned) /\ data'.size = n
      BY <1>2, ResizeInPlaceStep
    <2>2. n = 0 => Pinned
      BY <2>1 DEF Pinned
    <2>. QED  BY <2>1, <2>2 DEF Inv, Storages
  <1>3. ASSUME NEW n \in 0 .. MaxCap, Reserve(n)
        PROVE  Inv' /\ n \in 1 .. MaxCap
    BY <1>3, ReserveStep
  <1>4. CASE \E n \in 0 .. MaxCap : Resize(n) \/ Reserve(n)
    BY <1>2, <1>3, <1>4, ResizeBeyondStep DEF Resize
  <1>5. CASE \E t \in Values : PushBack(t)
    BY <1>5, PushInPlaceStep, PushFirstStep, PushBeyondStep DEF PushBack
  <1>6. CASE \E i \in 1 .. MaxCap : PushOwn(i)
    BY <1>6, PushOwnStep
  <1>7. CASE \E other \in Vectors : Assign(other)
    BY <1>7, AssignStep
  <1>8. CASE PopBack \/ SelfAssign \/ Clear \/ Destroy
    BY <1>8, PopBackStep, SelfAssignStep, ClearStep, DestroyStep
  <1>. QED  BY <1>1, <1>4, <1>5, <1>6, <1>7, <1>8 DEF Next

LEMMA Invariant == Spec => []Inv
  <1>1. Inv /\ [Next]_vars => Inv'
    BY Step
  <1>. QED  BY <1>1, InitInv, PTL DEF Spec

\* A storage is given back erased and unpinned, except by reserve and when resize(0) has emptied the
\* vector (SecureVector.h:24-27, 57-111).
THEOREM NothingIsLost == Spec => ErasedUnlessKnown
  <1>1. ASSUME Inv, [Next]_vars
        PROVE  [(\E v \in freed' : HoldsData(v) \/ v.locked) =>
                 data.size = 0 \/ \E n \in 1 .. MaxCap : Reserve(n)]_vars
    BY <1>1, Step DEF Erased
  <1>. QED  BY <1>1, Invariant, PTL DEF Spec, ErasedUnlessKnown

\* A vector with elements is pinned, but for the calls PinnedUnlessKnown names (SecureVector.h:57-101).
THEOREM PinsAreKept == Spec => PinnedUnlessKnown
  <1>1. ASSUME Inv, [Next]_vars
        PROVE  [data'.size > 0 /\ ~data'.locked =>
                 \/ data.size > 0 /\ ~data.locked /\ Len(data'.cells) = Capacity
                 \/ Capacity = 0 /\ data'.size = 1
                 \/ data.size = 0 /\ \E n \in 1 .. MaxCap : ResizeInPlace(n)
                 \/ \E n \in 1 .. MaxCap : Reserve(n)]_vars
    BY <1>1, Step DEF Pinned
  <1>. QED  BY <1>1, Invariant, PTL DEF Spec, PinnedUnlessKnown
-----------------------------------------------------------------------------
(* What each call does to the elements. *)

\* A storage holds a sequence that has its size and its live cells.
LEMMA LiveIs ==
  ASSUME NEW v \in Storages, v.size <= Len(v.cells), NEW s \in Seq(Values), Len(s) = v.size,
         \A i \in 1 .. v.size : v.cells[i] = s[i]
  PROVE  Live(v) = s
  <1>1. /\ Live(v) \in Seq(Values) /\ Len(Live(v)) = v.size
        /\ \A i \in 1 .. v.size : Live(v)[i] = v.cells[i]
    BY DEF Live, Storages
  <1>. QED  BY <1>1

LEMMA LiveCells ==
  ASSUME NEW v \in Storages, v.size <= Len(v.cells)
  PROVE  /\ Live(v) \in Seq(Values) /\ Len(Live(v)) = v.size
         /\ \A i \in 1 .. v.size : Live(v)[i] = v.cells[i]
  BY DEF Live, Storages

\* Cut or extended with zeros.
LEMMA ResizedType ==
  ASSUME NEW s \in Seq(Values), NEW n \in Nat
  PROVE  /\ Contract!Resized(s, n) \in Seq(Values) /\ Len(Contract!Resized(s, n)) = n
         /\ \A i \in 1 .. n : Contract!Resized(s, n)[i] = IF i <= Len(s) THEN s[i] ELSE 0
  <1>. DEFINE resized == [i \in 1 .. n |-> IF i <= Len(s) THEN s[i] ELSE 0]
  <1>1. \A i \in 1 .. n : resized[i] \in Values
    BY ValuesAssumption
  <1>2. resized \in Seq(Values) /\ Len(resized) = n
    BY <1>1
  <1>. QED  BY <1>2 DEF Contract!Resized

LEMMA ResizeInPlaceContents ==
  ASSUME Inv, NEW n \in 0 .. MaxCap, ResizeInPlace(n) PROVE Contract!Resize(n)
  <1>1. Inv' /\ data'.size = n /\ n \in Nat
    BY ResizeInPlaceStep, MaxCapAssumption
  <1>2. data \in Storages /\ data.size <= Len(data.cells) /\ n <= Len(data.cells)
    BY DEF Inv, Capacity, ResizeInPlace
  <1>3. \A i \in 1 .. n : data'.cells[i] = IF data.size < i THEN 0 ELSE data.cells[i]
    BY <1>1, <1>2 DEF Storages, ResizeInPlace
  <1>4. /\ Contents \in Seq(Values) /\ Len(Contents) = data.size
        /\ \A i \in 1 .. data.size : Contents[i] = data.cells[i]
    BY <1>2, LiveCells DEF Contents
  <1>. DEFINE resized == Contract!Resized(Contents, n)
  <1>5. /\ resized \in Seq(Values) /\ Len(resized) = n
        /\ \A i \in 1 .. n : resized[i] = IF i <= Len(Contents) THEN Contents[i] ELSE 0
    BY <1>1, <1>4, ResizedType
  <1>. HIDE DEF resized
  <1>6. \A i \in 1 .. n : data'.cells[i] = resized[i]
    <2>. SUFFICES ASSUME NEW i \in 1 .. n PROVE data'.cells[i] = resized[i]
      OBVIOUS
    <2>1. data.size \in Nat /\ i \in Nat /\ i >= 1
      BY <1>1, <1>2 DEF Storages
    <2>. QED  BY <1>3, <1>4, <1>5, <2>1
  <1>7. data' \in Storages /\ data'.size <= Len(data'.cells)
    BY <1>1 DEF Inv, Capacity
  <1>8. Live(data') = resized
    BY <1>1, <1>5, <1>6, <1>7, LiveIs
  <1>. QED  BY <1>8 DEF Contract!Resize, Contents, resized

\* The clone begins with the elements, and zeros follow.
LEMMA CloneCells ==
  ASSUME Inv, NEW n \in Nat, n >= data.size
  PROVE  /\ Contents \in Seq(Values) /\ Len(Contents) = data.size
         /\ \A i \in 1 .. n : Clone(n).cells[i] = IF i <= Len(Contents) THEN Contents[i] ELSE 0
  <1>1. Contents \in Seq(Values) /\ Len(Contents) = data.size
    BY LiveCells DEF Inv, Contents, Capacity
  <1>. QED  BY <1>1 DEF Clone, Storage

LEMMA ResizeBeyondContents ==
  ASSUME Inv, NEW n \in 0 .. MaxCap, ResizeBeyond(n) PROVE Contract!Resize(n)
  <1>1. n \in Nat /\ n >= data.size
    BY MaxCapAssumption DEF Inv, Storages, ResizeBeyond, Capacity
  <1>. DEFINE clone == [Clone(n) EXCEPT !.size = n]
  <1>2. /\ clone \in Storages /\ clone.cells = Clone(n).cells /\ clone.size = n
        /\ Len(Clone(n).cells) = n
    BY <1>1, CloneType DEF Storages
  <1>3. data' = Lock(clone)
    BY DEF ResizeBeyond
  <1>. HIDE DEF clone
  <1>4. data' \in Storages /\ data'.cells = Clone(n).cells /\ data'.size = n
    BY <1>2, <1>3, LockType
  <1>. DEFINE resized == Contract!Resized(Contents, n)
  <1>5. /\ resized \in Seq(Values) /\ Len(resized) = n
        /\ \A i \in 1 .. n : resized[i] = Clone(n).cells[i]
    BY <1>1, CloneCells, ResizedType
  <1>. HIDE DEF resized
  <1>6. Live(data') = resized
    BY <1>1, <1>2, <1>4, <1>5, LiveIs
  <1>. QED  BY <1>6 DEF Contract!Resize, Contents, resized

LEMMA ReserveContents ==
  ASSUME Inv, NEW n \in 0 .. MaxCap, Reserve(n) PROVE Contents' = Contents
  <1>1. n \in Nat /\ n >= data.size
    BY MaxCapAssumption DEF Inv, Storages, Reserve, Capacity
  <1>2. data' = Clone(n)
    BY DEF Reserve, Clone
  <1>3. /\ data' \in Storages /\ Len(data'.cells) = n /\ data'.size = data.size
        /\ Contents \in Seq(Values) /\ Len(Contents) = data.size /\ data.size \in Nat
        /\ \A i \in 1 .. n : data'.cells[i] = IF i <= Len(Contents) THEN Contents[i] ELSE 0
    BY <1>1, <1>2, CloneType, CloneCells DEF Inv, Storages
  <1>4. Live(data') = Contents
    BY <1>1, <1>3, LiveIs
  <1>. QED  BY <1>4 DEF Contents

\* One more element, in a storage that has room for it.
LEMMA Append1Contents ==
  ASSUME NEW v \in Storages, v.size < Len(v.cells), NEW t \in Values,
         NEW s \in Seq(Values), Live(v) = s,
         NEW w \in Storages, w.cells = Append1(v, t).cells, w.size = Append1(v, t).size
  PROVE  Live(w) = Append(s, t)
  <1>1. /\ v.cells \in Seq(Values) /\ v.size \in Nat /\ Len(s) = v.size
        /\ \A i \in 1 .. v.size : s[i] = v.cells[i]
    BY LiveCells DEF Storages
  <1>. DEFINE cells == [v.cells EXCEPT ![v.size + 1] = t]
              filled == [v EXCEPT !.cells = cells]
              longer == [filled EXCEPT !.size = v.size + 1]
  <1>2. w.cells = cells /\ w.size = v.size + 1
    <2>1. Append1(v, t) = longer
      BY Zenon DEF Append1
    <2>. HIDE DEF cells
    <2>2. filled.cells = cells /\ DOMAIN filled = DOMAIN v
      BY DEF Storages
    <2>3. longer.cells = cells /\ longer.size = v.size + 1
      BY <2>2 DEF Storages
    <2>. HIDE DEF longer
    <2>. QED  BY <2>1, <2>3
  <1>3. /\ Len(cells) = Len(v.cells) /\ cells[v.size + 1] = t
        /\ \A i \in 1 .. v.size : cells[i] = v.cells[i]
    BY <1>1
  <1>. HIDE DEF cells
  <1>. DEFINE more == Append(s, t)
  <1>4. /\ more \in Seq(Values) /\ Len(more) = v.size + 1 /\ more[v.size + 1] = t
        /\ \A i \in 1 .. v.size : more[i] = s[i]
    BY <1>1
  <1>. HIDE DEF more
  <1>5. \A i \in 1 .. w.size : i \in 1 .. v.size \/ i = v.size + 1
    BY <1>1, <1>2
  <1>6. \A i \in 1 .. w.size : w.cells[i] = more[i]
    BY <1>1, <1>2, <1>3, <1>4, <1>5
  <1>7. w.size <= Len(w.cells)
    BY <1>1, <1>2, <1>3
  <1>8. Live(w) = more
    BY <1>2, <1>4, <1>6, <1>7, LiveIs
  <1>. QED  BY <1>8 DEF more

LEMMA PushInPlaceContents ==
  ASSUME Inv, NEW t \in Values, PushInPlace(t) PROVE Contract!PushBack(t)
  <1>1. data \in Storages /\ data.size < Len(data.cells) /\ Contents \in Seq(Values)
    BY LiveCells DEF Inv, Storages, PushInPlace, HasRoom, Capacity, Contents
  <1>2. data' \in Storages
    BY PushInPlaceStep DEF Inv
  <1>3. Append1(data, t) \in Storages
    BY <1>1, Append1Type
  <1>4. data'.cells = Append1(data, t).cells /\ data'.size = Append1(data, t).size
    BY <1>3 DEF PushInPlace, Storages
  <1>5. Live(data') = Append(Contents, t)
    BY <1>1, <1>2, <1>4, Append1Contents DEF Contents
  <1>. QED  BY <1>5 DEF Contract!PushBack, Contents

LEMMA EmptyContents == ASSUME Inv, data.size = 0 PROVE Contents = <<>>
  BY LiveCells DEF Inv, Contents, Capacity

LEMMA PushFirstContents ==
  ASSUME Inv, NEW t \in Values, PushFirst(t) PROVE Contract!PushBack(t)
  <1>1. Capacity = 0 /\ data' = Storage(<<t>>, 1)
    BY DEF PushFirst
  <1>2. Contents = <<>>
    BY <1>1, EmptyContents DEF Inv, Storages
  <1>. DEFINE one == <<t>>
  <1>3. /\ one \in Seq(Values) /\ Len(one) = 1 /\ one[1] = t /\ Append(<<>>, t) = one
        /\ 1 \in Nat /\ Len(one) <= 1
    OBVIOUS
  <1>4. data' = Storage(one, 1)
    BY <1>1
  <1>. HIDE DEF one
  <1>5. /\ data' \in Storages /\ Len(data'.cells) = 1 /\ data'.size = Len(one)
    BY <1>3, <1>4, StorageType, Zenon
  <1>6. \A i \in 1 .. 1 : data'.cells[i] = one[i]
    BY <1>3, <1>4 DEF Storage
  <1>7. data'.size <= Len(data'.cells) /\ \A i \in 1 .. data'.size : data'.cells[i] = one[i]
    BY <1>3, <1>5, <1>6
  <1>8. Live(data') = one
    BY <1>3, <1>5, <1>7, LiveIs, Zenon
  <1>. QED  BY <1>2, <1>3, <1>8 DEF Contract!PushBack, Contents

LEMMA PushBeyondContents ==
  ASSUME Inv, NEW t \in Values, PushBeyond(t) PROVE Contract!PushBack(t)
  <1>1. data \in Storages /\ data.size \in Nat /\ data.size # 0 /\ 2 * data.size > data.size
        /\ 2 * data.size \in Nat
    BY DEF Inv, Storages, PushBeyond, HasRoom, Capacity
  <1>. DEFINE clone == Clone(2 * data.size)
  <1>2. /\ clone \in Storages /\ Len(clone.cells) = 2 * data.size /\ clone.size = data.size
        /\ Contents \in Seq(Values) /\ Len(Contents) = data.size
        /\ \A i \in 1 .. 2 * data.size : clone.cells[i] = IF i <= Len(Contents) THEN Contents[i] ELSE 0
    BY <1>1, CloneType, CloneCells
  <1>. HIDE DEF clone
  <1>3. /\ Lock(clone) \in Storages /\ Lock(clone).cells = clone.cells /\ Lock(clone).size = data.size
    BY <1>2, LockType
  <1>4. Live(Lock(clone)) = Contents
    <2>1. \A i \in 1 .. data.size : i \in 1 .. 2 * data.size /\ i <= Len(Contents)
      BY <1>1, <1>2
    <2>2. /\ Lock(clone).size <= Len(Lock(clone).cells)
          /\ \A i \in 1 .. Lock(clone).size : Lock(clone).cells[i] = Contents[i]
      BY <1>1, <1>2, <1>3, <2>1
    <2>. QED  BY <1>2, <1>3, <2>2, LiveIs, Zenon
  <1>5. data' = Append1(Lock(clone), t) /\ data' \in Storages
    BY PushBeyondStep DEF PushBeyond, clone, Inv
  <1>6. Live(data') = Append(Contents, t)
    BY <1>1, <1>2, <1>3, <1>4, <1>5, Append1Contents
  <1>. QED  BY <1>6 DEF Contract!PushBack, Contents

LEMMA PushOwnContents ==
  ASSUME Inv, NEW i \in 0 .. MaxCap, PushOwn(i) PROVE Contract!PushOwn(i)
  <1>1. /\ i \in 1 .. data.size /\ data.cells[i] \in Values
        /\ Contents \in Seq(Values) /\ Len(Contents) = data.size /\ Contents[i] = data.cells[i]
    BY LiveCells DEF Inv, Storages, PushOwn, Capacity, Contents
  <1>2. i \in DOMAIN Contents
    BY <1>1
  <1>3. PushInPlace(Contents[i]) \/ PushBeyond(0)
    BY <1>1 DEF PushOwn
  <1>4. Contract!PushBack(Contents[i]) \/ Contract!PushBack(0)
    BY <1>1, <1>3, PushInPlaceContents, PushBeyondContents, ValuesAssumption
  <1>. QED  BY <1>2, <1>4 DEF Contract!PushOwn

LEMMA PopBackContents == ASSUME Inv, PopBack PROVE Contract!PopBack
  <1>1. /\ data \in Storages /\ data.size \in Nat /\ data.size > 0 /\ data.size <= Len(data.cells)
        /\ Contents \in Seq(Values) /\ Len(Contents) = data.size
        /\ \A i \in 1 .. data.size : Contents[i] = data.cells[i]
    BY LiveCells DEF Inv, Storages, PopBack, Capacity, Contents
  <1>. DEFINE shorter == SubSeq(Contents, 1, Len(Contents) - 1)
  <1>2. /\ Contents # <<>> /\ shorter \in Seq(Values) /\ Len(shorter) = data.size - 1
        /\ \A i \in 1 .. data.size - 1 : shorter[i] = Contents[i]
    BY <1>1
  <1>. HIDE DEF shorter
  <1>3. Live(data') = shorter
    <2>1. Inv'
      BY PopBackStep
    <2>2. CASE data.size = 1
      <3>1. UnlockMem(data) \in Storages /\ data' = [UnlockMem(data) EXCEPT !.size = 0]
        BY <1>1, <2>2, UnlockMemType DEF PopBack
      <3>2. data'.size = 0
        BY <3>1 DEF Storages
      <3>3. Contents' = <<>>
        BY <2>1, <3>2, LiveCells DEF Inv, Contents, Capacity
      <3>. QED  BY <1>2, <2>2, <3>3 DEF Contents
    <2>3. CASE data.size # 1
      <3>1. data'.cells = data.cells /\ data'.size = data.size - 1
        BY <1>1, <2>3 DEF PopBack, Storages
      <3>2. \A i \in 1 .. data'.size : data'.cells[i] = shorter[i]
        <4>1. \A i \in 1 .. data.size - 1 : i \in 1 .. data.size
          BY <1>1
        <4>. QED  BY <1>1, <1>2, <3>1, <4>1
      <3>3. data' \in Storages /\ data'.size <= Len(data'.cells)
        BY <2>1 DEF Inv, Capacity
      <3>. QED  BY <1>2, <3>1, <3>2, <3>3, LiveIs, Zenon
    <2>. QED  BY <2>2, <2>3
  <1>. QED  BY <1>2, <1>3 DEF Contract!PopBack, Contents, shorter

LEMMA AssignContents ==
  ASSUME Inv, NEW other \in Vectors, Assign(other) PROVE Contract!Assign(other)
  <1>1. other \in Seq(Values) /\ data \in Storages /\ Len(other) \in Nat
    BY VectorsAreSequences DEF Inv
  <1>2. data' \in Storages /\ data'.size <= Len(data'.cells)
    BY AssignStep DEF Inv, Capacity
  <1>. DEFINE old == Unlock(data)
  <1>3. old \in Storages /\ Len(old.cells) = Capacity
    BY <1>1, UnlockType DEF Capacity
  <1>4. data'.size = Len(other) /\ \A i \in 1 .. Len(other) : data'.cells[i] = other[i]
    <2>1. CASE Len(other) <= Capacity
      <3>. DEFINE cells == [i \in DOMAIN old.cells |-> IF i <= Len(other) THEN other[i] ELSE old.cells[i]]
                  new   == [old EXCEPT !.size = Len(other),
                                       !.cells = [i \in DOMAIN @ |->
                                                    IF i <= Len(other) THEN other[i] ELSE @[i]]]
      <3>1. /\ cells \in Seq(Values) /\ \A i \in 1 .. Len(other) : cells[i] = other[i]
        <4>1. old.cells \in Seq(Values)
          BY <1>3 DEF Storages
        <4>2. \A i \in 1 .. Len(old.cells) : cells[i] \in Values
          BY <1>1, <4>1
        <4>3. DOMAIN old.cells = 1 .. Len(old.cells) /\ Len(old.cells) \in Nat
          BY <4>1
        <4>4. \A i \in 1 .. Len(other) : i \in DOMAIN old.cells /\ i <= Len(other)
          BY <1>1, <1>3, <2>1, <4>3
        <4>5. cells \in Seq(Values)
          BY <1>3, <4>1, <4>2
        <4>6. \A i \in 1 .. Len(other) : cells[i] = other[i]
          BY <4>4, Zenon
        <4>. QED  BY <4>5, <4>6
      <3>2. new \in Storages /\ new.cells = cells /\ new.size = Len(other)
        <4>1. new = [[old EXCEPT !.size = Len(other)] EXCEPT !.cells = cells]
          BY Zenon
        <4>. HIDE DEF cells, new, old
        <4>. QED  BY <1>1, <1>3, <3>1, <4>1 DEF Storages
      <3>3. data' = Lock(new)
        BY <2>1 DEF Assign
      <3>. HIDE DEF cells, new
      <3>. QED  BY <3>1, <3>2, <3>3, LockType
    <2>2. CASE ~ (Len(other) <= Capacity)
      <3>1. data' = Lock(Storage(other, Len(other)))
        BY <2>2 DEF Assign
      <3>2. /\ Storage(other, Len(other)) \in Storages
            /\ Storage(other, Len(other)).size = Len(other)
        <4>1. Len(other) <= Len(other)
          BY <1>1
        <4>. QED  BY <1>1, <4>1, StorageType, Zenon
      <3>3. \A i \in 1 .. Len(other) : Storage(other, Len(other)).cells[i] = other[i]
        BY <1>1 DEF Storage
      <3>. QED  BY <3>1, <3>2, <3>3, LockType
    <2>. QED  BY <2>1, <2>2
  <1>5. Live(data') = other
    BY <1>1, <1>2, <1>4, LiveIs
  <1>. QED  BY <1>5 DEF Contract!Assign, Contents

LEMMA SelfAssignContents == ASSUME Inv, SelfAssign PROVE Contract!SelfAssign
  <1>1. /\ data \in Storages /\ data.size \in Nat /\ data.size <= Len(data.cells)
        /\ Contents \in Seq(Values) /\ Len(Contents) = data.size
    BY LiveCells DEF Inv, Storages, Capacity, Contents
  <1>2. Unlock(data) \in Storages /\ Unlock(data).size = data.size
    BY <1>1, UnlockType
  <1>3. data' \in Storages /\ data'.cells = Unlock(data).cells /\ data'.size = data.size
    BY <1>2, LockType DEF SelfAssign
  <1>4. data'.size <= Len(data'.cells)
    BY SelfAssignStep DEF Inv, Capacity
  <1>. DEFINE zeroed == Contract!Zeroed(Contents)
  <1>5. CASE data.size = 0
    <2>1. Contents = <<>> /\ Contents' = <<>>
      BY <1>1, <1>3, <1>4, <1>5, LiveCells DEF Contents
    <2>. QED  BY <2>1 DEF Contract!SelfAssign
  <1>6. CASE data.size # 0
    <2>1. \A i \in 1 .. data.size : data'.cells[i] = 0
      BY <1>1, <1>3, <1>6 DEF Unlock, UnlockMem, Storages
    <2>2. /\ zeroed \in Seq(Values) /\ Len(zeroed) = data.size
          /\ \A i \in 1 .. data.size : zeroed[i] = 0
      BY <1>1, ValuesAssumption DEF Contract!Zeroed
    <2>. HIDE DEF zeroed
    <2>3. Live(data') = zeroed
      BY <1>3, <1>4, <2>1, <2>2, LiveIs
    <2>. QED  BY <2>3 DEF Contract!SelfAssign, Contents, zeroed
  <1>. QED  BY <1>5, <1>6

LEMMA ClearContents == ASSUME Inv, Clear \/ Destroy PROVE Contract!Assign(<<>>)
  <1>1. Inv'
    BY ClearStep, DestroyStep
  <1>2. data'.size = 0
    <2>1. CASE Clear
      BY <2>1, UnlockType DEF Inv, Clear, Storages
    <2>2. CASE Destroy
      BY <2>2 DEF Destroy, Default
    <2>. QED  BY <2>1, <2>2
  <1>3. Contents' = <<>>
    BY <1>1, <1>2, LiveCells DEF Inv, Contents, Capacity
  <1>. QED  BY <1>3 DEF Contract!Assign

\* Each call does to the elements what the contract says of it, for every capacity and every set
\* of elements, through each change of storage, erasure and copy (ImplementsContract;
\* SecureVector.h:34-111).
THEOREM CallsKeepContract == Spec => ImplementsContract
  <1>1. Init => Contract!Init
    <2>1. Init => Contents = <<>>
      BY InitInv, EmptyContents DEF Init, Default
    <2>. QED  BY <2>1 DEF Contract!Init
  <1>2. ASSUME Inv, [Next]_vars
        PROVE  [/\ \A n \in 0 .. MaxCap : /\ Resize(n) => Contract!Resize(n)
                                          /\ Reserve(n) => UNCHANGED Contents
                                          /\ PushOwn(n) => Contract!PushOwn(n)
                /\ \A t \in Values : PushBack(t) => Contract!PushBack(t)
                /\ \A other \in Vectors : Assign(other) => Contract!Assign(other)
                /\ PopBack => Contract!PopBack
                /\ SelfAssign => Contract!SelfAssign
                /\ Clear \/ Destroy => Contract!Assign(<<>>)]_vars
    <2>1. \A n \in 0 .. MaxCap : Resize(n) => Contract!Resize(n)
      BY <1>2, ResizeInPlaceContents, ResizeBeyondContents DEF Resize
    <2>2. \A n \in 0 .. MaxCap : Reserve(n) => UNCHANGED Contents
      BY <1>2, ReserveContents
    <2>3. \A n \in 0 .. MaxCap : PushOwn(n) => Contract!PushOwn(n)
      BY <1>2, PushOwnContents
    <2>4. \A t \in Values : PushBack(t) => Contract!PushBack(t)
      BY <1>2, PushInPlaceContents, PushFirstContents, PushBeyondContents DEF PushBack
    <2>5. \A other \in Vectors : Assign(other) => Contract!Assign(other)
      BY <1>2, AssignContents
    <2>6. /\ PopBack => Contract!PopBack
          /\ SelfAssign => Contract!SelfAssign
          /\ Clear \/ Destroy => Contract!Assign(<<>>)
      BY <1>2, PopBackContents, SelfAssignContents, ClearContents
    <2>. QED  BY <2>1, <2>2, <2>3, <2>4, <2>5, <2>6
  <1>. QED  BY <1>1, <1>2, Invariant, PTL DEF Spec, ImplementsContract
=============================================================================
