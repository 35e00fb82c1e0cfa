---------------------------- MODULE SecureVector ----------------------------
(***************************************************************************)
(* One SecureVector (Security/SecureVector.h): a std::vector whose storage *)
(* is pinned with sodium_mlock while it holds data and erased and unpinned *)
(* with sodium_munlock before it is given back.  A storage is its cells,   *)
(* live elements first, and whether its pages are pinned; capacity is the  *)
(* number of cells.  A cell that holds 0 holds nothing secret.             *)
(***************************************************************************)
EXTENDS Naturals, Sequences

CONSTANTS
  Values,   \* element values
  MaxCap    \* bound: no operation asks for a larger capacity

ASSUME ValuesAssumption == 0 \in Values
ASSUME MaxCapAssumption == MaxCap \in Nat \ {0}

VARIABLES
  data,     \* the vector: [cells, size, locked]
  freed     \* history: the storages the last operation gave back

vars == <<data, freed>>

Capacity == Len(data.cells)
Live(v) == SubSeq(v.cells, 1, v.size)
Contents == Live(data)

Default == [cells |-> <<>>, size |-> 0, locked |-> FALSE]

\* New storage of the given capacity that starts with s.
Storage(s, capacity) ==
  [cells  |-> [i \in 1 .. capacity |-> IF i <= Len(s) THEN s[i] ELSE 0],
   size   |-> Len(s),
   locked |-> FALSE]

\* Giving back no storage is no deallocation.
Free(v) == IF v.cells = <<>> THEN {} ELSE {v}

\* Mutant of Lock: never pin.
LockForgotten(v) == v

Lock(v) == IF v.size = 0 THEN v ELSE [v EXCEPT !.locked = TRUE]

\* Mutant of UnlockMem: unpin without erasing.
UnlockMemUnwiped(v) == [v EXCEPT !.locked = FALSE]

\* sodium_munlock over the whole capacity.
UnlockMem(v) == [v EXCEPT !.cells = [i \in DOMAIN v.cells |-> 0], !.locked = FALSE]

Unlock(v) == IF v.size = 0 THEN v ELSE UnlockMem(v)

\* Mutant of Clone: the old storage is erased before it is copied.
CloneAfterUnlock(capacity) == Storage(Live(Unlock(data)), capacity)

\* The larger storage that resize and push_back fill before they erase the old one.
Clone(capacity) == Storage(Contents, capacity)

Init == data = Default /\ freed = {}

ResizeInPlace(n) ==
  /\ n <= Capacity
  /\ data' = [data EXCEPT !.size = n,
                          !.cells = [i \in DOMAIN @ |-> IF data.size < i /\ i <= n THEN 0 ELSE @[i]]]
  /\ freed' = {}

ResizeBeyond(n) ==
  /\ n > Capacity
  /\ data' = Lock([Clone(n) EXCEPT !.size = n])
  /\ freed' = Free(Unlock(data))

Resize(n) == ResizeInPlace(n) \/ ResizeBeyond(n)

Reserve(n) ==
  /\ n > Capacity
  /\ data' = Storage(Contents, n)
  /\ freed' = Free(data)

Append1(v, t) == [v EXCEPT !.cells[v.size + 1] = t, !.size = @ + 1]

HasRoom == Capacity > data.size

\* An empty vector is pinned as it takes its first element.
PushInPlace(t) ==
  /\ HasRoom
  /\ data' = [Append1(data, t) EXCEPT !.locked = @ \/ data.size = 0]
  /\ freed' = {}

\* The first element of a vector without storage: clone and data are both empty, and
\* data.push_back allocates after Lock.
PushFirst(t) ==
  /\ ~HasRoom /\ Capacity = 0
  /\ data' = Storage(<<t>>, 1)
  /\ freed' = {}

PushBeyond(t) ==
  /\ ~HasRoom /\ Capacity > 0 /\ 2 * data.size <= MaxCap
  /\ data' = Append1(Lock(Clone(2 * data.size)), t)
  /\ freed' = Free(Unlock(data))

PushBack(t) == PushInPlace(t) \/ PushFirst(t) \/ PushBeyond(t)

\* push_back( v[i] ): the reference is into the storage that PushBeyond erases before it reads.
PushOwn(i) ==
  /\ i \in 1 .. data.size
  /\ PushInPlace(data.cells[i]) \/ PushBeyond(0)

PopBack ==
  /\ data.size > 0
  /\ data' = IF data.size = 1 THEN [UnlockMem(data) EXCEPT !.size = 0]
                              ELSE [data EXCEPT !.size = @ - 1]
  /\ freed' = {}

\* std::vector's assignment keeps a storage that is large enough.
Assign(other) ==
  LET old == Unlock(data)
      fits == Len(other) <= Capacity
  IN /\ data' = IF fits
                THEN Lock([old EXCEPT !.size = Len(other),
                                      !.cells = [i \in DOMAIN @ |->
                                                   IF i <= Len(other) THEN other[i] ELSE @[i]]])
                ELSE Lock(Storage(other, Len(other)))
     /\ freed' = IF fits THEN {} ELSE Free(old)

\* data = data does nothing, after Unlock has erased it.
SelfAssign == data' = Lock(Unlock(data)) /\ freed' = {}

Clear == data' = [Unlock(data) EXCEPT !.size = 0] /\ freed' = {}

\* The destructor; the next object is a new one.
Destroy == data' = Default /\ freed' = Free(Unlock(data))

Vectors == UNION {[1 .. n -> Values] : n \in 0 .. MaxCap}

Next ==
  \/ \E n \in 0 .. MaxCap : Resize(n) \/ Reserve(n)
  \/ \E t \in Values : PushBack(t)
  \/ \E i \in 1 .. MaxCap : PushOwn(i)
  \/ \E other \in Vectors : Assign(other)
  \/ PopBack \/ SelfAssign \/ Clear \/ Destroy

Spec == Init /\ [][Next]_vars
-----------------------------------------------------------------------------
Contract == INSTANCE SequenceContract WITH contents <- Contents

\* Each call does to the elements what the contract says of that call, through every change of
\* storage and whatever lies beyond the last element (SecureVector.h:34-111).
ImplementsContract ==
  /\ Contract!Init
  /\ [][/\ \A n \in 0 .. MaxCap : /\ Resize(n) => Contract!Resize(n)
                                  /\ Reserve(n) => UNCHANGED Contents
                                  /\ PushOwn(n) => Contract!PushOwn(n)
        /\ \A t \in Values : PushBack(t) => Contract!PushBack(t)
        /\ \A other \in Vectors : Assign(other) => Contract!Assign(other)
        /\ PopBack => Contract!PopBack
        /\ SelfAssign => Contract!SelfAssign
        /\ Clear \/ Destroy => Contract!Assign(<<>>)]_vars

HoldsData(v) == \E i \in DOMAIN v.cells : v.cells[i] # 0

\* A storage is given back erased and unpinned, except by reserve, which leaves the move to
\* std::vector (SecureVector.h:57), and when Unlock takes the vector for unused because
\* resize(0) has emptied it (SecureVector.h:121).
ErasedUnlessKnown ==
  [][(\E v \in freed' : HoldsData(v) \/ v.locked) =>
       data.size = 0 \/ \E n \in 1 .. MaxCap : Reserve(n)]_vars

\* A vector with elements is pinned, except when its first element allocated the storage, when
\* reserve moved it, when resize filled an empty vector in place, and until the next change of
\* storage after one of these.
PinnedUnlessKnown ==
  [][data'.size > 0 /\ ~data'.locked =>
       \/ data.size > 0 /\ ~data.locked /\ Len(data'.cells) = Capacity
       \/ Capacity = 0 /\ data'.size = 1
       \/ data.size = 0 /\ \E n \in 1 .. MaxCap : ResizeInPlace(n)
       \/ \E n \in 1 .. MaxCap : Reserve(n)]_vars

\* "Data contained in these vectors is also always overwritten with zeros during deallocation"
\* (SecureVector.h:14).
AlwaysErased == \A v \in freed : ~HoldsData(v)
=============================================================================
