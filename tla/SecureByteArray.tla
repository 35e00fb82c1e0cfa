-------------------------- MODULE SecureByteArray --------------------------
(***************************************************************************)
(* The SecureByteArray objects of a thread and the SecureByteReader and    *)
(* SecureByteWriter handles open on them (Security/SecureByteArray.h).     *)
(* Each array owns a block of sodium_malloc, whose pages the handles open  *)
(* and close.  The user's part, asked for at SecureByteArray.h:65: no      *)
(* array is destroyed, overwritten or moved while a handle to it is open.  *)
(* Assigning an array to itself and reading one that has no block are also *)
(* left out: nothing in the SDK does either.                               *)
(***************************************************************************)
EXTENDS Naturals, FiniteSets

CONSTANTS
  Arrays,    \* the objects
  Handles,   \* the handles that may be open at once
  Blocks,    \* what sodium_malloc may return
  None       \* no block, no array

ASSUME NoneAssumption == None \notin Blocks \cup Arrays
ASSUME HandlesAssumption == IsFiniteSet(Handles)

VARIABLES
  array,    \* the members of each array, and whether it exists
  handle,   \* the members of each handle, kind "closed" when it does not exist
  access,   \* the protection of each block, "Freed" when it is not allocated
  asked     \* history: whether the block's constructor was asked to protect it

vars == <<array, handle, access, asked>>

Gone == [alive |-> FALSE, m_data |-> None, m_readers |-> 0, m_writers |-> 0,
         m_protectAccess |-> TRUE]
Closed == [kind |-> "closed", owner |-> None, data |-> None]

Open(o, kind) == {h \in Handles : handle[h].owner = o /\ handle[h].kind = kind}
Unused(o) == \A h \in Handles : handle[h].owner # o
Idle(a) == a.m_readers = 0 /\ a.m_writers = 0

Init ==
  /\ array = [o \in Arrays |-> Gone]
  /\ handle = [h \in Handles |-> Closed]
  /\ access = [b \in Blocks |-> "Freed"]
  /\ asked = [b \in Blocks |-> FALSE]

\* The constructor without arguments.
ConstructEmpty(o) ==
  /\ ~array[o].alive
  /\ array' = [array EXCEPT ![o] = [Gone EXCEPT !.alive = TRUE]]
  /\ UNCHANGED <<handle, access, asked>>

Construct(o, protectAccess) ==
  /\ ~array[o].alive
  /\ \E b \in Blocks :
       /\ access[b] = "Freed"
       /\ array' = [array EXCEPT ![o] = [Gone EXCEPT !.alive = TRUE, !.m_data = b,
                                                     !.m_protectAccess = protectAccess]]
       /\ access' = [access EXCEPT ![b] = IF protectAccess THEN "NoAccess" ELSE "ReadWrite"]
       /\ asked' = [asked EXCEPT ![b] = protectAccess]
  /\ UNCHANGED handle

\* The blocks after SECURE_FREE of an array's m_data.
\* Mutant of Release: the old block is forgotten.
ReleaseForgotten(o) == access

Release(o) == [b \in Blocks |-> IF b = array[o].m_data THEN "Freed" ELSE access[b]]

Destroy(o) ==
  /\ array[o].alive /\ Unused(o)
  /\ access' = Release(o)
  /\ array' = [array EXCEPT ![o] = Gone]
  /\ UNCHANGED <<handle, asked>>

MoveConstruct(o, p) ==
  /\ ~array[o].alive /\ array[p].alive /\ Unused(p)
  /\ array' = [array EXCEPT ![o] = [Gone EXCEPT !.alive = TRUE, !.m_data = array[p].m_data],
                            ![p].m_data = None]
  /\ UNCHANGED <<handle, access, asked>>

\* The copy constructor and operator=: the old block goes; a new one, which a copy of an array
\* without a block gets too, is filled through a reader of other, if there is something to
\* read.  The reader leaves other closed if nobody else has it open.
Copy(o, p) ==
  LET other == array[p]
      afterRead == [b \in Blocks |->
                      IF b = other.m_data /\ other.m_protectAccess /\ Idle(other)
                      THEN "NoAccess" ELSE Release(o)[b]]
  IN /\ o # p /\ other.alive /\ Unused(o)
     /\ \E b \in Blocks :
          /\ Release(o)[b] = "Freed"
          /\ array' = [array EXCEPT ![o].alive = TRUE, ![o].m_data = b,
                                    ![o].m_protectAccess = other.m_protectAccess]
          /\ access' = [afterRead EXCEPT ![b] =
                          IF other.m_protectAccess THEN "NoAccess" ELSE "ReadWrite"]
          /\ asked' = [asked EXCEPT ![b] = other.m_protectAccess]
     /\ UNCHANGED handle

\* The protection a call sets, under its condition.
Protect(o, condition, protection) ==
  access' = IF array[o].m_protectAccess /\ condition
            THEN [access EXCEPT ![array[o].m_data] = protection] ELSE access

Hand(h, o, kind) ==
  /\ handle[h].kind = "closed"
  /\ handle' = [handle EXCEPT ![h] = [kind |-> kind, owner |-> o, data |-> array[o].m_data]]
  /\ UNCHANGED asked

\* Mutant of Read: a writer that is open is not looked for.
ReadOverWriter(o, h) ==
  /\ array[o].alive /\ array[o].m_data # None
  /\ Protect(o, array[o].m_readers = 0, "ReadOnly")
  /\ array' = [array EXCEPT ![o].m_readers = @ + 1]
  /\ Hand(h, o, "reader")

Read(o, h) ==
  /\ array[o].alive /\ array[o].m_data # None
  /\ Protect(o, Idle(array[o]), "ReadOnly")
  /\ array' = [array EXCEPT ![o].m_readers = @ + 1]
  /\ Hand(h, o, "reader")

Write(o, h) ==
  /\ array[o].alive /\ array[o].m_data # None
  /\ Protect(o, array[o].m_writers = 0, "ReadWrite")
  /\ array' = [array EXCEPT ![o].m_writers = @ + 1]
  /\ Hand(h, o, "writer")

Drop(h) == handle' = [handle EXCEPT ![h] = Closed] /\ UNCHANGED asked

UnlockReader(h) ==
  LET o == handle[h].owner
  IN /\ handle[h].kind = "reader"
     /\ array' = [array EXCEPT ![o].m_readers = @ - 1]
     /\ Protect(o, Idle(array'[o]), "NoAccess")
     /\ Drop(h)

\* Mutant of UnlockWriter: readers that stay keep the array writable.
UnlockWriterLeavesWritable(h) ==
  LET o == handle[h].owner
  IN /\ handle[h].kind = "writer"
     /\ array' = [array EXCEPT ![o].m_writers = @ - 1]
     /\ Protect(o, Idle(array'[o]), "NoAccess")
     /\ Drop(h)

UnlockWriter(h) ==
  LET o == handle[h].owner
  IN /\ handle[h].kind = "writer"
     /\ array' = [array EXCEPT ![o].m_writers = @ - 1]
     /\ Protect(o, array'[o].m_writers = 0,
                IF array'[o].m_readers = 0 THEN "NoAccess" ELSE "ReadOnly")
     /\ Drop(h)

Next ==
  \/ \E o \in Arrays :
       \/ ConstructEmpty(o)
       \/ \E protectAccess \in BOOLEAN : Construct(o, protectAccess)
       \/ Destroy(o)
       \/ \E p \in Arrays : MoveConstruct(o, p) \/ Copy(o, p)
       \/ \E h \in Handles : Read(o, h) \/ Write(o, h)
  \/ \E h \in Handles : UnlockReader(h) \/ UnlockWriter(h)

Spec == Init /\ [][Next]_vars
-----------------------------------------------------------------------------
\* What the open handles of an array call for.
Due(o) ==
  CASE Open(o, "writer") # {}                             -> "ReadWrite"
    [] Open(o, "writer") = {} /\ Open(o, "reader") # {}   -> "ReadOnly"
    [] OTHER                                              -> "NoAccess"

\* The array moves "to a readable or writable state, and then automatically" back to a
\* non-readable one (SecureByteArray.h:17-19): a block that was asked to be protected is open
\* exactly as far as the open handles call for, whatever the order in which they come and go.
AccessMatchesHandles ==
  \A o \in Arrays : array[o].alive /\ array[o].m_data # None /\ asked[array[o].m_data]
                      => access[array[o].m_data] = Due(o)

\* An open handle points to its array's block (the check of SecureByteArray.h:89 and :105 never
\* fails) and may read, or write, what it points to, protected or not.
HandlesUsable ==
  \A h \in Handles :
    /\ handle[h].kind # "closed" => handle[h].data = array[handle[h].owner].m_data
    /\ handle[h].kind = "reader" => access[handle[h].data] \in {"ReadOnly", "ReadWrite"}
    /\ handle[h].kind = "writer" => access[handle[h].data] = "ReadWrite"

\* Every allocated block has one array that will free it, and no array has a freed one: nothing
\* leaks and nothing is freed twice (SecureByteArray.h:57-78, 189-194).
OneOwner ==
  \A b \in Blocks :
    Cardinality({o \in Arrays : array[o].m_data = b}) = IF access[b] = "Freed" THEN 0 ELSE 1
=============================================================================
