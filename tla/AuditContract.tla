--------------------------- MODULE AuditContract ---------------------------
(***************************************************************************)
(* What the audit tool promises: one verdict, justified by what the ledger *)
(* holds and by whether every reply it got was the ledger's.  BlindBagAudit*)
(* implements this specification.                                          *)
(***************************************************************************)
EXTENDS BlindBag

VARIABLES
  world,    \* the ledger and the web site
  faulty,   \* some reply was an error, or not what the ledger holds
  verdict   \* the tool's answer, "Pending" until it has one

contractVars == <<world, faulty, verdict>>

Verdicts == {"Error", "Unsuitable", "Indeterminate", "Mismatch", "Match", "Crash"}

Auditable == IsOpening(world) /\ OneBag(world) /\ BagIsCrate(world)

\* A roll may select a group the web site does not list: the odds have no meaning then.
StrayGroup == \E n \in 1 .. Len(world.info.rolls) :
                 Len(world.info.rolls[n]) > Len(world.info.groups)

\* The tool stops on data it does not handle.
Unsupported ==
  \/ ~OneBag(world)
  \/ ~Bag(world).ram.long
  \/ ~WellFormed(world.info)
  \/ ~MintsDecode(world)

\* What may justify a verdict, given whether a reply has failed.
Justified(v, failed) ==
  \/ v = "Match"         /\ Auditable /\ CommitmentsKept(world)
                         /\ (StrayGroup \/ (WellFormed(world.info) /\ RollsKept(world)))
  \/ v = "Mismatch"      /\ Auditable
                         /\ (\/ ~CommitmentsKept(world) \/ StrayGroup
                             \/ (WellFormed(world.info) /\ ~RollsKept(world)))
  \/ v = "Unsuitable"    /\ (~IsOpening(world) \/ ~BagIsCrate(world) \/ failed)
  \/ v = "Indeterminate" /\ failed
  \/ v = "Error"         /\ (Unsupported \/ failed)
  \/ v = "Crash"         /\ (failed \/ ~WellFormed(world.info) \/ Unreadable(world))

Init == world \in Worlds /\ faulty = FALSE /\ verdict = "Pending"

\* A reply fails.
Fail ==
  /\ verdict = "Pending"
  /\ faulty' = TRUE
  /\ UNCHANGED <<world, verdict>>

\* The verdict may come in the step in which the deciding reply fails.
Decide(v) ==
  /\ verdict = "Pending"
  /\ \E failed \in {faulty, TRUE} : faulty' = failed /\ Justified(v, failed)
  /\ verdict' = v
  /\ UNCHANGED world

Next == Fail \/ \E v \in Verdicts : Decide(v)

Spec == Init /\ [][Next]_contractVars
=============================================================================
