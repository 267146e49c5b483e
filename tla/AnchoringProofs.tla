-------------------------- MODULE AnchoringProofs ---------------------------
(***************************************************************************)
(* What the anchoring guarantees: BatchCoordinator with its contract, for  *)
(* any decisions, replicas, interval, clock and gateways, and MerkleTree   *)
(* for any leaves and any number of them.                                  *)
(***************************************************************************)
EXTENDS BatchCoordinator, MerkleTree, FiniteSums, SequenceTheorems

-----------------------------------------------------------------------------
(***************************************************************************)
(* What BatchCoordinator guarantees for any decisions, replicas, interval, *)
(* clock, gateways and number of faults.                                   *)
(*                                                                         *)
(* Table says that rows and batches agree (the invariants of the module).  *)
(* It is kept because of what each replica's loop carries from one await   *)
(* to the next (Carried): no batch it learnt of ends after its cursor      *)
(* (Ahead); the leaves it has in hand are of its window, different, in     *)
(* none of its own batches, and all that no batch has yet (Chosen); what   *)
(* it sends is a batch of the table (InHand).  A step of another replica,  *)
(* or a thread that inserts, leaves all of that as it was: it adds rows    *)
(* and batches of its own, and moves rows, but neither timestamps nor the  *)
(* leaves of a batch change.  Chain says where the roots of the pool and   *)
(* of the contract come from: batches of the table.                        *)
(***************************************************************************)

RowType == [timestamp : Nat, batch : Nat, index : Nat]

Status == {"prepared", "anchored", "anchor_failed"}

BatchType ==
  [start : Int, end : Int, present : SUBSET Decision, leaves : Seq(Decision), status : Status,
   by : Replica, answered : BOOLEAN]

Sending == {"persisted", "estimated", "sent", "failed"}

LoopType ==
  {Down} \cup [pc : {"waiting"}, due : Nat]
  \cup [pc : {"opened"}, start : Int, end : Int, present : SUBSET Decision]
  \cup [pc : {"loaded"}, start : Int, end : Int, present : SUBSET Decision, leaves : Seq(Decision)]
  \cup [pc : Sending, batch : Nat, root : Seq(Decision), start : Int]

Types ==
  /\ now \in Nat /\ cursor \in [Replica -> Int] /\ started \in [Replica -> Nat]
  /\ rows \in [Decision -> RowType \cup {NoRow}]
  /\ batches \in Seq(BatchType)
  /\ loop \in [Replica -> LoopType]

InWindow(d, start, end) == start < rows[d].timestamp /\ rows[d].timestamp <= end

Table ==
  /\ \A b \in 1..Len(batches) :
       /\ Len(batches[b].leaves) > 0
       /\ \A d \in batches[b].present : rows[d] # NoRow
  /\ \A d \in Decision : (rows[d] # NoRow /\ rows[d].batch # 0) =>
       rows[d].batch \in 1..Len(batches) /\ rows[d].index \in 1..Len(batches[rows[d].batch].leaves)
  /\ Len(batches) > 0 => \E b \in 1..Len(batches) : \A c \in 1..Len(batches) : batches[c].end <= batches[b].end
  /\ LeavesPointBack /\ WindowsDisjoint /\ WindowComplete

Ahead(r) ==
  /\ loop[r] # Down => \A b \in 1..Len(batches) :
       (batches[b].by = r /\ batches[b].answered) => batches[b].end <= cursor[r]
  /\ loop[r].pc \in {"opened", "loaded"} =>
       /\ loop[r].start = cursor[r] /\ loop[r].start < loop[r].end
       /\ \A d \in loop[r].present : rows[d] # NoRow

Chosen(r) ==
  loop[r].pc = "loaded" =>
    /\ Len(loop[r].leaves) > 0
    /\ \A i \in 1..Len(loop[r].leaves) :
         /\ rows[loop[r].leaves[i]] # NoRow
         /\ InWindow(loop[r].leaves[i], loop[r].start, loop[r].end)
         /\ \A b \in 1..Len(batches) : batches[b].by = r => ~LeafOf(loop[r].leaves[i], b)
    /\ \A i, j \in 1..Len(loop[r].leaves) : loop[r].leaves[i] = loop[r].leaves[j] => i = j
    /\ \A d \in loop[r].present : InWindow(d, loop[r].start, loop[r].end) =>
         \/ \E i \in 1..Len(loop[r].leaves) : loop[r].leaves[i] = d
         \/ \E b \in 1..Len(batches) : LeafOf(d, b)

InHand(r) ==
  loop[r].pc \in Sending =>
    /\ loop[r].batch \in 1..Len(batches)
    /\ batches[loop[r].batch].leaves = loop[r].root /\ batches[loop[r].batch].start = loop[r].start

Carried(r) == Ahead(r) /\ Chosen(r) /\ InHand(r)

TInv == Types /\ Table /\ \A r \in Replica : Carried(r)

-----------------------------------------------------------------------------
(* The tables and the loops. *)

\* What kind of state a loop is in, from where it is.
LEMMA LoopKind ==
  ASSUME NEW l \in LoopType
  PROVE  /\ l.pc \in {"down", "waiting", "opened", "loaded", "persisted", "estimated", "sent", "failed"}
         /\ l = Down <=> l.pc = "down"
         /\ l.pc = "opened" => l.start \in Int /\ l.end \in Int /\ l.present \subseteq Decision
         /\ l.pc = "loaded" => /\ l.start \in Int /\ l.end \in Int
                               /\ l.present \subseteq Decision /\ l.leaves \in Seq(Decision)
         /\ l.pc \in Sending =>
              /\ l \in [pc : Sending, batch : Nat, root : Seq(Decision), start : Int]
              /\ l.batch \in Nat /\ l.root \in Seq(Decision) /\ l.start \in Int
  BY DEF LoopType, Down, Sending

LEMMA LoopOf ==
  ASSUME Types, NEW r \in Replica
  PROVE  loop[r] \in LoopType /\ cursor[r] \in Int /\ DOMAIN loop = Replica /\ DOMAIN cursor = Replica
  BY DEF Types

LEMMA BatchFields ==
  ASSUME Types
  PROVE  /\ Len(batches) \in Nat /\ DOMAIN batches = 1..Len(batches)
         /\ \A b \in 1..Len(batches) :
              /\ batches[b] \in BatchType
              /\ batches[b].leaves \in Seq(Decision) /\ batches[b].present \subseteq Decision
              /\ DOMAIN batches[b].leaves = 1..Len(batches[b].leaves)
              /\ \A i \in 1..Len(batches[b].leaves) : batches[b].leaves[i] \in Decision
              /\ batches[b].start \in Int /\ batches[b].end \in Int
              /\ batches[b].by \in Replica /\ batches[b].answered \in BOOLEAN
<1>1. Len(batches) \in Nat /\ DOMAIN batches = 1..Len(batches) /\ \A b \in 1..Len(batches) : batches[b] \in BatchType
  BY DEF Types
<1>2. \A b \in 1..Len(batches) : /\ batches[b].leaves \in Seq(Decision) /\ batches[b].present \subseteq Decision
                                /\ batches[b].start \in Int /\ batches[b].end \in Int
                                /\ batches[b].by \in Replica /\ batches[b].answered \in BOOLEAN
  BY <1>1 DEF BatchType
<1>3. \A b \in 1..Len(batches) :
        /\ DOMAIN batches[b].leaves = 1..Len(batches[b].leaves)
        /\ \A i \in 1..Len(batches[b].leaves) : batches[b].leaves[i] \in Decision
  BY <1>2
<1>. QED
  BY <1>1, <1>2, <1>3

LEMMA TableInit == Init => TInv
<1> SUFFICES ASSUME Init PROVE TInv
  OBVIOUS
<1>1. /\ now = 1 /\ rows = [d \in Decision |-> NoRow] /\ batches = <<>>
      /\ started = [r \in Replica |-> 0] /\ cursor = [r \in Replica |-> 0] /\ loop = [r \in Replica |-> Down]
  BY DEF Init
<1>2. Down.pc = "down" /\ Down \in LoopType
  BY DEF Down, LoopType
<1>3. Len(batches) = 0 /\ DOMAIN batches = {} /\ batches \in Seq(BatchType)
  BY <1>1
<1>4. Types
  BY <1>1, <1>2, <1>3 DEF Types
<1>5. Table
  BY <1>1, <1>3 DEF Table, LeavesPointBack, WindowsDisjoint, WindowComplete
<1>6. \A r \in Replica : Carried(r)
  BY <1>1, <1>2 DEF Carried, Ahead, Chosen, InHand, Sending
<1>. QED
  BY <1>4, <1>5, <1>6 DEF TInv

\* Rows are added or moved, and keep their timestamps; batches are added, and keep
\* all but their status.
RowsKept ==
  \A d \in Decision : rows[d] # NoRow => rows'[d] # NoRow /\ rows'[d].timestamp = rows[d].timestamp

BatchesKept ==
  /\ Len(batches') \in Nat /\ Len(batches) <= Len(batches')
  /\ \A b \in 1..Len(batches) :
       /\ batches'[b].leaves = batches[b].leaves /\ batches'[b].present = batches[b].present
       /\ batches'[b].start = batches[b].start /\ batches'[b].end = batches[b].end
       /\ batches'[b].by = batches[b].by /\ batches'[b].answered = batches[b].answered

NoneAddedBy(r) == \A b \in 1..Len(batches') : b \in 1..Len(batches) \/ batches'[b].by # r

SameTables == rows' = rows /\ BatchesKept /\ Len(batches') = Len(batches)

LEMMA LeafKept ==
  ASSUME BatchesKept, NEW b \in 1..Len(batches), NEW d
  PROVE  LeafOf(d, b)' <=> LeafOf(d, b)
  BY DEF BatchesKept, LeafOf

\* A loop keeps what it carries while others work.
LEMMA CarriedKept ==
  ASSUME TInv, NEW r \in Replica, loop'[r] = loop[r], cursor'[r] = cursor[r],
         RowsKept, BatchesKept, NoneAddedBy(r)
  PROVE  Carried(r)'
<1>1. Carried(r) /\ loop[r] \in LoopType
  BY LoopOf DEF TInv
<1>2. Len(batches) \in Nat /\ Len(batches') \in Nat /\ \A b \in 1..Len(batches) : b \in 1..Len(batches')
  BY BatchFields DEF TInv, BatchesKept
<1>3. \A b \in 1..Len(batches') : batches'[b].by = r => b \in 1..Len(batches)
  BY DEF NoneAddedBy
<1>4. Ahead(r)'
  <2>1. loop[r] # Down => \A b \in 1..Len(batches') :
          (batches'[b].by = r /\ batches'[b].answered) => batches'[b].end <= cursor[r]
    BY <1>1, <1>3 DEF Carried, Ahead, BatchesKept
  <2>2. loop[r].pc \in {"opened", "loaded"} => \A d \in loop[r].present : rows'[d] # NoRow
    BY <1>1, LoopKind DEF Carried, Ahead, RowsKept
  <2>. QED
    BY <1>1, <2>1, <2>2 DEF Carried, Ahead
<1>5. Chosen(r)'
  <2> SUFFICES ASSUME loop[r].pc = "loaded" PROVE Chosen(r)'
    BY DEF Chosen
  <2>1. loop[r].leaves \in Seq(Decision) /\ loop[r].present \subseteq Decision
    BY <1>1, LoopKind
  <2>2. Chosen(r) /\ Ahead(r)
    BY <1>1 DEF Carried
  <2>3. \A i \in 1..Len(loop[r].leaves) :
          /\ rows'[loop[r].leaves[i]] # NoRow
          /\ rows'[loop[r].leaves[i]].timestamp = rows[loop[r].leaves[i]].timestamp
    BY <2>1, <2>2 DEF Chosen, RowsKept
  <2>4. \A d \in loop[r].present : rows'[d].timestamp = rows[d].timestamp
    BY <2>1, <2>2 DEF Ahead, RowsKept
  <2>5. \A i \in 1..Len(loop[r].leaves) : \A b \in 1..Len(batches') :
          batches'[b].by = r => ~LeafOf(loop[r].leaves[i], b)'
    <3> SUFFICES ASSUME NEW i \in 1..Len(loop[r].leaves), NEW b \in 1..Len(batches'), batches'[b].by = r
                 PROVE  ~LeafOf(loop[r].leaves[i], b)'
      OBVIOUS
    <3>1. b \in 1..Len(batches) /\ batches[b].by = r
      BY <1>3 DEF BatchesKept
    <3>2. ~LeafOf(loop[r].leaves[i], b)
      BY <2>2, <3>1 DEF Chosen
    <3>. QED
      BY <3>1, <3>2 DEF LeafOf, BatchesKept
  <2>6. \A d \in loop[r].present : InWindow(d, loop[r].start, loop[r].end) =>
          \/ \E i \in 1..Len(loop[r].leaves) : loop[r].leaves[i] = d
          \/ \E b \in 1..Len(batches') : LeafOf(d, b)'
    <3> SUFFICES ASSUME NEW d \in loop[r].present, InWindow(d, loop[r].start, loop[r].end),
                        ~\E i \in 1..Len(loop[r].leaves) : loop[r].leaves[i] = d
                 PROVE  \E b \in 1..Len(batches') : LeafOf(d, b)'
      OBVIOUS
    <3>1. PICK b \in 1..Len(batches) : LeafOf(d, b)
      BY <2>2 DEF Chosen
    <3>2. b \in 1..Len(batches') /\ LeafOf(d, b)'
      BY <1>2, <3>1 DEF LeafOf, BatchesKept
    <3>. QED
      BY <3>2
  <2>7. \A i \in 1..Len(loop[r].leaves) :
          InWindow(loop[r].leaves[i], loop[r].start, loop[r].end)
            => loop[r].start < rows'[loop[r].leaves[i]].timestamp /\ rows'[loop[r].leaves[i]].timestamp <= loop[r].end
    BY <2>3 DEF InWindow
  <2>8. \A d \in loop[r].present :
          (loop[r].start < rows'[d].timestamp /\ rows'[d].timestamp <= loop[r].end)
            => InWindow(d, loop[r].start, loop[r].end)
    BY <2>4 DEF InWindow
  <2>9. /\ Len(loop[r].leaves) > 0
        /\ \A i, j \in 1..Len(loop[r].leaves) : loop[r].leaves[i] = loop[r].leaves[j] => i = j
        /\ \A i \in 1..Len(loop[r].leaves) : InWindow(loop[r].leaves[i], loop[r].start, loop[r].end)
    BY <2>2 DEF Chosen
  <2>. HIDE DEF LeafOf
  <2>. QED
    BY <2>3, <2>5, <2>6, <2>7, <2>8, <2>9 DEF Chosen, InWindow
<1>6. InHand(r)'
  BY <1>1, <1>2 DEF Carried, InHand, BatchesKept
<1>. QED
  BY <1>4, <1>5, <1>6 DEF Carried

\* One replica moves: what the others carry is kept.
LEMMA OneMoves ==
  ASSUME TInv, NEW r \in Replica, Types', Table', Carried(r)', RowsKept, BatchesKept,
         \A s \in Replica \ {r} : loop'[s] = loop[s] /\ cursor'[s] = cursor[s] /\ NoneAddedBy(s)
  PROVE  TInv'
<1>1. \A s \in Replica \ {r} : Carried(s)'
  BY CarriedKept
<1>. QED
  BY <1>1 DEF TInv

LEMMA TableKept ==
  ASSUME Types, Types', Table, SameTables
  PROVE  Table'
<1>1. /\ DOMAIN batches' = 1..Len(batches) /\ DOMAIN batches = 1..Len(batches) /\ Len(batches') = Len(batches)
      /\ rows' = rows
  BY DEF Types, SameTables
<1>2. \A b \in 1..Len(batches) :
       /\ batches'[b].leaves = batches[b].leaves /\ batches'[b].present = batches[b].present
       /\ batches'[b].start = batches[b].start /\ batches'[b].end = batches[b].end
       /\ batches'[b].by = batches[b].by /\ batches'[b].answered = batches[b].answered
  BY DEF SameTables, BatchesKept
<1>3. \A d : \A b \in 1..Len(batches) : LeafOf(d, b)' <=> LeafOf(d, b)
  BY <1>2 DEF LeafOf
<1>4. LeavesPointBack /\ WindowsDisjoint /\ WindowComplete
  BY DEF Table
<1>. HIDE DEF LeafOf
<1>5. LeavesPointBack'
  BY ONLY <1>1, <1>2, <1>3, <1>4 DEF LeavesPointBack
<1>6. WindowsDisjoint'
  <2>1. \A b, c \in 1..Len(batches) :
          (b < c /\ batches'[b].by = batches'[c].by /\ batches'[b].answered)
            => batches'[b].end <= batches'[c].start
    BY <1>1, <1>2, <1>4 DEF WindowsDisjoint
  <2>2. \A b \in 1..Len(batches) : \A i \in DOMAIN batches'[b].leaves :
          /\ batches'[b].start < rows'[batches'[b].leaves[i]].timestamp
          /\ rows'[batches'[b].leaves[i]].timestamp <= batches'[b].end
    BY <1>1, <1>2, <1>4 DEF WindowsDisjoint
  <2>. QED
    BY <1>1, <2>1, <2>2 DEF WindowsDisjoint
<1>7. WindowComplete'
  <2>1. ASSUME NEW b \in 1..Len(batches), NEW d \in batches[b].present,
               batches[b].start < rows[d].timestamp, rows[d].timestamp <= batches[b].end
        PROVE  \E c \in 1..b : LeafOf(d, c)'
    <3>1. PICK c \in 1..b : LeafOf(d, c)
      BY <1>1, <1>4, <2>1 DEF WindowComplete
    <3>2. c \in 1..Len(batches)
      BY BatchFields
    <3>. QED
      BY <1>3, <3>1, <3>2
  <2>2. \A b \in 1..Len(batches) : \A d \in batches'[b].present :
          (batches'[b].start < rows'[d].timestamp /\ rows'[d].timestamp <= batches'[b].end)
            => \E c \in 1..b : LeafOf(d, c)'
    BY <1>1, <1>2, <2>1
  <2>. QED
    BY <1>1, <2>2 DEF WindowComplete
<1>8. /\ \A b \in 1..Len(batches') :
           /\ Len(batches'[b].leaves) > 0
           /\ \A d \in batches'[b].present : rows'[d] # NoRow
      /\ \A d \in Decision : (rows'[d] # NoRow /\ rows'[d].batch # 0) =>
           /\ rows'[d].batch \in 1..Len(batches')
           /\ rows'[d].index \in 1..Len(batches'[rows'[d].batch].leaves)
      /\ Len(batches') > 0 =>
           \E b \in 1..Len(batches') : \A c \in 1..Len(batches') : batches'[c].end <= batches'[b].end
  BY <1>1, <1>2 DEF Table
<1>. QED
  BY <1>5, <1>6, <1>7, <1>8 DEF Table

\* The tables, and the loop of no replica but one, change.
LEMMA LoopMoves ==
  ASSUME TInv, NEW r \in Replica, NEW l \in LoopType, NEW c \in Int, SameTables,
         batches' \in Seq(BatchType), now' \in Nat, started' \in [Replica -> Nat],
         loop' = [loop EXCEPT ![r] = l], cursor' = [cursor EXCEPT ![r] = c]
  PROVE  /\ Types' /\ loop'[r] = l /\ cursor'[r] = c
         /\ Carried(r)' => TInv'
<1>1. /\ loop' \in [Replica -> LoopType] /\ cursor' \in [Replica -> Int] /\ loop'[r] = l /\ cursor'[r] = c
      /\ \A s \in Replica \ {r} : loop'[s] = loop[s] /\ cursor'[s] = cursor[s]
  BY DEF TInv, Types
<1>2. Types'
  BY <1>1 DEF TInv, Types, SameTables
<1>3. Table'
  BY <1>2, TableKept DEF TInv
<1>4. RowsKept /\ BatchesKept /\ \A s \in Replica \ {r} : NoneAddedBy(s)
  BY DEF SameTables, RowsKept, NoneAddedBy
<1>. QED
  BY <1>1, <1>2, <1>3, <1>4, OneMoves

\* A loop begins to wait.
LEMMA GoesToWait ==
  ASSUME TInv, NEW r \in Replica, SameTables, batches' \in Seq(BatchType),
         now' \in Nat, started' \in [Replica -> Nat],
         NEW due \in Nat, NEW c \in Int,
         loop' = [loop EXCEPT ![r] = Waiting(due)], cursor' = [cursor EXCEPT ![r] = c],
         \A b \in 1..Len(batches) : (batches[b].by = r /\ batches[b].answered) => batches[b].end <= c
  PROVE  TInv'
<1>1. PICK l \in LoopType : l = Waiting(due)
  BY DEF Waiting, LoopType
<1>2. l.pc = "waiting"
  BY <1>1 DEF Waiting
<1>3. Types' /\ loop'[r] = l /\ cursor'[r] = c /\ (Carried(r)' => TInv')
  BY <1>1, LoopMoves
<1>4. Ahead(r)'
  BY <1>2, <1>3 DEF Ahead, SameTables, BatchesKept
<1>5. Chosen(r)' /\ InHand(r)'
  BY <1>2, <1>3 DEF Chosen, InHand, Sending
<1>. QED
  BY <1>3, <1>4, <1>5 DEF Carried

\* Neither the loops nor the tables.
LEMMA ElsewhereInv ==
  ASSUME TInv, UNCHANGED <<rows, batches, started, cursor, loop>>, now' \in Nat
  PROVE  TInv'
<1>1. SameTables
  BY BatchFields DEF SameTables, BatchesKept, TInv
<1>2. Types'
  BY DEF TInv, Types
<1>3. Table'
  BY <1>1, <1>2, TableKept DEF TInv
<1>4. \A r \in Replica : Carried(r)'
  <2> SUFFICES ASSUME NEW r \in Replica PROVE Carried(r)'
    OBVIOUS
  <2>1. RowsKept /\ BatchesKept /\ NoneAddedBy(r) /\ loop'[r] = loop[r] /\ cursor'[r] = cursor[r]
    BY <1>1 DEF SameTables, RowsKept, NoneAddedBy
  <2>. QED
    BY <2>1, CarriedKept
<1>. QED
  BY <1>2, <1>3, <1>4 DEF TInv

LEMMA StampsAreNat ==
  ASSUME Types, NEW r \in Replica
  PROVE  Stamps(r) \subseteq Nat
<1>1. started[r] \in Nat /\ now \in Nat /\ Supplied \subseteq Nat
  BY BatchAssumption DEF Types
<1>2. \A t \in started[r]..now : t \in Nat
  BY <1>1
<1>. QED
  BY <1>1, <1>2 DEF Stamps

LEMMA RecordInv ==
  ASSUME TInv, NEW r \in Replica, NEW d \in Decision, RecordDecision(r, d)
  PROVE  TInv'
<1>1. PICK timestamp \in Stamps(r) :
        rows' = [rows EXCEPT ![d] = IF @ # NoRow THEN @
                   ELSE [timestamp |-> timestamp, batch |-> 0, index |-> 0]]
  BY DEF RecordDecision
<1>0. UNCHANGED <<now, batches, started, cursor, loop>> /\ timestamp \in Nat
  BY StampsAreNat DEF RecordDecision, TInv
<1>2. /\ rows' \in [Decision -> RowType \cup {NoRow}]
      /\ \A e \in Decision : rows[e] # NoRow => rows'[e] = rows[e]
      /\ \A e \in Decision : rows'[e] # NoRow => rows'[e] = rows[e] \/ rows'[e].batch = 0
  BY <1>0, <1>1 DEF TInv, Types, RowType
<1>3. Types'
  BY <1>0, <1>2 DEF TInv, Types
<1>4. /\ RowsKept /\ BatchesKept /\ DOMAIN batches = 1..Len(batches)
      /\ \A b \in 1..Len(batches) : /\ DOMAIN batches[b].leaves = 1..Len(batches[b].leaves)
                                    /\ batches[b].present \subseteq Decision
                                    /\ \A i \in 1..Len(batches[b].leaves) : batches[b].leaves[i] \in Decision
  BY <1>0, <1>2, BatchFields DEF RowsKept, BatchesKept, TInv
<1>5. LeavesPointBack /\ WindowsDisjoint /\ WindowComplete
  BY DEF TInv, Table
<1>6. \A b \in 1..Len(batches) : \A i \in 1..Len(batches[b].leaves) :
        /\ rows[batches[b].leaves[i]] # NoRow
        /\ rows'[batches[b].leaves[i]] = rows[batches[b].leaves[i]]
  BY <1>2, <1>4, <1>5 DEF LeavesPointBack
<1>7. \A b \in 1..Len(batches) : \A e \in batches[b].present : rows[e] # NoRow /\ rows'[e] = rows[e]
  BY <1>2, <1>4 DEF TInv, Table
<1>8. \A e, b : LeafOf(e, b)' <=> LeafOf(e, b)
  BY <1>0 DEF LeafOf
<1>9. LeavesPointBack'
  <2>1. \A b \in DOMAIN batches' : \A i \in DOMAIN batches'[b].leaves :
          LET row == rows'[batches'[b].leaves[i]]
          IN  row # NoRow /\ row.batch >= b /\ (row.batch = b => row.index = i)
    BY <1>0, <1>4, <1>5, <1>6 DEF LeavesPointBack
  <2>2. \A e \in Decision : (rows'[e] # NoRow /\ rows'[e].batch # 0)
           => rows'[e].batch \in DOMAIN batches' /\ batches'[rows'[e].batch].leaves[rows'[e].index] = e
    BY <1>0, <1>2, <1>5 DEF LeavesPointBack
  <2>. HIDE DEF LeafOf
  <2>3. \A b, c \in DOMAIN batches' : \A e \in Decision :
          (LeafOf(e, b)' /\ LeafOf(e, c)' /\ batches'[b].by = batches'[c].by) => b = c
    BY <1>0, <1>5, <1>8 DEF LeavesPointBack
  <2>. QED
    BY <2>1, <2>2, <2>3 DEF LeavesPointBack
<1>10. WindowsDisjoint'
  <2>1. \A b \in DOMAIN batches' : \A i \in DOMAIN batches'[b].leaves :
          rows'[batches'[b].leaves[i]] = rows[batches[b].leaves[i]]
    BY <1>0, <1>4, <1>6
  <2>. QED
    BY <1>0, <1>5, <2>1 DEF WindowsDisjoint
<1>11. WindowComplete'
  <2>. HIDE DEF LeafOf
  <2>. QED
    BY <1>0, <1>4, <1>5, <1>7, <1>8 DEF WindowComplete
<1>12. Table'
  <2>1. \A e \in Decision : (rows'[e] # NoRow /\ rows'[e].batch # 0) =>
          /\ rows'[e].batch \in 1..Len(batches')
          /\ rows'[e].index \in 1..Len(batches'[rows'[e].batch].leaves)
    BY <1>0, <1>2 DEF TInv, Table
  <2>. QED
    BY <1>0, <1>7, <1>9, <1>10, <1>11, <2>1 DEF TInv, Table
<1>13. \A s \in Replica : Carried(s)'
  <2> SUFFICES ASSUME NEW s \in Replica PROVE Carried(s)'
    OBVIOUS
  <2>1. NoneAddedBy(s) /\ loop'[s] = loop[s] /\ cursor'[s] = cursor[s]
    BY <1>0 DEF NoneAddedBy
  <2>. QED
    BY <1>4, <2>1, CarriedKept
<1>. QED
  BY <1>3, <1>12, <1>13 DEF TInv

\* The greatest end: there is one.
LEMMA LastEnd ==
  ASSUME Types, Table, Len(batches) > 0
  PROVE  LastWindowEnd \in Int /\ \A b \in 1..Len(batches) : batches[b].end <= LastWindowEnd
<1>1. DOMAIN batches = 1..Len(batches) /\ \A b \in 1..Len(batches) : batches[b].end \in Int
  BY BatchFields
<1> DEFINE E == {batches[b].end : b \in DOMAIN batches}
<1>2. \E end \in E : \A b \in DOMAIN batches : batches[b].end <= end
  BY <1>1 DEF Table
<1>3. LastWindowEnd \in E /\ \A b \in DOMAIN batches : batches[b].end <= LastWindowEnd
  BY <1>2 DEF LastWindowEnd
<1>. QED
  BY <1>1, <1>3

LEMMA StartInv ==
  ASSUME TInv, NEW r \in Replica, Start(r)
  PROVE  TInv'
<1>1. /\ cursor' = [cursor EXCEPT ![r] = CursorAtStart] /\ loop' = [loop EXCEPT ![r] = Waiting(now)]
      /\ started' = [started EXCEPT ![r] = now] /\ UNCHANGED <<now, rows, batches>>
  BY DEF Start
<1>2. CursorAtStart \in Int /\ \A b \in 1..Len(batches) : batches[b].end <= CursorAtStart
  <2>1. CASE batches = <<>>
    <3>1. CursorAtStart = now - Interval /\ Len(batches) = 0
      BY <2>1 DEF CursorAtStart
    <3>. QED
      BY <3>1, BatchAssumption DEF TInv, Types
  <2>2. CASE batches # <<>>
    <3>1. Len(batches) > 0
      BY <2>2 DEF TInv, Types
    <3>. QED
      BY <2>2, <3>1, LastEnd DEF TInv, CursorAtStart
  <2>. QED
    BY <2>1, <2>2
<1>3. SameTables /\ now \in Nat /\ now' \in Nat /\ batches' \in Seq(BatchType) /\ started' \in [Replica -> Nat]
  BY <1>1, BatchFields DEF SameTables, BatchesKept, TInv, Types
<1>. QED
  BY <1>1, <1>2, <1>3, GoesToWait

LEMMA StopInv ==
  ASSUME TInv, NEW r \in Replica, Stop(r)
  PROVE  TInv'
<1>1. /\ loop' = [loop EXCEPT ![r] = Down] /\ cursor' = [cursor EXCEPT ![r] = 0]
      /\ started' = [started EXCEPT ![r] = 0] /\ UNCHANGED <<now, rows, batches>>
  BY DEF Stop
<1>2. SameTables /\ now' \in Nat /\ batches' \in Seq(BatchType) /\ started' \in [Replica -> Nat]
  BY <1>1, BatchFields DEF SameTables, BatchesKept, TInv, Types
<1>3. Down.pc = "down" /\ Down \in LoopType
  BY DEF Down, LoopType
<1>a. PICK l \in LoopType, c \in Int : l = Down /\ c = 0
  BY <1>3
<1>b. loop' = [loop EXCEPT ![r] = l] /\ cursor' = [cursor EXCEPT ![r] = c]
  BY <1>1, <1>a
<1>4. loop'[r] = Down /\ (Carried(r)' => TInv')
  BY <1>2, <1>a, <1>b, LoopMoves
<1>5. Carried(r)'
  BY <1>3, <1>4 DEF Carried, Ahead, Chosen, InHand, Sending
<1>. QED
  BY <1>4, <1>5

LEMMA OpenInv ==
  ASSUME TInv, NEW r \in Replica, OpenWindow(r)
  PROVE  TInv'
<1> DEFINE end == IF now <= cursor[r] THEN cursor[r] + Interval ELSE now
           present == {d \in Decision : rows[d] # NoRow}
           l == [pc |-> "opened", start |-> cursor[r], end |-> end, present |-> present]
<1>1. /\ loop[r].pc = "waiting" /\ loop' = [loop EXCEPT ![r] = l]
      /\ UNCHANGED <<now, started, rows, batches, cursor>>
  BY DEF OpenWindow
<1>2. end \in Int /\ cursor[r] < end /\ cursor[r] \in Int /\ loop[r] # Down
  BY <1>1, BatchAssumption, LoopOf, LoopKind DEF TInv, Types, Down
<1>3. SameTables /\ now' \in Nat /\ batches' \in Seq(BatchType) /\ started' \in [Replica -> Nat]
  BY <1>1, BatchFields DEF SameTables, BatchesKept, TInv, Types
<1>4. /\ l \in LoopType /\ l # Down /\ l.pc = "opened" /\ l.start = cursor[r] /\ l.end = end
      /\ l.present = present
  BY <1>2 DEF LoopType, Down
<1>5. cursor' = [cursor EXCEPT ![r] = cursor[r]]
  BY <1>1 DEF TInv, Types
<1>6. \A b \in 1..Len(batches) : (batches[b].by = r /\ batches[b].answered) => batches[b].end <= cursor[r]
  BY <1>2 DEF TInv, Carried, Ahead
<1>7. \A d \in present : rows[d] # NoRow
  OBVIOUS
<1>. HIDE DEF end, present, l
<1>a. PICK m \in LoopType, c \in Int : m = l /\ c = cursor[r]
  BY <1>2, <1>4
<1>b. loop' = [loop EXCEPT ![r] = m] /\ cursor' = [cursor EXCEPT ![r] = c]
  BY <1>1, <1>5, <1>a
<1>8. loop'[r] = l /\ cursor'[r] = cursor[r] /\ (Carried(r)' => TInv')
  BY <1>3, <1>a, <1>b, LoopMoves
<1>9. Ahead(r)'
  BY <1>1, <1>2, <1>4, <1>6, <1>7, <1>8 DEF Ahead
<1>10. Chosen(r)' /\ InHand(r)'
  BY <1>4, <1>8 DEF Chosen, InHand, Sending
<1>. QED
  BY <1>8, <1>9, <1>10 DEF Carried

\* A sequence in leaf order is one of different decisions, and of all of them.
LEMMA LeafOrder ==
  ASSUME Types, NEW S, S \subseteq {d \in Decision : rows[d] # NoRow}, S # {},
         NEW order \in InLeafOrder(S)
  PROVE  /\ order \in Seq(Decision) /\ Len(order) > 0
         /\ \A i \in 1..Len(order) : order[i] \in S
         /\ \A i, j \in 1..Len(order) : order[i] = order[j] => i = j
         /\ \A d \in S : \E i \in 1..Len(order) : order[i] = d
<1>1. Cardinality(S) \in Nat
  BY BatchAssumption, FS_Subset, FS_CardinalityType
<1>2. order \in [1..Cardinality(S) -> S]
  BY DEF InLeafOrder
<1>3. order \in Seq(Decision) /\ Len(order) = Cardinality(S) /\ DOMAIN order = 1..Len(order)
  BY <1>1, <1>2
<1>4. \A d \in S : \E i \in 1..Len(order) : order[i] = d
  BY <1>3 DEF InLeafOrder
<1>5. \A i, j \in 1..Len(order) : i < j => order[i] # order[j]
  <2> SUFFICES ASSUME NEW i \in 1..Len(order), NEW j \in 1..Len(order), i < j, order[i] = order[j]
               PROVE  FALSE
    OBVIOUS
  <2>1. Precedes(order[i], order[i])
    BY <1>3 DEF InLeafOrder
  <2>2. order[i] \in Nat /\ rows[order[i]].timestamp \in Nat
    BY <1>2, <1>3, BatchAssumption DEF Types, RowType
  <2>. QED
    BY <2>1, <2>2 DEF Precedes
<1>6. \A i, j \in 1..Len(order) : order[i] = order[j] => i = j
  <2> SUFFICES ASSUME NEW i \in 1..Len(order), NEW j \in 1..Len(order), order[i] = order[j]
               PROVE  i = j
    OBVIOUS
  <2>1. i < j \/ j < i \/ i = j
    BY <1>3
  <2>. QED
    BY <1>5, <2>1
<1>. QED
  BY <1>2, <1>3, <1>4, <1>6

\* What a load finds in its window and leaves out is a leaf already.
LEMMA LoadInv ==
  ASSUME TInv, NEW r \in Replica, LoadUnbatchedLeaves(r)
  PROVE  TInv'
<1> DEFINE found == Unbatched(loop[r].start, loop[r].end)
<1>0. loop[r].pc = "opened" /\ UNCHANGED <<now, started, rows, batches>>
  BY DEF LoadUnbatchedLeaves
<1>1. loop[r].start \in Int /\ loop[r].end \in Int /\ loop[r].present \subseteq Decision /\ loop[r] # Down
  BY <1>0, LoopOf, LoopKind DEF TInv, Down
<1>2. /\ loop[r].start = cursor[r] /\ loop[r].start < loop[r].end
      /\ \A b \in 1..Len(batches) : (batches[b].by = r /\ batches[b].answered) => batches[b].end <= cursor[r]
      /\ \A d \in loop[r].present : rows[d] # NoRow
  BY <1>0, <1>1 DEF TInv, Carried, Ahead
<1>3. SameTables /\ now' \in Nat /\ batches' \in Seq(BatchType) /\ started' \in [Replica -> Nat]
  BY <1>0, BatchFields DEF SameTables, BatchesKept, TInv, Types
<1>4. CASE found = {}
  <2>1. cursor' = [cursor EXCEPT ![r] = loop[r].end] /\ loop' = [loop EXCEPT ![r] = Waiting(now + Interval)]
    BY <1>4 DEF LoadUnbatchedLeaves
  <2>2. \A b \in 1..Len(batches) : (batches[b].by = r /\ batches[b].answered) => batches[b].end <= loop[r].end
    BY <1>1, <1>2, BatchFields DEF TInv
  <2>3. now + Interval \in Nat
    BY BatchAssumption DEF TInv, Types
  <2>. QED
    BY <1>1, <1>3, <2>1, <2>2, <2>3, GoesToWait
<1>5. CASE found # {}
  <2>1. PICK order \in InLeafOrder(found) :
          loop' = [loop EXCEPT ![r] =
                     [pc |-> "loaded", start |-> loop[r].start, end |-> loop[r].end,
                      present |-> loop[r].present, leaves |-> order]]
    BY <1>5 DEF LoadUnbatchedLeaves
  <2>2. cursor' = cursor
    BY <1>5 DEF LoadUnbatchedLeaves
  <2>3. \A d \in found : /\ d \in Decision /\ rows[d] # NoRow /\ rows[d].batch = 0
                         /\ InWindow(d, loop[r].start, loop[r].end)
    BY DEF Unbatched, InWindow
  <2>4. \A d \in loop[r].present :
          (InWindow(d, loop[r].start, loop[r].end) /\ d \notin found) => \E b \in 1..Len(batches) : LeafOf(d, b)
    <3> SUFFICES ASSUME NEW d \in loop[r].present, InWindow(d, loop[r].start, loop[r].end), d \notin found
                 PROVE  \E b \in 1..Len(batches) : LeafOf(d, b)
      OBVIOUS
    <3>1. d \in Decision /\ rows[d] # NoRow /\ rows[d].batch # 0
      BY <1>1, <1>2 DEF Unbatched, InWindow
    <3>2. /\ rows[d].batch \in DOMAIN batches
          /\ batches[rows[d].batch].leaves[rows[d].index] = d
          /\ rows[d].index \in DOMAIN batches[rows[d].batch].leaves
      BY <3>1, BatchFields DEF TInv, Table, LeavesPointBack
    <3>. QED
      BY <3>2, BatchFields DEF LeafOf, TInv
  <2>5. /\ order \in Seq(Decision) /\ Len(order) > 0
        /\ \A i \in 1..Len(order) : order[i] \in found
        /\ \A i, j \in 1..Len(order) : order[i] = order[j] => i = j
        /\ \A d \in found : \E i \in 1..Len(order) : order[i] = d
    <3>1. found \subseteq {d \in Decision : rows[d] # NoRow}
      BY <2>3
    <3>. HIDE DEF found
    <3>. QED
      BY <1>5, <3>1, LeafOrder DEF TInv
  <2>. HIDE DEF found
  <2>6. PICK l \in LoopType, c \in Int :
          /\ l = [pc |-> "loaded", start |-> loop[r].start, end |-> loop[r].end,
                  present |-> loop[r].present, leaves |-> order]
          /\ c = cursor[r]
    BY <1>1, <1>2, <2>5, LoopOf DEF LoopType, TInv
  <2>7. /\ l.pc = "loaded" /\ l.start = loop[r].start /\ l.end = loop[r].end
        /\ l.present = loop[r].present /\ l.leaves = order /\ l # Down
    BY <2>6 DEF Down
  <2>8. loop' = [loop EXCEPT ![r] = l] /\ cursor' = [cursor EXCEPT ![r] = c]
    BY <2>1, <2>2, <2>6 DEF TInv, Types
  <2>9. loop'[r] = l /\ cursor'[r] = cursor[r] /\ (Carried(r)' => TInv')
    BY <1>3, <2>6, <2>8, LoopMoves
  <2>10. Ahead(r)'
    BY <1>0, <1>2, <2>7, <2>9 DEF Ahead
  <2>11. \A d \in found : \A b \in 1..Len(batches) : ~LeafOf(d, b)
    <3> SUFFICES ASSUME NEW d \in found, NEW b \in 1..Len(batches), LeafOf(d, b) PROVE FALSE
      OBVIOUS
    <3>1. PICK i \in DOMAIN batches[b].leaves : batches[b].leaves[i] = d
      BY DEF LeafOf
    <3>2. rows[d].batch >= b
      BY <3>1, BatchFields DEF TInv, Table, LeavesPointBack
    <3>. QED
      BY <2>3, <3>2
  <2>12. Chosen(r)'
    <3>1. \A d, b : LeafOf(d, b)' <=> LeafOf(d, b)
      BY <1>0 DEF LeafOf
    <3>2. \A d : InWindow(d, l.start, l.end)' <=> InWindow(d, l.start, l.end)
      BY <1>0 DEF InWindow
    <3>3. /\ Len(order) > 0
          /\ \A i \in 1..Len(order) :
               /\ rows[order[i]] # NoRow
               /\ InWindow(order[i], loop[r].start, loop[r].end)
               /\ \A b \in 1..Len(batches) : ~LeafOf(order[i], b)
          /\ \A i, j \in 1..Len(order) : order[i] = order[j] => i = j
          /\ \A d \in loop[r].present : InWindow(d, loop[r].start, loop[r].end) =>
               \/ \E i \in 1..Len(order) : order[i] = d
               \/ \E b \in 1..Len(batches) : LeafOf(d, b)
      <4>. HIDE DEF LeafOf, InWindow
      <4>. QED
        BY <2>3, <2>4, <2>5, <2>11
    <3>. HIDE DEF LeafOf, InWindow
    <3>. QED
      BY <1>0, <2>7, <2>9, <3>1, <3>2, <3>3 DEF Chosen, InWindow
  <2>13. InHand(r)'
    BY <2>7, <2>9 DEF InHand, Sending
  <2>. QED
    BY <2>9, <2>10, <2>12, <2>13 DEF Carried
<1>. QED
  BY <1>4, <1>5

\* _persist_batch: the leaves in hand point to the new batch, and no others are
\* touched.
LEMMA PersistRows ==
  ASSUME TInv, NEW r \in Replica, loop[r].pc = "loaded", rows' = RowsBatched(r)
  PROVE  /\ rows' \in [Decision -> RowType \cup {NoRow}]
         /\ \A d \in Decision : ~Batched(r, d) => rows'[d] = rows[d]
         /\ \A d \in Decision : Batched(r, d) =>
              /\ rows[d] # NoRow
              /\ rows'[d] # NoRow /\ rows'[d].timestamp = rows[d].timestamp
              /\ rows'[d].batch = Len(batches) + 1 /\ rows'[d].index \in 1..Len(loop[r].leaves)
              /\ loop[r].leaves[rows'[d].index] = d
<1>1. loop[r].leaves \in Seq(Decision) /\ DOMAIN loop[r].leaves = 1..Len(loop[r].leaves)
  BY LoopOf, LoopKind DEF TInv
<1> DEFINE At(d) == CHOOSE i \in DOMAIN loop[r].leaves : loop[r].leaves[i] = d
<1>2. \A d \in Decision : Batched(r, d) => At(d) \in 1..Len(loop[r].leaves) /\ loop[r].leaves[At(d)] = d
  BY <1>1 DEF Batched
<1>3. \A d \in Decision : Batched(r, d) => rows[d] # NoRow
  BY <1>1 DEF TInv, Carried, Chosen, Batched
<1>4. \A d \in Decision : rows'[d] =
        IF Batched(r, d) THEN [rows[d] EXCEPT !.batch = Len(batches) + 1, !.index = At(d)] ELSE rows[d]
  BY DEF RowsBatched
<1>. HIDE DEF At
<1>5. Len(batches) + 1 \in Nat
  BY DEF TInv, Types
<1>6. ASSUME NEW d \in Decision, Batched(r, d)
      PROVE  /\ rows'[d] \in RowType /\ rows'[d].timestamp = rows[d].timestamp
             /\ rows'[d].batch = Len(batches) + 1 /\ rows'[d].index = At(d)
  <2>1. rows[d] \in RowType
    BY <1>3, <1>6 DEF TInv, Types
  <2>2. At(d) \in Nat
    BY <1>1, <1>2, <1>6
  <2>. QED
    BY <1>4, <1>5, <1>6, <2>1, <2>2 DEF RowType
<1>7. rows' = [d \in Decision |-> rows'[d]]
  <2> DEFINE New(d) == IF Batched(r, d)
                       THEN [rows[d] EXCEPT !.batch = Len(batches) + 1, !.index = At(d)]
                       ELSE rows[d]
  <2>1. rows' = [d \in Decision |-> New(d)]
    BY DEF RowsBatched, At
  <2>. HIDE DEF New
  <2>. QED
    BY <2>1
<1>8. \A d \in Decision : rows'[d] \in RowType \cup {NoRow}
  BY <1>4, <1>6 DEF TInv, Types
<1>9. \A row \in RowType : row # NoRow
  BY BatchAssumption DEF RowType
<1>. QED
  BY <1>2, <1>3, <1>4, <1>6, <1>7, <1>8, <1>9

\* The new batch and its rows, whether or not the replica learns of them.
LEMMA PersistTables ==
  ASSUME TInv, NEW r \in Replica, NEW answered \in BOOLEAN, loop[r].pc = "loaded",
         batches' = Append(batches, NewBatch(r, answered)), rows' = RowsBatched(r)
  PROVE  /\ Table' /\ RowsKept /\ BatchesKept
         /\ rows' \in [Decision -> RowType \cup {NoRow}] /\ batches' \in Seq(BatchType)
         /\ Len(batches') = Len(batches) + 1
         /\ \A s \in Replica \ {r} : NoneAddedBy(s)
         /\ \A b \in 1..Len(batches') : b \in 1..Len(batches) \/ b = Len(batches) + 1
         /\ batches'[Len(batches) + 1] = NewBatch(r, answered)
<1>n. PICK n : n = Len(batches) + 1
  OBVIOUS
<1> DEFINE new == NewBatch(r, answered)
           chosen == loop[r].leaves
<1>1. /\ loop[r].start \in Int /\ loop[r].end \in Int /\ loop[r].present \subseteq Decision
      /\ chosen \in Seq(Decision) /\ loop[r] # Down /\ DOMAIN chosen = 1..Len(chosen)
  BY LoopOf, LoopKind DEF TInv, Down
<1>2. /\ new \in BatchType /\ new.leaves = chosen /\ new.present = loop[r].present
      /\ new.start = loop[r].start /\ new.end = loop[r].end /\ new.by = r /\ new.answered = answered
  BY <1>1 DEF NewBatch, BatchType, Status
<1>a. /\ loop[r].start = cursor[r] /\ loop[r].start < loop[r].end
      /\ \A b \in 1..Len(batches) : (batches[b].by = r /\ batches[b].answered) => batches[b].end <= cursor[r]
      /\ \A d \in loop[r].present : rows[d] # NoRow
  BY <1>1 DEF TInv, Carried, Ahead
<1>b. /\ Len(chosen) > 0
      /\ \A i \in 1..Len(chosen) : /\ InWindow(chosen[i], loop[r].start, loop[r].end)
                                   /\ \A b \in 1..Len(batches) : batches[b].by = r => ~LeafOf(chosen[i], b)
      /\ \A i, j \in 1..Len(chosen) : chosen[i] = chosen[j] => i = j
      /\ \A d \in loop[r].present : InWindow(d, loop[r].start, loop[r].end) =>
           \/ \E i \in 1..Len(chosen) : chosen[i] = d
           \/ \E b \in 1..Len(batches) : LeafOf(d, b)
  BY DEF TInv, Carried, Chosen
<1>4. /\ rows' \in [Decision -> RowType \cup {NoRow}]
      /\ \A d \in Decision : ~Batched(r, d) => rows'[d] = rows[d]
      /\ \A d \in Decision : Batched(r, d) =>
           /\ rows[d] # NoRow
           /\ rows'[d] # NoRow /\ rows'[d].timestamp = rows[d].timestamp
           /\ rows'[d].batch = n /\ rows'[d].index \in 1..Len(chosen)
           /\ chosen[rows'[d].index] = d
  BY <1>n, PersistRows
<1>7. \A d \in Decision : Batched(r, d) <=> \E i \in 1..Len(chosen) : chosen[i] = d
  BY <1>1 DEF Batched
<1>. HIDE DEF new, chosen
<1>3. /\ batches' \in Seq(BatchType) /\ Len(batches') = n /\ n \in Nat /\ n > 0
      /\ \A b \in 1..Len(batches) : batches'[b] = batches[b] /\ b \in 1..n /\ b < n
      /\ batches'[n] = new /\ DOMAIN batches' = 1..n /\ n \in 1..n
      /\ \A b \in 1..n : b \in 1..Len(batches) \/ b = n
      /\ Len(batches) \in Nat /\ DOMAIN batches = 1..Len(batches)
  BY <1>2, <1>n DEF TInv, Types, new
<1>5. RowsKept
  BY <1>4 DEF RowsKept
<1>6. BatchesKept /\ \A s \in Replica \ {r} : NoneAddedBy(s)
  BY <1>2, <1>3 DEF BatchesKept, NoneAddedBy
<1>8. /\ \A d : LeafOf(d, n)' <=> \E i \in 1..Len(chosen) : chosen[i] = d
      /\ \A d : \A b \in 1..Len(batches) : LeafOf(d, b)' <=> LeafOf(d, b)
  BY <1>1, <1>2, <1>3 DEF LeafOf, chosen
<1>9. LeavesPointBack /\ WindowsDisjoint /\ WindowComplete
  BY DEF TInv, Table
<1>10. /\ \A b \in 1..Len(batches) : \A i \in 1..Len(batches[b].leaves) : batches[b].leaves[i] \in Decision
       /\ \A i \in 1..Len(chosen) : chosen[i] \in Decision
  BY <1>1, BatchFields DEF TInv, chosen
<1>11. LeavesPointBack'
  <2>1. ASSUME NEW b \in 1..n, NEW i \in DOMAIN batches'[b].leaves
        PROVE  LET row == rows'[batches'[b].leaves[i]]
               IN  row # NoRow /\ row.batch >= b /\ (row.batch = b => row.index = i)
    <3>1. CASE b = n
      <4>1. i \in 1..Len(chosen) /\ batches'[b].leaves = chosen
        BY <1>1, <1>2, <1>3, <2>1, <3>1 DEF chosen
      <4>2. chosen[i] \in Decision /\ Batched(r, chosen[i])
        BY <1>7, <1>10, <4>1
      <4>. QED
        BY <1>3, <1>4, <1>b, <3>1, <4>1, <4>2
    <3>2. CASE b \in 1..Len(batches)
      <4>1. batches'[b] = batches[b] /\ i \in 1..Len(batches[b].leaves) /\ b < n
        BY <1>3, <2>1, <3>2, BatchFields DEF TInv
      <4>2. LET row == rows[batches[b].leaves[i]]
            IN  row # NoRow /\ row.batch >= b /\ (row.batch = b => row.index = i)
        BY <1>3, <1>9, <2>1, <3>2, <4>1 DEF LeavesPointBack
      <4>3. CASE Batched(r, batches[b].leaves[i])
        BY <1>3, <1>4, <1>10, <3>2, <4>1, <4>3
      <4>4. CASE ~Batched(r, batches[b].leaves[i])
        BY <1>4, <1>10, <3>2, <4>1, <4>2, <4>4
      <4>. QED
        BY <4>3, <4>4
    <3>. QED
      BY <1>3, <3>1, <3>2
  <2>2. \A d \in Decision : (rows'[d] # NoRow /\ rows'[d].batch # 0)
           => rows'[d].batch \in DOMAIN batches' /\ batches'[rows'[d].batch].leaves[rows'[d].index] = d
    <3> SUFFICES ASSUME NEW d \in Decision, rows'[d] # NoRow, rows'[d].batch # 0
                 PROVE  rows'[d].batch \in DOMAIN batches' /\ batches'[rows'[d].batch].leaves[rows'[d].index] = d
      OBVIOUS
    <3>1. CASE Batched(r, d)
      BY <1>2, <1>3, <1>4, <3>1
    <3>2. CASE ~Batched(r, d)
      BY <1>3, <1>4, <1>9, <3>2 DEF LeavesPointBack
    <3>. QED
      BY <3>1, <3>2
  <2>3. ASSUME NEW b \in 1..n, NEW c \in 1..n, NEW d \in Decision,
               LeafOf(d, b)', LeafOf(d, c)', batches'[b].by = batches'[c].by
        PROVE  b = c
    <3>1. ASSUME NEW e \in 1..Len(batches), LeafOf(d, e)', LeafOf(d, n)', batches'[e].by = batches'[n].by
          PROVE  FALSE
      <4>1. LeafOf(d, e) /\ batches[e].by = r
        BY <1>2, <1>3, <1>8, <3>1
      <4>2. PICK i \in 1..Len(chosen) : chosen[i] = d
        BY <1>8, <3>1
      <4>. QED
        BY <1>b, <4>1, <4>2
    <3>2. CASE b \in 1..Len(batches) /\ c \in 1..Len(batches)
      <4>1. LeafOf(d, b) /\ LeafOf(d, c) /\ batches[b].by = batches[c].by
        BY <1>3, <1>8, <2>3, <3>2
      <4>. QED
        BY <1>3, <1>9, <3>2, <4>1 DEF LeavesPointBack
    <3>. HIDE DEF LeafOf
    <3>. QED
      BY <1>3, <2>3, <3>1, <3>2
  <2>. HIDE DEF LeafOf
  <2>. QED
    BY <1>3, <2>1, <2>2, <2>3 DEF LeavesPointBack
<1>12. WindowsDisjoint'
  <2>1. ASSUME NEW b \in 1..n, NEW c \in 1..n, b < c, batches'[b].by = batches'[c].by, batches'[b].answered
        PROVE  batches'[b].end <= batches'[c].start
    <3>1. b \in 1..Len(batches) /\ batches'[b] = batches[b]
      BY <1>3, <2>1
    <3>2. CASE c = n
      BY <1>2, <1>3, <1>a, <2>1, <3>1, <3>2
    <3>3. CASE c \in 1..Len(batches)
      BY <1>3, <1>9, <2>1, <3>1, <3>3 DEF WindowsDisjoint
    <3>. QED
      BY <1>3, <3>2, <3>3
  <2>2. ASSUME NEW b \in 1..n, NEW i \in DOMAIN batches'[b].leaves
        PROVE  /\ batches'[b].start < rows'[batches'[b].leaves[i]].timestamp
               /\ rows'[batches'[b].leaves[i]].timestamp <= batches'[b].end
    <3>1. CASE b = n
      <4>1. i \in 1..Len(chosen) /\ batches'[b].leaves = chosen
        BY <1>1, <1>2, <1>3, <2>2, <3>1 DEF chosen
      <4>2. chosen[i] \in Decision /\ Batched(r, chosen[i])
        BY <1>7, <1>10, <4>1
      <4>. QED
        BY <1>2, <1>3, <1>4, <1>b, <3>1, <4>1, <4>2 DEF InWindow
    <3>2. CASE b \in 1..Len(batches)
      <4>1. batches'[b] = batches[b] /\ i \in 1..Len(batches[b].leaves) /\ b \in DOMAIN batches
        BY <1>3, <2>2, <3>2, BatchFields DEF TInv
      <4>2. rows'[batches[b].leaves[i]].timestamp = rows[batches[b].leaves[i]].timestamp
        BY <1>4, <1>10, <3>2, <4>1
      <4>. QED
        BY <1>9, <2>2, <4>1, <4>2 DEF WindowsDisjoint
    <3>. QED
      BY <1>3, <3>1, <3>2
  <2>. QED
    BY <1>3, <2>1, <2>2 DEF WindowsDisjoint
<1>13. WindowComplete'
  <2>1. ASSUME NEW b \in 1..n, NEW d \in batches'[b].present,
               batches'[b].start < rows'[d].timestamp, rows'[d].timestamp <= batches'[b].end
        PROVE  \E c \in 1..b : LeafOf(d, c)'
    <3>1. CASE b = n
      <4>1. d \in loop[r].present /\ d \in Decision /\ rows[d] # NoRow
        BY <1>1, <1>2, <1>3, <1>a, <2>1, <3>1
      <4>2. InWindow(d, loop[r].start, loop[r].end)
        BY <1>2, <1>3, <1>4, <2>1, <3>1, <4>1 DEF InWindow
      <4>3. (\E i \in 1..Len(chosen) : chosen[i] = d) \/ \E c \in 1..Len(batches) : LeafOf(d, c)
        BY <1>b, <4>1, <4>2
      <4>. HIDE DEF LeafOf
      <4>. QED
        BY <1>3, <1>8, <3>1, <4>3
    <3>2. CASE b \in 1..Len(batches)
      <4>1. batches'[b] = batches[b] /\ d \in Decision /\ rows[d] # NoRow
        BY <1>3, <2>1, <3>2, BatchFields DEF TInv, Table
      <4>2. rows'[d].timestamp = rows[d].timestamp
        BY <1>4, <4>1
      <4>3. PICK c \in 1..b : LeafOf(d, c)
        BY <1>3, <1>9, <2>1, <3>2, <4>1, <4>2 DEF WindowComplete
      <4>4. c \in 1..Len(batches)
        BY <1>3, <3>2
      <4>. QED
        BY <1>8, <4>3, <4>4
    <3>. QED
      BY <1>3, <3>1, <3>2
  <2>. HIDE DEF LeafOf
  <2>. QED
    BY <1>3, <2>1 DEF WindowComplete
<1>14. \A b \in 1..n : /\ Len(batches'[b].leaves) > 0
                       /\ \A d \in batches'[b].present : rows'[d] # NoRow
  <2> SUFFICES ASSUME NEW b \in 1..n
               PROVE  /\ Len(batches'[b].leaves) > 0
                      /\ \A d \in batches'[b].present : rows'[d] # NoRow
    OBVIOUS
  <2>1. CASE b = n
    <3>1. batches'[b].leaves = chosen /\ batches'[b].present = loop[r].present
      BY <1>2, <1>3, <2>1
    <3>2. \A d \in loop[r].present : d \in Decision /\ rows[d] # NoRow
      BY <1>1, <1>a
    <3>3. \A d \in loop[r].present : rows'[d] # NoRow
      BY <1>4, <3>2
    <3>. QED
      BY <1>b, <3>1, <3>3
  <2>2. CASE b \in 1..Len(batches)
    BY <1>3, <1>4, <2>2, BatchFields DEF TInv, Table
  <2>. QED
    BY <1>3, <2>1, <2>2
<1>15. \A d \in Decision : (rows'[d] # NoRow /\ rows'[d].batch # 0) =>
         /\ rows'[d].batch \in 1..n
         /\ rows'[d].index \in 1..Len(batches'[rows'[d].batch].leaves)
  <2> SUFFICES ASSUME NEW d \in Decision, rows'[d] # NoRow, rows'[d].batch # 0
               PROVE  /\ rows'[d].batch \in 1..n
                      /\ rows'[d].index \in 1..Len(batches'[rows'[d].batch].leaves)
    OBVIOUS
  <2>1. CASE Batched(r, d)
    BY <1>2, <1>3, <1>4, <2>1
  <2>2. CASE ~Batched(r, d)
    BY <1>3, <1>4, <2>2 DEF TInv, Table
  <2>. QED
    BY <2>1, <2>2
<1>16. \E b \in 1..n : \A c \in 1..n : batches'[c].end <= batches'[b].end
  <2>1. new.end \in Int /\ \A b \in 1..Len(batches) : batches[b].end \in Int
    BY <1>1, <1>2, BatchFields DEF TInv
  <2> DEFINE Last(b) == \A c \in 1..n : batches'[c].end <= batches'[b].end
  <2>2. ASSUME \A b \in 1..Len(batches) : batches[b].end <= new.end PROVE Last(n)
    BY <1>3, <2>1, <2>2
  <2>3. ASSUME NEW b \in 1..Len(batches), new.end <= batches[b].end,
               \A c \in 1..Len(batches) : batches[c].end <= batches[b].end
        PROVE  Last(b) /\ b \in 1..n
    BY <1>3, <2>3
  <2>4. \/ \A b \in 1..Len(batches) : batches[b].end <= new.end
        \/ \E b \in 1..Len(batches) :
             new.end <= batches[b].end /\ \A c \in 1..Len(batches) : batches[c].end <= batches[b].end
    <3>1. CASE Len(batches) = 0
      BY <3>1
    <3>2. CASE Len(batches) > 0
      <4>1. PICK b \in 1..Len(batches) : \A c \in 1..Len(batches) : batches[c].end <= batches[b].end
        BY <3>2 DEF TInv, Table
      <4>2. new.end <= batches[b].end \/ batches[b].end <= new.end
        BY <2>1
      <4>. QED
        BY <2>1, <4>1, <4>2
    <3>. QED
      BY <1>3, <3>1, <3>2
  <2>5. (\E b \in 1..n : Last(b)) => \E b \in 1..n : \A c \in 1..n : batches'[c].end <= batches'[b].end
    OBVIOUS
  <2>. HIDE DEF Last
  <2>. QED
    BY <1>3, <2>2, <2>3, <2>4, <2>5
<1>17. Table'
  BY <1>3, <1>11, <1>12, <1>13, <1>14, <1>15, <1>16 DEF Table
<1>. QED
  BY <1>3, <1>4, <1>5, <1>6, <1>17, <1>n DEF new

LEMMA PersistInv ==
  ASSUME TInv, NEW r \in Replica, PersistBatch(r)
  PROVE  TInv'
<1>0. loop[r].pc = "loaded" /\ rows' = RowsBatched(r) /\ UNCHANGED <<now, started>>
  BY DEF PersistBatch
<1>1. PICK answered \in BOOLEAN :
        /\ batches' = Append(batches, NewBatch(r, answered))
        /\ \/ answered /\ GoOn(r)
           \/ ~answered /\ loop' = [loop EXCEPT ![r] = Waiting(now + Interval)] /\ UNCHANGED cursor
  BY DEF PersistBatch
<1>n. PICK n : n = Len(batches) + 1
  OBVIOUS
<1>2. /\ Table' /\ RowsKept /\ BatchesKept
      /\ rows' \in [Decision -> RowType \cup {NoRow}] /\ batches' \in Seq(BatchType)
      /\ Len(batches') = n /\ batches'[n] = NewBatch(r, answered)
      /\ \A s \in Replica \ {r} : NoneAddedBy(s)
      /\ \A b \in 1..n : b \in 1..Len(batches) \/ b = n
      /\ n \in Nat /\ n \in 1..n
  BY <1>0, <1>1, <1>n, PersistTables, BatchFields DEF TInv
<1>3. /\ loop[r].start \in Int /\ loop[r].end \in Int /\ loop[r].leaves \in Seq(Decision)
      /\ loop[r] # Down /\ cursor[r] \in Int
  BY <1>0, LoopOf, LoopKind DEF TInv, Down
<1>4. /\ loop[r].start = cursor[r] /\ loop[r].start < loop[r].end
      /\ \A b \in 1..Len(batches) : (batches[b].by = r /\ batches[b].answered) => batches[b].end <= cursor[r]
  BY <1>0, <1>3 DEF TInv, Carried, Ahead
<1>5. /\ NewBatch(r, answered).leaves = loop[r].leaves /\ NewBatch(r, answered).start = loop[r].start
      /\ NewBatch(r, answered).end = loop[r].end /\ NewBatch(r, answered).answered = answered
  BY DEF NewBatch
<1>6. PICK l \in LoopType, c \in Int :
        /\ loop' = [loop EXCEPT ![r] = l] /\ cursor' = [cursor EXCEPT ![r] = c]
        /\ \/ /\ answered /\ c = loop[r].end /\ l.pc = "persisted"
              /\ l.batch = n /\ l.root = loop[r].leaves /\ l.start = loop[r].start
           \/ ~answered /\ c = cursor[r] /\ l.pc = "waiting"
  <2>1. CASE answered
    <3>1. cursor' = [cursor EXCEPT ![r] = loop[r].end] /\ loop' = [loop EXCEPT ![r] = Persisted(r)]
      BY <1>1, <2>1 DEF GoOn
    <3>2. /\ Persisted(r) \in LoopType /\ Persisted(r).pc = "persisted" /\ Persisted(r).batch = n
          /\ Persisted(r).root = loop[r].leaves /\ Persisted(r).start = loop[r].start
      BY <1>2, <1>3, <1>n DEF Persisted, LoopType, Sending
    <3>. QED
      BY <1>3, <2>1, <3>1, <3>2
  <2>2. CASE ~answered
    <3>1. loop' = [loop EXCEPT ![r] = Waiting(now + Interval)] /\ cursor' = [cursor EXCEPT ![r] = cursor[r]]
      BY <1>1, <2>2 DEF TInv, Types
    <3>2. Waiting(now + Interval) \in LoopType /\ Waiting(now + Interval).pc = "waiting"
      BY BatchAssumption DEF Waiting, LoopType, TInv, Types
    <3>. QED
      BY <1>3, <2>2, <3>1, <3>2
  <2>. QED
    BY <2>1, <2>2
<1>7. /\ loop' \in [Replica -> LoopType] /\ cursor' \in [Replica -> Int] /\ loop'[r] = l /\ cursor'[r] = c
      /\ \A s \in Replica \ {r} : loop'[s] = loop[s] /\ cursor'[s] = cursor[s]
  BY <1>6 DEF TInv, Types
<1>8. Types'
  BY <1>0, <1>2, <1>7 DEF TInv, Types
<1>9. Ahead(r)'
  <2>1. ASSUME NEW b \in 1..n, batches'[b].by = r, batches'[b].answered PROVE batches'[b].end <= c
    <3>1. CASE b = n
      BY <1>2, <1>3, <1>5, <1>6, <2>1, <3>1
    <3>2. CASE b \in 1..Len(batches)
      <4>1. batches[b].end \in Int /\ batches[b].end <= cursor[r]
        BY <1>2, <1>4, <2>1, <3>2, BatchFields DEF TInv, BatchesKept
      <4>2. cursor[r] <= c
        BY <1>3, <1>4, <1>6
      <4>. QED
        BY <1>2, <1>3, <3>2, <4>1, <4>2 DEF BatchesKept
    <3>. QED
      BY <1>2, <3>1, <3>2
  <2>. QED
    BY <1>2, <1>6, <1>7, <2>1 DEF Ahead
<1>10. Chosen(r)' /\ InHand(r)'
  BY <1>2, <1>5, <1>6, <1>7 DEF Chosen, InHand, Sending
<1>. QED
  BY <1>2, <1>7, <1>8, <1>9, <1>10, OneMoves DEF Carried

\* A loop goes on with what it has sent or is about to send.
LEMMA SendingInv ==
  ASSUME TInv, NEW r \in Replica, UNCHANGED <<now, started, rows, cursor>>, SameTables,
         batches' \in Seq(BatchType), loop[r].pc \in Sending,
         NEW pc \in Sending, loop' = [loop EXCEPT ![r].pc = pc]
  PROVE  TInv'
<1>1. PICK l \in LoopType, c \in Int :
        /\ l = [loop[r] EXCEPT !.pc = pc] /\ c = cursor[r]
        /\ l.pc = pc /\ l.batch = loop[r].batch /\ l.root = loop[r].root /\ l.start = loop[r].start
  <2>1. loop[r] \in [pc : Sending, batch : Nat, root : Seq(Decision), start : Int] /\ cursor[r] \in Int
    BY LoopOf, LoopKind DEF TInv
  <2> DEFINE moved == [loop[r] EXCEPT !.pc = pc]
  <2>2. /\ moved \in [pc : Sending, batch : Nat, root : Seq(Decision), start : Int]
        /\ moved.pc = pc /\ moved.batch = loop[r].batch /\ moved.root = loop[r].root
        /\ moved.start = loop[r].start
    BY <2>1
  <2>. HIDE DEF moved
  <2>3. moved \in LoopType
    BY <2>2 DEF LoopType
  <2>. QED
    BY <2>1, <2>2, <2>3 DEF moved
<1>2. loop' = [loop EXCEPT ![r] = l] /\ cursor' = [cursor EXCEPT ![r] = c] /\ loop[r] # Down
  BY <1>1, LoopOf, LoopKind DEF TInv, Types, Sending
<1>3. loop'[r] = l /\ cursor'[r] = c /\ (Carried(r)' => TInv')
  <2>1. now' \in Nat /\ started' \in [Replica -> Nat]
    BY DEF TInv, Types
  <2>2. l \in LoopType /\ c \in Int
    OBVIOUS
  <2>. QED
    BY <1>2, <2>1, <2>2, LoopMoves
<1>4. Ahead(r)'
  <2>1. \A b \in 1..Len(batches) : (batches[b].by = r /\ batches[b].answered) => batches[b].end <= cursor[r]
    BY <1>2 DEF TInv, Carried, Ahead
  <2>. QED
    BY <1>1, <1>3, <2>1 DEF Ahead, SameTables, BatchesKept, Sending
<1>5. Chosen(r)'
  BY <1>1, <1>3 DEF Chosen, Sending
<1>6. InHand(r)'
  BY <1>1, <1>3 DEF TInv, Carried, InHand, SameTables, BatchesKept
<1>. QED
  BY <1>3, <1>4, <1>5, <1>6 DEF Carried

LEMMA CycleFailsInv ==
  ASSUME TInv, NEW r \in Replica, CycleFails(r)
  PROVE  TInv'
<1>1. /\ loop[r].pc # "down" /\ loop' = [loop EXCEPT ![r] = Waiting(now + Interval)]
      /\ UNCHANGED <<now, started, rows, batches, cursor>>
  BY DEF CycleFails
<1>2. /\ loop[r] # Down /\ now + Interval \in Nat /\ cursor[r] \in Int /\ batches' \in Seq(BatchType)
      /\ now' \in Nat /\ started' \in [Replica -> Nat] /\ cursor' = [cursor EXCEPT ![r] = cursor[r]]
  BY <1>1, LoopOf, LoopKind, BatchAssumption DEF TInv, Types
<1>3. SameTables
  BY <1>1, BatchFields DEF SameTables, BatchesKept, TInv
<1>4. \A b \in 1..Len(batches) : (batches[b].by = r /\ batches[b].answered) => batches[b].end <= cursor[r]
  BY <1>2 DEF TInv, Carried, Ahead
<1>5. PICK due \in Nat, c \in Int : due = now + Interval /\ c = cursor[r]
  BY <1>2
<1>6. /\ loop' = [loop EXCEPT ![r] = Waiting(due)] /\ cursor' = [cursor EXCEPT ![r] = c]
      /\ \A b \in 1..Len(batches) : (batches[b].by = r /\ batches[b].answered) => batches[b].end <= c
      /\ now' \in Nat /\ started' \in [Replica -> Nat] /\ batches' \in Seq(BatchType)
      /\ TInv /\ r \in Replica
  BY <1>1, <1>2, <1>3, <1>4, <1>5
<1>. QED
  BY ONLY <1>3, <1>5, <1>6, GoesToWait

\* The status of a batch changes, and nothing else of it.
LEMMA StatusKept ==
  ASSUME TInv, NEW r \in Replica, NEW status \in Status, loop[r].pc \in {"sent", "failed"},
         batches' = [batches EXCEPT ![loop[r].batch].status = status]
  PROVE  BatchesKept /\ Len(batches') = Len(batches) /\ batches' \in Seq(BatchType)
<1>1. PICK k : k = loop[r].batch
  OBVIOUS
<1>2. k \in 1..Len(batches) /\ DOMAIN batches = 1..Len(batches) /\ Len(batches) \in Nat
  BY <1>1, BatchFields DEF TInv, Carried, InHand, Sending
<1>3. batches' = [batches EXCEPT ![k].status = status]
  BY <1>1
<1>4. ASSUME NEW b \in 1..Len(batches)
      PROVE  /\ batches'[b] \in BatchType
             /\ batches'[b].leaves = batches[b].leaves /\ batches'[b].present = batches[b].present
             /\ batches'[b].start = batches[b].start /\ batches'[b].end = batches[b].end
             /\ batches'[b].by = batches[b].by /\ batches'[b].answered = batches[b].answered
  <2>1. batches[b] \in BatchType
    BY DEF TInv, Types
  <2>2. CASE b = k
    <3>1. batches'[b] = [batches[b] EXCEPT !.status = status]
      BY <1>2, <1>3, <2>2
    <3>. QED
      BY ONLY <2>1, <3>1, status \in Status DEF BatchType
  <2>3. CASE b # k
    <3>1. batches'[b] = batches[b]
      BY <1>2, <1>3, <2>3
    <3>. QED
      BY <2>1, <3>1
  <2>. QED
    BY <2>2, <2>3
<1>5. batches' \in Seq(BatchType) /\ Len(batches') = Len(batches)
  <2>1. batches' = [b \in 1..Len(batches) |-> batches'[b]]
    BY <1>2, <1>3
  <2>2. batches' \in [1..Len(batches) -> BatchType]
    BY <1>4, <2>1
  <2>. QED
    BY ONLY <1>2, <2>2
<1>. QED
  BY <1>2, <1>4, <1>5 DEF BatchesKept

LEMMA MarkInv ==
  ASSUME TInv, NEW r \in Replica, NEW status \in Status, loop[r].pc \in {"sent", "failed"}, SetStatus(r, status)
  PROVE  TInv'
<1>1. /\ batches' = [batches EXCEPT ![loop[r].batch].status = status]
      /\ loop' = [loop EXCEPT ![r] = Waiting(now + Interval)] /\ UNCHANGED <<now, started, rows, cursor>>
  BY DEF SetStatus
<1>2. /\ loop[r] # Down /\ now + Interval \in Nat /\ cursor[r] \in Int
      /\ now' \in Nat /\ started' \in [Replica -> Nat] /\ cursor' = [cursor EXCEPT ![r] = cursor[r]]
  BY <1>1, LoopOf, LoopKind, BatchAssumption DEF TInv, Types
<1>3. SameTables /\ batches' \in Seq(BatchType)
  BY <1>1, StatusKept DEF SameTables
<1>4. \A b \in 1..Len(batches) : (batches[b].by = r /\ batches[b].answered) => batches[b].end <= cursor[r]
  BY <1>2 DEF TInv, Carried, Ahead
<1>5. PICK due \in Nat, c \in Int : due = now + Interval /\ c = cursor[r]
  BY <1>2
<1>6. /\ loop' = [loop EXCEPT ![r] = Waiting(due)] /\ cursor' = [cursor EXCEPT ![r] = c]
      /\ \A b \in 1..Len(batches) : (batches[b].by = r /\ batches[b].answered) => batches[b].end <= c
      /\ now' \in Nat /\ started' \in [Replica -> Nat] /\ batches' \in Seq(BatchType)
      /\ TInv /\ r \in Replica
  BY <1>1, <1>2, <1>3, <1>4, <1>5
<1>. QED
  BY ONLY <1>3, <1>5, <1>6, GoesToWait

LEMMA MarkRaisesInv ==
  ASSUME TInv, NEW r \in Replica, MarkRaises(r)
  PROVE  TInv'
<1>1. /\ loop[r].pc = "sent" /\ batches' = [batches EXCEPT ![loop[r].batch].status = "anchored"]
      /\ UNCHANGED <<now, started, rows, cursor>>
  BY DEF MarkRaises
<1>2. PICK pc \in Sending : pc = "failed" /\ loop' = [loop EXCEPT ![r].pc = pc]
  BY DEF MarkRaises, Sending
<1>3. SameTables /\ batches' \in Seq(BatchType)
  BY <1>1, StatusKept DEF SameTables, Status
<1>4. loop[r].pc \in Sending
  BY <1>1 DEF Sending
<1>. QED
  BY <1>1, <1>2, <1>3, <1>4, SendingInv

LEMMA TableNext == TInv /\ [Next]_vars => TInv'
<1> SUFFICES ASSUME TInv, [Next]_vars PROVE TInv'
  OBVIOUS
<1>0. now \in Nat
  BY DEF TInv, Types
<1>1. CASE Tick
  BY <1>0, <1>1, ElsewhereInv DEF Tick
<1>2. ASSUME NEW r \in Replica, Cycle(r) PROVE TInv'
  <2>1. ASSUME EstimateGas(r) \/ SendTransaction(r) \/ CallFails(r) PROVE TInv'
    <3>1. loop[r].pc \in Sending /\ UNCHANGED <<now, started, rows, batches, cursor>>
      BY <2>1 DEF EstimateGas, SendTransaction, CallFails, Sending
    <3>2. PICK pc \in Sending : loop' = [loop EXCEPT ![r].pc = pc]
      BY <2>1 DEF EstimateGas, SendTransaction, CallFails, Sending
    <3>3. SameTables /\ batches' \in Seq(BatchType)
      BY <3>1, BatchFields DEF SameTables, BatchesKept, TInv, Types
    <3>. QED
      BY <3>1, <3>2, <3>3, SendingInv
  <2>2. CASE MarkBatchAnchored(r) \/ MarkBatchAnchorFailed(r)
    BY <2>2, MarkInv DEF MarkBatchAnchored, MarkBatchAnchorFailed, Status
  <2>. QED
    BY <1>2, <2>1, <2>2, OpenInv, LoadInv, PersistInv, CycleFailsInv, MarkRaisesInv DEF Cycle
<1>3. ASSUME NEW tx \in pool, Mine(tx) \/ Evict(tx) PROVE TInv'
  BY <1>0, <1>3, ElsewhereInv DEF Mine, Evict
<1>4. CASE Elsewhere
  BY <1>0, <1>4, ElsewhereInv DEF Elsewhere
<1>5. CASE UNCHANGED vars
  BY <1>0, <1>5, ElsewhereInv DEF vars
<1>. QED
  BY <1>1, <1>2, <1>3, <1>4, <1>5, RecordInv, StartInv, StopInv DEF Next

LEMMA TableInvariant == Spec => []TInv
  BY TableInit, TableNext, PTL DEF Spec

\* _persist_batch: through crashes, lost answers, repeated recording, threads that
\* insert while the loops work and replicas that take each other's rows, rows and
\* batches agree, and no replica batches a decision twice.
THEOREM RowsAndBatchesAgree == Spec => []LeavesPointBack
<1>1. TInv => LeavesPointBack
  BY DEF TInv, Table
<1>. QED
  BY <1>1, TableInvariant, PTL

\* _restore_window_cursor, _anchor_pending_window: a replica's windows never
\* overlap, unless it did not learn of a commit, and each leaf lies in the window
\* of its batch.
THEOREM WindowsApart == Spec => []WindowsDisjoint
<1>1. TInv => WindowsDisjoint
  BY DEF TInv, Table
<1>. QED
  BY <1>1, TableInvariant, PTL

\* _load_unbatched_leaves: what was in the table when a window was opened is in
\* the batch of that window or in an earlier one, of whichever replica.
THEOREM WindowsLeaveNoneOut == Spec => []WindowComplete
<1>1. TInv => WindowComplete
  BY DEF TInv, Table
<1>. QED
  BY <1>1, TableInvariant, PTL

-----------------------------------------------------------------------------
(* The pool and the contract. *)

AnchorType == [root : Seq(Decision), gateway : Gateway, start : Int, leafCount : Nat]

Chain ==
  /\ anchors \in Seq(AnchorType)
  /\ \A tx \in pool : \E b \in 1..Len(batches) :
       batches[b].leaves = tx.root /\ batches[b].start = tx.start
  /\ \A root \in rootAnchored : \E b \in 1..Len(batches) : batches[b].leaves = root
  /\ \A i \in 1..Len(anchors) : anchors[i].root \in rootAnchored
  /\ OnChainIsPersisted

\* Batches are only added.
Grown ==
  /\ Len(batches) \in Nat /\ Len(batches') \in Nat /\ Len(batches) <= Len(batches')
  /\ DOMAIN batches = 1..Len(batches) /\ DOMAIN batches' = 1..Len(batches')
  /\ \A b \in 1..Len(batches) :
       batches'[b].leaves = batches[b].leaves /\ batches'[b].start = batches[b].start

LEMMA ChainInit == Init => Chain
<1> SUFFICES ASSUME Init PROVE Chain
  OBVIOUS
<1>1. anchors = <<>> /\ rootAnchored = {} /\ pool = {}
  BY DEF Init, Contract!Init
<1>2. anchors \in Seq(AnchorType) /\ Len(anchors) = 0 /\ DOMAIN anchors = {}
  BY <1>1
<1>. QED
  BY <1>1, <1>2 DEF Chain, OnChainIsPersisted

LEMMA KeptIsGrown ==
  ASSUME TInv, BatchesKept, batches' \in Seq(BatchType)
  PROVE  Grown
  BY BatchFields DEF Grown, BatchesKept, TInv

LEMMA SameGrown ==
  ASSUME TInv, UNCHANGED batches
  PROVE  Grown
  BY BatchFields DEF Grown, TInv

LEMMA MarkGrown ==
  ASSUME TInv, NEW r \in Replica,
         MarkBatchAnchored(r) \/ MarkRaises(r) \/ MarkBatchAnchorFailed(r)
  PROVE  Grown /\ Len(batches') = Len(batches)
<1>1. PICK status \in Status : batches' = [batches EXCEPT ![loop[r].batch].status = status]
  BY DEF MarkBatchAnchored, MarkRaises, MarkBatchAnchorFailed, SetStatus, Status
<1>2. loop[r].pc \in {"sent", "failed"}
  BY DEF MarkBatchAnchored, MarkRaises, MarkBatchAnchorFailed
<1>. QED
  BY <1>1, <1>2, StatusKept, KeptIsGrown

LEMMA PersistGrown ==
  ASSUME TInv, NEW r \in Replica, PersistBatch(r)
  PROVE  Grown
<1>1. PICK answered \in BOOLEAN :
        loop[r].pc = "loaded" /\ batches' = Append(batches, NewBatch(r, answered)) /\ rows' = RowsBatched(r)
  BY DEF PersistBatch
<1>. QED
  BY <1>1, PersistTables, KeptIsGrown

\* Where a batch was, one is.
LEMMA ChainKept ==
  ASSUME Chain, Grown, UNCHANGED <<anchors, rootAnchored>>,
         \A tx \in pool' : tx \in pool \/ \E b \in 1..Len(batches) :
           batches[b].leaves = tx.root /\ batches[b].start = tx.start
  PROVE  Chain'
<1>1. \A b \in 1..Len(batches) : b \in 1..Len(batches')
  BY DEF Grown
<1>4. DOMAIN batches = 1..Len(batches) /\ DOMAIN batches' = 1..Len(batches')
  BY DEF Grown
<1>5. OnChainIsPersisted'
  <2>1. \A i \in DOMAIN anchors : anchors[i].gateway = Coordinator =>
          \E b \in DOMAIN batches' :
            /\ batches'[b].leaves = anchors[i].root /\ batches'[b].start = anchors[i].start
            /\ Len(batches'[b].leaves) = anchors[i].leafCount
    <3> SUFFICES ASSUME NEW i \in DOMAIN anchors, anchors[i].gateway = Coordinator
                 PROVE  \E b \in DOMAIN batches' :
                          /\ batches'[b].leaves = anchors[i].root /\ batches'[b].start = anchors[i].start
                          /\ Len(batches'[b].leaves) = anchors[i].leafCount
      OBVIOUS
    <3>1. PICK b \in DOMAIN batches :
            /\ batches[b].leaves = anchors[i].root /\ batches[b].start = anchors[i].start
            /\ Len(batches[b].leaves) = anchors[i].leafCount
      BY DEF Chain, OnChainIsPersisted
    <3>2. b \in DOMAIN batches' /\ batches'[b].leaves = batches[b].leaves /\ batches'[b].start = batches[b].start
      BY <1>1, <1>4 DEF Grown
    <3>. QED
      BY <3>1, <3>2
  <2>. QED
    BY <2>1 DEF Chain, OnChainIsPersisted
<1>2. \A tx \in pool' : \E b \in 1..Len(batches') :
        batches'[b].leaves = tx.root /\ batches'[b].start = tx.start
  BY <1>1 DEF Chain, Grown
<1>3. \A root \in rootAnchored' : \E b \in 1..Len(batches') : batches'[b].leaves = root
  BY <1>1 DEF Chain, Grown
<1>. QED
  BY <1>2, <1>3, <1>5 DEF Chain

\* anchorRoot, by whomever, with the root of a batch.
LEMMA AnchorInv ==
  ASSUME TInv, Chain, UNCHANGED batches, pool' \subseteq pool,
         NEW caller \in Gateway, NEW root, NEW start \in Int, NEW leafCount \in Nat, NEW cidGiven,
         Contract!AnchorRoot(caller, root, start, leafCount, cidGiven),
         NEW b \in 1..Len(batches), batches[b].leaves = root,
         caller = Coordinator => batches[b].start = start /\ leafCount = Len(root)
  PROVE  Chain'
<1> DEFINE new == [root |-> root, gateway |-> caller, start |-> start, leafCount |-> leafCount]
           n == Len(anchors) + 1
<1>1. anchors' = Append(anchors, new) /\ rootAnchored' = rootAnchored \cup {root} /\ root \notin rootAnchored
  BY DEF Contract!AnchorRoot, Contract!Accepts
<1>2. root \in Seq(Decision) /\ DOMAIN batches = 1..Len(batches)
  BY BatchFields DEF TInv
<1>3. new \in AnchorType /\ new.root = root /\ new.gateway = caller /\ new.start = start /\ new.leafCount = leafCount
  BY <1>2 DEF AnchorType
<1>. HIDE DEF new
<1>4. /\ anchors' \in Seq(AnchorType) /\ Len(anchors') = n /\ DOMAIN anchors' = 1..n /\ n \in Nat /\ n >= 1
      /\ \A i \in 1..Len(anchors) : anchors'[i] = anchors[i]
      /\ anchors'[n] = new /\ DOMAIN anchors = 1..Len(anchors)
      /\ \A i \in 1..n : i \in 1..Len(anchors) \/ i = n
  BY <1>1, <1>3 DEF Chain
<1>. HIDE DEF n
<1>5. \A i \in 1..Len(anchors) : anchors[i].root # root
  BY <1>1 DEF Chain
<1>6. \A i \in 1..n : anchors'[i].root \in rootAnchored'
  BY <1>1, <1>3, <1>4 DEF Chain
<1>7. \A i \in 1..n : anchors'[i].gateway = Coordinator =>
        \E c \in 1..Len(batches) :
          /\ batches[c].leaves = anchors'[i].root /\ batches[c].start = anchors'[i].start
          /\ Len(batches[c].leaves) = anchors'[i].leafCount
  <2> SUFFICES ASSUME NEW i \in 1..n, anchors'[i].gateway = Coordinator
               PROVE  \E c \in 1..Len(batches) :
                        /\ batches[c].leaves = anchors'[i].root /\ batches[c].start = anchors'[i].start
                        /\ Len(batches[c].leaves) = anchors'[i].leafCount
    OBVIOUS
  <2>1. CASE i = n
    BY <1>3, <1>4, <2>1
  <2>2. CASE i \in 1..Len(anchors)
    <3>1. anchors'[i] = anchors[i] /\ i \in DOMAIN anchors
      BY <1>4, <2>2
    <3>2. \E c \in DOMAIN batches :
            /\ batches[c].leaves = anchors[i].root /\ batches[c].start = anchors[i].start
            /\ Len(batches[c].leaves) = anchors[i].leafCount
      BY <3>1 DEF Chain, OnChainIsPersisted
    <3>. QED
      BY <1>2, <3>1, <3>2
  <2>. QED
    BY <1>4, <2>1, <2>2
<1>8. \A i, j \in 1..n : anchors'[i].root = anchors'[j].root => i = j
  <2>1. \A i \in 1..n : i # n => i \in DOMAIN anchors /\ anchors'[i] = anchors[i] /\ anchors[i].root # root
    BY <1>4, <1>5
  <2>2. anchors'[n].root = root
    BY <1>3, <1>4
  <2>3. \A i, j \in DOMAIN anchors : anchors[i].root = anchors[j].root => i = j
    BY DEF Chain, OnChainIsPersisted
  <2>. QED
    BY <2>1, <2>2, <2>3
<1>9. OnChainIsPersisted'
  BY <1>2, <1>4, <1>7, <1>8 DEF OnChainIsPersisted
<1>10. /\ \A tx \in pool' : \E c \in 1..Len(batches') :
            batches'[c].leaves = tx.root /\ batches'[c].start = tx.start
       /\ \A r \in rootAnchored' : \E c \in 1..Len(batches') : batches'[c].leaves = r
  BY <1>1 DEF Chain
<1>. QED
  BY <1>4, <1>6, <1>9, <1>10 DEF Chain

\* A step of the chain either stores nothing or the root of a batch.
LEMMA MineStores ==
  ASSUME TInv, Chain, NEW tx \in pool, Mine(tx)
  PROVE  /\ pool' \subseteq pool /\ UNCHANGED <<rows, batches>>
         /\ \/ UNCHANGED <<anchors, rootAnchored>>
            \/ \E b \in 1..Len(batches) :
                 /\ batches[b].leaves = tx.root /\ batches[b].start = tx.start
                 /\ Contract!AnchorRoot(Coordinator, tx.root, tx.start, Len(tx.root), TRUE)
<1>1. \E b \in 1..Len(batches) : batches[b].leaves = tx.root /\ batches[b].start = tx.start
  BY DEF Chain
<1>. QED
  BY <1>1 DEF Mine, contract

LEMMA ElsewhereStores ==
  ASSUME TInv, Elsewhere
  PROVE  /\ UNCHANGED <<pool, rows, batches>>
         /\ \/ UNCHANGED <<anchors, rootAnchored>>
            \/ \E g \in Gateway \ {Coordinator}, b \in 1..Len(batches), cidGiven \in BOOLEAN :
                 Contract!AnchorRoot(g, batches[b].leaves, 0, Len(batches[b].leaves), cidGiven)
<1>1. CASE \E g \in Gateway \cup {ZeroAddress}, a \in BOOLEAN :
             Contract!SetGatewayAuthorisation(owner, g, a)
  BY <1>1 DEF Elsewhere, Contract!SetGatewayAuthorisation
<1>2. ASSUME NEW g \in Gateway \ {Coordinator}, NEW cidGiven \in BOOLEAN,
             NEW root \in {batches[b].leaves : b \in DOMAIN batches} \cup {ZeroRoot, <<>>},
             Contract!AnchorRoot(g, root, 0, IF root = ZeroRoot THEN 1 ELSE Len(root), cidGiven)
      PROVE  \E b \in 1..Len(batches) :
               Contract!AnchorRoot(g, batches[b].leaves, 0, Len(batches[b].leaves), cidGiven)
  <2>1. root # ZeroRoot /\ Len(root) # 0
    BY <1>2 DEF Contract!AnchorRoot, Contract!Accepts
  <2>2. root # <<>>
    BY <2>1
  <2>3. PICK b \in 1..Len(batches) : root = batches[b].leaves
    BY <2>1, <2>2, BatchFields DEF TInv
  <2>4. Contract!AnchorRoot(g, batches[b].leaves, 0, Len(batches[b].leaves), cidGiven)
    BY <1>2, <2>1, <2>3
  <2>. QED
    BY <2>4
<1>3. UNCHANGED <<pool, rows, batches>>
  BY DEF Elsewhere
<1>. QED
  BY <1>1, <1>2, <1>3 DEF Elsewhere

LEMMA ChainNext == TInv /\ Chain /\ [Next]_vars => Chain'
<1> SUFFICES ASSUME TInv, Chain, [Next]_vars PROVE Chain'
  OBVIOUS
<1>1. ASSUME UNCHANGED <<contract, batches>>, pool' \subseteq pool PROVE Chain'
  <2>1. Grown /\ UNCHANGED <<anchors, rootAnchored>>
    BY <1>1, SameGrown DEF contract
  <2>. QED
    BY <1>1, <2>1, ChainKept
<1>2. ASSUME NEW r \in Replica, PersistBatch(r) PROVE Chain'
  <2>1. Grown /\ UNCHANGED <<anchors, rootAnchored, pool>>
    BY <1>2, PersistGrown DEF PersistBatch, contract
  <2>. QED
    BY <2>1, ChainKept
<1>3. ASSUME NEW r \in Replica, MarkBatchAnchored(r) \/ MarkRaises(r) \/ MarkBatchAnchorFailed(r)
      PROVE  Chain'
  <2>1. Grown /\ UNCHANGED <<anchors, rootAnchored, pool>>
    BY <1>3, MarkGrown DEF MarkBatchAnchored, MarkRaises, MarkBatchAnchorFailed, SetStatus, contract
  <2>. QED
    BY <2>1, ChainKept
<1>4. ASSUME NEW r \in Replica, SendTransaction(r) PROVE Chain'
  <2>1. /\ pool' = pool \cup {[root |-> loop[r].root, start |-> loop[r].start]}
        /\ UNCHANGED <<anchors, rootAnchored, batches>> /\ loop[r].pc = "estimated"
    BY <1>4 DEF SendTransaction, contract
  <2>2. Grown
    BY <2>1, SameGrown
  <2>3. /\ loop[r].batch \in 1..Len(batches) /\ batches[loop[r].batch].leaves = loop[r].root
        /\ batches[loop[r].batch].start = loop[r].start
    BY <2>1 DEF TInv, Carried, InHand, Sending
  <2>. QED
    BY <2>1, <2>2, <2>3, ChainKept
<1>5. ASSUME NEW tx \in pool, Mine(tx) PROVE Chain'
  <2>1. pool' \subseteq pool /\ UNCHANGED batches /\ Grown
    BY <1>5, MineStores, SameGrown
  <2>2. CASE UNCHANGED <<anchors, rootAnchored>>
    BY <2>1, <2>2, ChainKept
  <2>3. ASSUME NEW b \in 1..Len(batches), batches[b].leaves = tx.root, batches[b].start = tx.start,
               Contract!AnchorRoot(Coordinator, tx.root, tx.start, Len(tx.root), TRUE)
        PROVE  Chain'
    <3>1. tx.start \in Int /\ Len(tx.root) \in Nat /\ Coordinator \in Gateway
      BY <2>3, BatchFields, BatchAssumption DEF TInv
    <3>. QED
      BY <2>1, <2>3, <3>1, AnchorInv
  <2>. QED
    BY <1>5, <2>2, <2>3, MineStores
<1>6. CASE Elsewhere
  <2>1. UNCHANGED <<pool, batches>> /\ Grown
    BY <1>6, ElsewhereStores, SameGrown
  <2>2. CASE UNCHANGED <<anchors, rootAnchored>>
    BY <2>1, <2>2, ChainKept
  <2>3. ASSUME NEW g \in Gateway \ {Coordinator}, NEW b \in 1..Len(batches), NEW cidGiven \in BOOLEAN,
               Contract!AnchorRoot(g, batches[b].leaves, 0, Len(batches[b].leaves), cidGiven)
        PROVE  Chain'
    <3>1. /\ Len(batches[b].leaves) \in Nat /\ pool' \subseteq pool
          /\ UNCHANGED batches /\ 0 \in Int /\ g \in Gateway /\ g # Coordinator
      BY <2>1, <2>3, BatchFields DEF TInv
    <3>. QED
      BY <2>3, <3>1, AnchorInv
  <2>. QED
    BY <1>6, <2>2, <2>3, ElsewhereStores
<1>7. ASSUME NEW r \in Replica, Cycle(r) PROVE Chain'
  <2>1. OpenWindow(r) \/ LoadUnbatchedLeaves(r) \/ CycleFails(r) \/ EstimateGas(r) \/ CallFails(r)
          => UNCHANGED <<contract, batches, pool>>
    BY DEF OpenWindow, LoadUnbatchedLeaves, CycleFails, EstimateGas, CallFails
  <2>. QED
    BY <1>1, <1>2, <1>3, <1>4, <1>7, <2>1 DEF Cycle
<1>8. ASSUME NEW tx \in pool, Evict(tx) PROVE Chain'
  BY <1>1, <1>8 DEF Evict
<1>9. ASSUME NEW r \in Replica, NEW d \in Decision, RecordDecision(r, d) PROVE Chain'
  BY <1>1, <1>9 DEF RecordDecision
<1>10. ASSUME NEW r \in Replica, Start(r) \/ Stop(r) PROVE Chain'
  BY <1>1, <1>10 DEF Start, Stop
<1>11. CASE Tick \/ UNCHANGED vars
  BY <1>1, <1>11 DEF Tick, vars
<1>. QED
  BY <1>5, <1>6, <1>7, <1>8, <1>9, <1>10, <1>11 DEF Next

LEMMA ChainInvariant == Spec => [](TInv /\ Chain)
<1>1. Init => TInv /\ Chain
  BY TableInit, ChainInit
<1>2. TInv /\ Chain /\ [Next]_vars => (TInv /\ Chain)'
  BY TableNext, ChainNext
<1>. QED
  BY <1>1, <1>2, PTL DEF Spec

\* _anchor_batch_on_chain, anchorRoot: what the coordinators have on chain is a
\* batch of the table, and no root is stored twice.
THEOREM OnChainExplained == Spec => []OnChainIsPersisted
<1>1. TInv /\ Chain => OnChainIsPersisted
  BY DEF Chain
<1>. QED
  BY <1>1, ChainInvariant, PTL

-----------------------------------------------------------------------------
(* The ledger. *)

StoredWith == {d \in Decision : rows[d] # NoRow}
BatchOf == [d \in Decision |-> IF rows[d] = NoRow THEN 0 ELSE rows[d].batch]
Formed == [b \in DOMAIN batches |-> batches[b].leaves]

\* Nothing of the ledger changes.
LEMMA LedgerSame ==
  ASSUME StoredWith' = StoredWith, BatchOf' = BatchOf, Formed' = Formed, UNCHANGED rootAnchored
  PROVE  UNCHANGED Ledger!vars
  BY DEF Ledger!vars, StoredWith, BatchOf, Formed

LEMMA LedgerStores ==
  ASSUME NEW d \in Decision, StoredWith' = StoredWith \cup {d}, BatchOf' = BatchOf, Formed' = Formed,
         UNCHANGED rootAnchored
  PROVE  Ledger!Next
<1>1. Ledger!Store(d)
  BY DEF Ledger!Store, StoredWith, BatchOf, Formed
<1>. QED
  BY <1>1 DEF Ledger!Next

LEMMA LedgerForms ==
  ASSUME NEW size \in 1..Cardinality(StoredWith), NEW chosen \in [1..size -> StoredWith],
         \A i, j \in 1..size : chosen[i] = chosen[j] => i = j,
         Formed' = Append(Formed, chosen),
         BatchOf' = [d \in Decision |->
            IF \E i \in 1..size : chosen[i] = d THEN Len(Formed) + 1 ELSE BatchOf[d]],
         StoredWith' = StoredWith, UNCHANGED rootAnchored
  PROVE  Ledger!Next
<1>1. Ledger!Form(size)
  BY DEF Ledger!Form, StoredWith, BatchOf, Formed
<1>2. size \in 1..Cardinality({d \in Decision : rows[d] # NoRow})
  BY DEF StoredWith
<1>3. \E k \in 1..Cardinality({d \in Decision : rows[d] # NoRow}) : Ledger!Form(k)
  BY <1>1, <1>2, Zenon
<1>. QED
  BY <1>3, Zenon DEF Ledger!Next, Ledger!Cardinality, Cardinality

LEMMA LedgerCommits ==
  ASSUME NEW b \in DOMAIN batches, rootAnchored' = rootAnchored \cup {batches[b].leaves},
         StoredWith' = StoredWith, BatchOf' = BatchOf, Formed' = Formed
  PROVE  Ledger!Next
<1>1. b \in DOMAIN Formed /\ Formed[b] = batches[b].leaves
  BY DEF Formed
<1>2. Ledger!Commit(b)
  BY <1>1 DEF Ledger!Commit, StoredWith, BatchOf, Formed
<1>. QED
  BY <1>1, <1>2 DEF Ledger!Next, Formed

LEMMA StillSame ==
  ASSUME UNCHANGED <<rows, batches, rootAnchored>>
  PROVE  UNCHANGED Ledger!vars
<1>1. StoredWith' = StoredWith /\ BatchOf' = BatchOf /\ Formed' = Formed
  BY DEF StoredWith, BatchOf, Formed
<1>. QED
  BY <1>1, LedgerSame

LEMMA RecordStores ==
  ASSUME TInv, NEW r \in Replica, NEW d \in Decision, RecordDecision(r, d)
  PROVE  [Ledger!Next]_Ledger!vars
<1>1. PICK timestamp \in Stamps(r) :
        rows' = [rows EXCEPT ![d] = IF @ # NoRow THEN @
                   ELSE [timestamp |-> timestamp, batch |-> 0, index |-> 0]]
  BY DEF RecordDecision
<1>2. UNCHANGED <<batches, rootAnchored>> /\ timestamp \in Nat
  BY StampsAreNat DEF RecordDecision, contract, TInv
<1>3. Formed' = Formed
  BY <1>2 DEF Formed
<1> DEFINE row == [timestamp |-> timestamp, batch |-> 0, index |-> 0]
<1>4. CASE rows[d] # NoRow
  <2>1. rows' = rows
    BY <1>1, <1>4 DEF TInv, Types
  <2>. QED
    BY <1>2, <2>1, StillSame
<1>5. CASE rows[d] = NoRow
  <2>1. row \in RowType /\ row # NoRow /\ row.batch = 0
    BY <1>2, BatchAssumption DEF RowType
  <2>2. rows'[d] = row /\ \A e \in Decision \ {d} : rows'[e] = rows[e]
    BY <1>1, <1>5 DEF TInv, Types
  <2>. HIDE DEF row
  <2>3. StoredWith' = StoredWith \cup {d}
    BY <2>1, <2>2 DEF StoredWith
  <2>4. BatchOf' = BatchOf
    BY <1>5, <2>1, <2>2 DEF BatchOf
  <2>. QED
    BY <1>2, <1>3, <2>3, <2>4, LedgerStores
<1>. QED
  BY <1>4, <1>5

\* A sequence of different members of a finite set is no longer than the set.
LEMMA NoLonger ==
  ASSUME NEW S, IsFiniteSet(S), NEW size \in Nat, NEW list \in [1..size -> S],
         \A i, j \in 1..size : list[i] = list[j] => i = j
  PROVE  size <= Cardinality(S)
<1>1. list \in Injection(1..size, S)
  BY DEF Injection, IsInjective
<1>2. Cardinality(1..size) <= Cardinality(S)
  BY <1>1, FS_Injection
<1>3. Cardinality(1..size) = size
  <2>1. 1 \in Int /\ size \in Int
    OBVIOUS
  <2>2. Cardinality(1..size) = IF 1 > size THEN 0 ELSE size - 1 + 1
    BY <2>1, FS_Interval
  <2>. QED
    BY <2>2
<1>. QED
  BY <1>2, <1>3

LEMMA PersistForms ==
  ASSUME TInv, NEW r \in Replica, PersistBatch(r)
  PROVE  Ledger!Next
<1> DEFINE chosen == loop[r].leaves
           size == Len(loop[r].leaves)
<1>1. PICK answered \in BOOLEAN :
        loop[r].pc = "loaded" /\ batches' = Append(batches, NewBatch(r, answered)) /\ rows' = RowsBatched(r)
  BY DEF PersistBatch
<1>2. UNCHANGED rootAnchored
  BY DEF PersistBatch, contract
<1>3. chosen \in Seq(Decision) /\ size > 0 /\ size \in Nat /\ DOMAIN chosen = 1..size
  BY <1>1, LoopOf, LoopKind DEF TInv, Carried, Chosen
<1>4. /\ \A i \in 1..size : rows[chosen[i]] # NoRow
      /\ \A i, j \in 1..size : chosen[i] = chosen[j] => i = j
  BY <1>1 DEF TInv, Carried, Chosen
<1>5. chosen \in [1..size -> StoredWith]
  BY <1>3, <1>4 DEF StoredWith
<1>6. IsFiniteSet(StoredWith)
  BY BatchAssumption, FS_Subset DEF StoredWith
<1>. HIDE DEF chosen, size
<1>7. size \in 1..Cardinality(StoredWith)
  <2>1. size <= Cardinality(StoredWith) /\ Cardinality(StoredWith) \in Nat
    BY <1>3, <1>4, <1>5, <1>6, NoLonger, FS_CardinalityType
  <2>. QED
    BY <1>3, <2>1
<1>8. /\ \A d \in Decision : ~Batched(r, d) => rows'[d] = rows[d]
      /\ \A d \in Decision : Batched(r, d) =>
           rows[d] # NoRow /\ rows'[d] # NoRow /\ rows'[d].batch = Len(batches) + 1
  BY <1>1, PersistRows
<1>9. StoredWith' = StoredWith
  BY <1>8 DEF StoredWith
<1>10. Formed' = Append(Formed, chosen) /\ Len(Formed) = Len(batches)
  <2>1. /\ Len(batches) \in Nat /\ DOMAIN batches = 1..Len(batches)
        /\ DOMAIN batches' = 1..Len(batches) + 1
        /\ \A b \in 1..Len(batches) : batches'[b] = batches[b]
        /\ batches'[Len(batches) + 1].leaves = chosen
    BY <1>1, BatchFields DEF TInv, Types, NewBatch, chosen
  <2>2. Formed \in [1..Len(batches) -> Seq(Decision)] /\ Formed \in Seq(Seq(Decision)) /\ Len(Formed) = Len(batches)
    BY <2>1, BatchFields DEF Formed, TInv
  <2>3. Formed' = [b \in 1..Len(batches) + 1 |-> batches'[b].leaves]
    BY <2>1 DEF Formed
  <2>4. /\ Append(Formed, chosen) = [b \in 1..Len(batches) + 1 |-> Append(Formed, chosen)[b]]
        /\ \A b \in 1..Len(batches) + 1 :
             Append(Formed, chosen)[b] = IF b = Len(batches) + 1 THEN chosen ELSE Formed[b]
    <3>1. PICK list : list = Append(Formed, chosen)
      OBVIOUS
    <3>2. PICK forms, added : forms = Formed /\ added = chosen
      OBVIOUS
    <3>3. forms \in Seq(Seq(Decision)) /\ added \in Seq(Decision) /\ Len(forms) = Len(batches)
      BY <1>3, <2>2, <3>2 DEF chosen
    <3>4. list = Append(forms, added)
      BY <3>1, <3>2
    <3>5. list \in Seq(Seq(Decision)) /\ Len(list) = Len(batches) + 1
      BY ONLY <2>1, <3>3, <3>4
    <3>6. list = [b \in 1..Len(batches) + 1 |-> list[b]]
      BY ONLY <3>5
    <3>7. \A b \in 1..Len(batches) + 1 : list[b] = IF b = Len(batches) + 1 THEN added ELSE forms[b]
      BY ONLY <2>1, <3>3, <3>4
    <3>. QED
      BY <3>1, <3>2, <3>6, <3>7
  <2>5. \A b \in 1..Len(batches) : Formed[b] = batches[b].leaves
    BY <2>1 DEF Formed
  <2>6. \A b \in 1..Len(batches) + 1 :
          batches'[b].leaves = IF b = Len(batches) + 1 THEN chosen ELSE Formed[b]
    BY <2>1, <2>5
  <2>7. Formed' = Append(Formed, chosen)
    BY ONLY <2>3, <2>4, <2>6
  <2>. QED
    BY <2>2, <2>7
<1>11. BatchOf' = [d \in Decision |->
         IF \E i \in 1..size : chosen[i] = d THEN Len(Formed) + 1 ELSE BatchOf[d]]
  <2>1. \A d \in Decision : Batched(r, d) <=> \E i \in 1..size : chosen[i] = d
    BY <1>3 DEF Batched, chosen
  <2>2. \A d \in Decision : (IF rows'[d] = NoRow THEN 0 ELSE rows'[d].batch) =
          IF \E i \in 1..size : chosen[i] = d THEN Len(Formed) + 1 ELSE BatchOf[d]
    BY <1>8, <1>10, <2>1 DEF BatchOf
  <2>. QED
    BY <2>2 DEF BatchOf
<1>. QED
  BY <1>2, <1>4, <1>5, <1>7, <1>9, <1>10, <1>11, LedgerForms

\* The root of one batch is stored.
LEMMA AnchorCommits ==
  ASSUME TInv, UNCHANGED <<rows, batches>>, NEW b \in 1..Len(batches),
         rootAnchored' = rootAnchored \cup {batches[b].leaves}
  PROVE  Ledger!Next
<1>1. b \in DOMAIN batches
  BY BatchFields DEF TInv
<1>2. StoredWith' = StoredWith /\ BatchOf' = BatchOf /\ Formed' = Formed
  BY DEF StoredWith, BatchOf, Formed
<1>. QED
  BY <1>1, <1>2, LedgerCommits

LEMMA LedgerNext == TInv /\ Chain /\ [Next]_vars => [Ledger!Next]_Ledger!vars
<1> SUFFICES ASSUME TInv, Chain, [Next]_vars PROVE [Ledger!Next]_Ledger!vars
  OBVIOUS
<1>1. ASSUME NEW r \in Replica, MarkBatchAnchored(r) \/ MarkRaises(r) \/ MarkBatchAnchorFailed(r)
      PROVE  [Ledger!Next]_Ledger!vars
  <2>1. Grown /\ Len(batches') = Len(batches) /\ UNCHANGED <<rows, rootAnchored>>
    BY <1>1, MarkGrown DEF MarkBatchAnchored, MarkRaises, MarkBatchAnchorFailed, SetStatus, contract
  <2>2. Formed' = Formed
    BY <2>1 DEF Formed, Grown
  <2>3. StoredWith' = StoredWith /\ BatchOf' = BatchOf
    BY <2>1 DEF StoredWith, BatchOf
  <2>. QED
    BY <2>1, <2>2, <2>3, LedgerSame
<1>2. ASSUME NEW r \in Replica, Cycle(r) PROVE [Ledger!Next]_Ledger!vars
  <2>1. OpenWindow(r) \/ LoadUnbatchedLeaves(r) \/ CycleFails(r) \/ EstimateGas(r) \/ SendTransaction(r)
          \/ CallFails(r) => UNCHANGED <<rows, batches, rootAnchored>>
    BY DEF OpenWindow, LoadUnbatchedLeaves, CycleFails, EstimateGas, SendTransaction, CallFails, contract
  <2>. QED
    BY <1>1, <1>2, <2>1, StillSame, PersistForms DEF Cycle
<1>3. ASSUME NEW tx \in pool, Mine(tx) PROVE [Ledger!Next]_Ledger!vars
  <2>1. UNCHANGED <<rows, batches>>
    BY <1>3, MineStores
  <2>2. CASE UNCHANGED <<anchors, rootAnchored>>
    BY <2>1, <2>2, StillSame
  <2>3. ASSUME NEW b \in 1..Len(batches), batches[b].leaves = tx.root,
               Contract!AnchorRoot(Coordinator, tx.root, tx.start, Len(tx.root), TRUE)
        PROVE  Ledger!Next
    <3>1. rootAnchored' = rootAnchored \cup {batches[b].leaves}
      BY <2>3 DEF Contract!AnchorRoot
    <3>. QED
      BY <2>1, <3>1, AnchorCommits
  <2>. QED
    BY <1>3, <2>2, <2>3, MineStores
<1>4. CASE Elsewhere
  <2>1. UNCHANGED <<rows, batches>>
    BY <1>4, ElsewhereStores
  <2>2. CASE UNCHANGED <<anchors, rootAnchored>>
    BY <2>1, <2>2, StillSame
  <2>3. ASSUME NEW g \in Gateway, NEW b \in 1..Len(batches), NEW cidGiven \in BOOLEAN,
               Contract!AnchorRoot(g, batches[b].leaves, 0, Len(batches[b].leaves), cidGiven)
        PROVE  Ledger!Next
    <3>1. rootAnchored' = rootAnchored \cup {batches[b].leaves}
      BY <2>3 DEF Contract!AnchorRoot
    <3>. QED
      BY <2>1, <3>1, AnchorCommits
  <2>. QED
    BY <1>4, <2>2, <2>3, ElsewhereStores
<1>5. ASSUME NEW tx \in pool, Evict(tx) PROVE [Ledger!Next]_Ledger!vars
  BY <1>5, StillSame DEF Evict, contract
<1>6. ASSUME NEW r \in Replica, Start(r) \/ Stop(r) PROVE [Ledger!Next]_Ledger!vars
  BY <1>6, StillSame DEF Start, Stop, contract
<1>7. CASE Tick \/ UNCHANGED vars
  BY <1>7, StillSame DEF Tick, vars, contract
<1>. QED
  BY <1>2, <1>3, <1>4, <1>5, <1>6, <1>7, RecordStores DEF Next

\* record_decision, the cycles and the contract together implement DecisionLedger:
\* what is batched stays batched, in batches whose leaves are chosen once, and
\* only they are committed.
THEOREM CoordinatorImplementsLedger == Spec => ImplementsLedger
<1>1. Init => Ledger!Init
  <2> SUFFICES ASSUME Init PROVE Ledger!Init
    OBVIOUS
  <2>1. rows = [d \in Decision |-> NoRow] /\ batches = <<>> /\ rootAnchored = {}
    BY DEF Init, Contract!Init
  <2>2. [b \in DOMAIN batches |-> batches[b].leaves] = <<>>
    BY <2>1
  <2>. QED
    BY <2>1, <2>2 DEF Ledger!Init
<1>. QED
  BY <1>1, LedgerNext, ChainInvariant, PTL DEF Spec, ImplementsLedger, Ledger!Spec

-----------------------------------------------------------------------------
(* Types of what the two invariants do not speak of. *)

RestTypes == Contract!Ownership!TypeOK /\ isAuthorisedGateway \subseteq Gateway

LEMMA RestInit == Init => RestTypes
  BY DEF Init, RestTypes, Contract!Init, Contract!Ownership!Init, Contract!Ownership!TypeOK

LEMMA RestNext == RestTypes /\ [Next]_vars => RestTypes'
<1> SUFFICES ASSUME RestTypes, [Next]_vars PROVE RestTypes'
  OBVIOUS
<1>1. ASSUME UNCHANGED <<owner, pendingOwner, isAuthorisedGateway>> PROVE RestTypes'
  BY <1>1 DEF RestTypes, Contract!Ownership!TypeOK
<1>2. ASSUME NEW r \in Replica, Start(r) \/ Stop(r) \/ Cycle(r) PROVE RestTypes'
  <2>1. UNCHANGED contract
    BY <1>2 DEF Start, Stop, Cycle, OpenWindow, LoadUnbatchedLeaves, PersistBatch, CycleFails, EstimateGas,
                SendTransaction, CallFails, MarkBatchAnchored, MarkRaises, MarkBatchAnchorFailed, SetStatus
  <2>. QED
    BY <1>1, <2>1 DEF contract
<1>3. ASSUME NEW r \in Replica, NEW d \in Decision, RecordDecision(r, d) PROVE RestTypes'
  BY <1>1, <1>3 DEF RecordDecision, contract
<1>4. ASSUME NEW tx \in pool, Mine(tx) \/ Evict(tx) PROVE RestTypes'
  <2>1. UNCHANGED <<owner, pendingOwner, isAuthorisedGateway>>
    BY <1>4 DEF Mine, Evict, contract, Contract!AnchorRoot
  <2>. QED
    BY <1>1, <2>1
<1>5. CASE Elsewhere
  <2>1. UNCHANGED <<owner, pendingOwner>> /\ isAuthorisedGateway' \subseteq Gateway
    BY <1>5 DEF Elsewhere, RestTypes, Contract!AnchorRoot, Contract!SetGatewayAuthorisation
  <2>. QED
    BY <2>1 DEF RestTypes, Contract!Ownership!TypeOK
<1>6. CASE Tick \/ UNCHANGED vars
  BY <1>1, <1>6 DEF Tick, vars, contract
<1>. QED
  BY <1>2, <1>3, <1>4, <1>5, <1>6 DEF Next

\* Every reachable state of the coordinators and of their contract is well typed.
THEOREM CoordinatorTypeCorrect == Spec => []TypeOK
<1>1. TInv /\ Chain /\ RestTypes => TypeOK
  <2> SUFFICES ASSUME TInv, Chain, RestTypes PROVE TypeOK
    OBVIOUS
  <2>1. \A d \in Decision : rows[d] # NoRow => rows[d] \in Row
    BY DEF TInv, Types, RowType, Row
  <2>2. \A r \in Replica : loop[r].pc \in
          {"down", "waiting", "opened", "loaded", "persisted", "estimated", "sent", "failed"}
    BY LoopOf, LoopKind DEF TInv
  <2>3. \A b \in DOMAIN batches :
          /\ batches[b].leaves \in Seq(Decision) \ {<<>>}
          /\ batches[b].status \in {"prepared", "anchored", "anchor_failed"}
          /\ batches[b].by \in Replica
    <3>1. \A b \in 1..Len(batches) : batches[b].leaves # <<>>
      BY DEF TInv, Table
    <3>2. \A b \in 1..Len(batches) : batches[b] \in BatchType
      BY DEF TInv, Types
    <3>. QED
      BY <3>1, <3>2, BatchFields DEF TInv, BatchType, Status
  <2>4. \A tx \in pool : tx.root \in Seq(Decision)
    BY BatchFields DEF TInv, Chain
  <2>. QED
    BY <2>1, <2>2, <2>3, <2>4 DEF TypeOK, RestTypes
<1>2. Spec => []RestTypes
  BY RestInit, RestNext, PTL DEF Spec
<1>. QED
  BY <1>1, <1>2, ChainInvariant, PTL

-----------------------------------------------------------------------------
(***************************************************************************)
(* MerkleTree. The invariant (TreeInv) only says that the rows of a batch  *)
(* are those of its tree; the rest is about the tree. The recursive        *)
(* functions of the model are shown to exist by induction, level by level  *)
(* (LevelsAre, PositionsAre, FoldIs), and what holds of every level        *)
(* follows by induction over them: a level shrinks until one node is left  *)
(* (TopIs), its length depends on that of the leaves alone (SameShape), it *)
(* is determined by the level above it (NextBinds), it consists of the     *)
(* subtrees of the reference (CanonicalRoot), and a leaf's position in it  *)
(* is that of a row (InLevel).                                             *)
(*                                                                         *)
(* The recursions in two directions: what is equal at the leaves is equal  *)
(* at the root, and as a hash binds what it was made of, what is equal at  *)
(* the root is equal at the leaves (RootBinds, ClimbsProve).               *)
(***************************************************************************)

List(s) == Len(s) \in Nat /\ s = [i \in 1..Len(s) |-> s[i]]

LEMMA ListOf ==
  ASSUME NEW n \in Nat, NEW f, f = [i \in 1..n |-> f[i]]
  PROVE  Len(f) = n /\ List(f)
<1> DEFINE R == {f[i] : i \in 1..n}
<1>1. f \in [1..n -> R]
  OBVIOUS
<1> HIDE DEF R
<1>2. f \in Seq(R)
  BY <1>1, SeqDef
<1>3. Len(f) \in Nat /\ DOMAIN f = 1..Len(f) /\ DOMAIN f = 1..n
  BY <1>1, <1>2, LenProperties
<1>4. Len(f) = n
  BY <1>3
<1> QED BY <1>4 DEF List

LEMMA SeqIsList == ASSUME NEW S, NEW s \in Seq(S) PROVE List(s)
<1>1. Len(s) \in Nat /\ s \in [1..Len(s) -> S]
  BY LenProperties
<1> QED BY <1>1 DEF List

LEMMA SameLists ==
  ASSUME NEW s, NEW t, List(s), List(t), Len(s) = Len(t), \A i \in 1..Len(s) : s[i] = t[i]
  PROVE  s = t
<1>1. [i \in 1..Len(s) |-> s[i]] = [i \in 1..Len(s) |-> t[i]]
  OBVIOUS
<1> QED BY <1>1 DEF List

\* One level and the next.
LEMMA NextIs ==
  ASSUME NEW s, List(s), Len(s) >= 1
  PROVE  /\ List(NextLevel(s)) /\ Len(NextLevel(s)) \in Nat /\ Len(NextLevel(s)) >= 1
         /\ 2 * Len(NextLevel(s)) \in {Len(s), Len(s) + 1}
         /\ \A i \in 1..Len(NextLevel(s)) :
              /\ 2 * i - 1 \in 1..Len(s)
              /\ NextLevel(s)[i] = <<s[2 * i - 1], IF 2 * i <= Len(s) THEN s[2 * i] ELSE s[2 * i - 1]>>
<1> DEFINE l == Len(s)
           n == (l + 1) \div 2
           t == NextLevel(s)
<1>1. l \in Nat /\ l >= 1 /\ n \in Nat /\ n >= 1 /\ 2 * n \in {l, l + 1}
  <2>1. \A x \in Nat : x >= 1 => /\ (x + 1) \div 2 \in Nat /\ (x + 1) \div 2 >= 1
                                  /\ 2 * ((x + 1) \div 2) \in {x, x + 1}
    OBVIOUS
  <2>2. l \in Nat /\ l >= 1
    BY DEF List
  <2> HIDE DEF l
  <2> QED BY <2>1, <2>2
<1>2. t = [i \in 1..n |-> <<s[2 * i - 1], IF 2 * i <= l THEN s[2 * i] ELSE s[2 * i - 1]>>]
  BY DEF NextLevel, Hash
<1>3. t = [i \in 1..n |-> t[i]]
  BY <1>2
<1> HIDE DEF l, n, t
<1>4. Len(t) = n /\ List(t)
  BY <1>1, <1>3, ListOf
<1>5. \A i \in 1..n : 2 * i - 1 \in 1..l
  BY <1>1
<1> QED BY <1>1, <1>2, <1>4, <1>5 DEF l, t

LEMMA NextBinds ==
  ASSUME NEW s, NEW t, List(s), List(t), Len(s) = Len(t), Len(s) >= 1, NextLevel(s) = NextLevel(t)
  PROVE  s = t
<1> SUFFICES ASSUME NEW j \in 1..Len(s) PROVE s[j] = t[j]
  BY SameLists
<1> DEFINE i == (j + 1) \div 2
<1>1. Len(s) \in Nat
  BY DEF List
<1>2. i \in Nat /\ i >= 1 /\ 2 * i \in {j, j + 1}
  BY <1>1
<1> HIDE DEF i
<1>3. i \in 1..Len(NextLevel(s))
  <2>1. 2 * Len(NextLevel(s)) \in {Len(s), Len(s) + 1} /\ Len(NextLevel(s)) \in Nat
    BY NextIs
  <2> QED BY <1>1, <1>2, <2>1
<1>4. <<s[2 * i - 1], IF 2 * i <= Len(s) THEN s[2 * i] ELSE s[2 * i - 1]>>
        = <<t[2 * i - 1], IF 2 * i <= Len(s) THEN t[2 * i] ELSE t[2 * i - 1]>>
  <2>1. NextLevel(s)[i] = <<s[2 * i - 1], IF 2 * i <= Len(s) THEN s[2 * i] ELSE s[2 * i - 1]>>
    BY <1>3, NextIs
  <2>2. NextLevel(t)[i] = <<t[2 * i - 1], IF 2 * i <= Len(t) THEN t[2 * i] ELSE t[2 * i - 1]>>
    BY <1>3, NextIs
  <2> QED BY <2>1, <2>2
<1>5. s[2 * i - 1] = t[2 * i - 1] /\ (2 * i <= Len(s) => s[2 * i] = t[2 * i])
  BY <1>4
<1>6. 2 * i = j \/ 2 * i - 1 = j
  BY <1>2
<1> QED BY <1>1, <1>5, <1>6

-----------------------------------------------------------------------------
(* All the levels. *)

LEMMA LevelsAre ==
  ASSUME NEW b, Len(b) \in Nat
  PROVE  /\ LevelsUp(b)[0] = b
         /\ \A k \in 1..Len(b) : LevelsUp(b)[k] = NextLevel(LevelsUp(b)[k - 1])
<1> DEFINE n == Len(b)
           Ladder(f, m) == f = [k \in 0..m |-> f[k]] /\ f[0] = b /\ \A k \in 1..m : f[k] = NextLevel(f[k - 1])
           Body(f) == [k \in 0..n |-> IF k = 0 THEN b ELSE NextLevel(f[k - 1])]
           Q == {m \in Nat : \E f : Ladder(f, m)}
<1>1. 0 \in Q
  <2>1. Ladder([k \in 0..0 |-> b], 0)
    OBVIOUS
  <2> QED BY <2>1
<1>2. ASSUME NEW m \in Nat, m \in Q PROVE m + 1 \in Q
  <2>1. PICK f : Ladder(f, m)
    BY <1>2
  <2> DEFINE g == [k \in 0..(m + 1) |-> IF k = m + 1 THEN NextLevel(f[m]) ELSE f[k]]
  <2>2. Ladder(g, m + 1)
    <3>1. g = [k \in 0..(m + 1) |-> g[k]]
      OBVIOUS
    <3>2. g[0] = f[0] /\ f[0] = b
      BY <2>1
    <3>3. \A k \in 1..m : g[k] = f[k] /\ g[k - 1] = f[k - 1]
      OBVIOUS
    <3>4. g[m + 1] = NextLevel(g[m]) /\ (m + 1) - 1 = m
      OBVIOUS
    <3>5. ASSUME NEW k \in 1..(m + 1) PROVE g[k] = NextLevel(g[k - 1])
      <4>1. CASE k = m + 1
        BY <3>4, <4>1
      <4>2. CASE k # m + 1
        <5>1. k \in 1..m
          BY <4>2
        <5> HIDE DEF g
        <5> QED BY <2>1, <3>3, <5>1
      <4> QED BY <4>1, <4>2
    <3> QED BY <3>1, <3>2, <3>5
  <2> HIDE DEF g, Ladder
  <2> QED BY <2>2
<1>3. PICK f : Ladder(f, n)
  <2> HIDE DEF Q
  <2>1. n \in Q
    BY <1>1, <1>2, SetInduction
  <2> QED BY <2>1 DEF Q
<1>4. f = Body(f)
  <2>1. f = [k \in 0..n |-> f[k]]
    BY <1>3
  <2>2. \A k \in 0..n : f[k] = IF k = 0 THEN b ELSE NextLevel(f[k - 1])
    <3> HIDE DEF n
    <3> TAKE k \in 0..n
    <3>1. k # 0 => k \in 1..n
      BY DEF n
    <3> QED BY <1>3, <3>1
  <2> QED BY <2>1, <2>2
<1> DEFINE level == CHOOSE g : g = Body(g)
<1>5. LevelsUp(b) = level
  BY DEF LevelsUp
<1>6. level = Body(level)
  <2> HIDE DEF Body
  <2> QED BY <1>4
<1> HIDE DEF level
<1> QED BY <1>5, <1>6

LEMMA LevelList ==
  ASSUME NEW b, List(b), Len(b) >= 1
  PROVE  \A k \in 0..Len(b) :
           LET l == LevelsUp(b)[k]
           IN  List(l) /\ Len(l) \in Nat /\ Len(l) >= 1 /\ Len(l) <= Len(b) /\ (Len(l) = 1 \/ Len(l) <= Len(b) - k)
<1> DEFINE L == LevelsUp(b)
           n == Len(b)
           Fine1(k) == /\ List(L[k]) /\ Len(L[k]) \in Nat /\ Len(L[k]) >= 1 /\ Len(L[k]) <= n
                       /\ Len(L[k]) = 1 \/ Len(L[k]) <= n - k
           Q == {k \in Nat : k <= n => Fine1(k)}
<1>1. n \in Nat /\ L[0] = b /\ \A k \in 1..n : L[k] = NextLevel(L[k - 1])
  BY LevelsAre DEF List
<1>2. 0 \in Q
  BY <1>1
<1>3. ASSUME NEW k \in Nat, k \in Q PROVE k + 1 \in Q
  <2> SUFFICES ASSUME k + 1 <= n PROVE Fine1(k + 1)
    OBVIOUS
  <2>1. Fine1(k)
    BY <1>1, <1>3
  <2>2. L[k + 1] = NextLevel(L[k])
    BY <1>1
  <2> HIDE DEF L, n
  <2>3. /\ List(L[k + 1]) /\ Len(L[k + 1]) \in Nat /\ Len(L[k + 1]) >= 1
        /\ 2 * Len(L[k + 1]) \in {Len(L[k]), Len(L[k]) + 1}
    BY <2>1, <2>2, NextIs
  <2>4. \A x \in Nat, y \in Nat : /\ x >= 1 /\ x <= n /\ (x = 1 \/ x <= n - k) /\ y >= 1 /\ 2 * y \in {x, x + 1}
                                => y <= n /\ (y = 1 \/ y <= n - (k + 1))
    BY <1>1
  <2> QED BY <2>1, <2>3, <2>4
<1> HIDE DEF Q
<1>4. Nat \subseteq Q
  BY <1>2, <1>3, SetInduction
<1> QED BY <1>1, <1>4 DEF Q

LEMMA TopIs ==
  ASSUME NEW b, List(b), Len(b) >= 1
  PROVE  /\ Top(b) \in 0..Len(b) /\ Len(LevelsUp(b)[Top(b)]) = 1
         /\ \A j \in 0..(Top(b) - 1) : Len(LevelsUp(b)[j]) > 1
<1> DEFINE L == LevelsUp(b)
           n == Len(b)
           S == {k \in 0..n : Len(L[k]) = 1}
<1>1. n \in Nat /\ \A k \in 0..n : Len(L[k]) \in Nat /\ Len(L[k]) >= 1 /\ (Len(L[k]) = 1 \/ Len(L[k]) <= n - k)
  BY LevelList DEF List
<1> HIDE DEF L, n
<1>2. n \in S
  BY <1>1
<1>3. PICK k \in S : \A m \in S : k <= m
  <2>1. S \in SUBSET Nat /\ S # {}
    BY <1>1, <1>2
  <2> HIDE DEF S
  <2> QED BY <2>1, LeastNat
<1>4. \A j \in 0..(k - 1) : Len(L[j]) > 1
  <2> TAKE j \in 0..(k - 1)
  <2>1. j \in 0..n /\ j \notin S
    BY <1>1, <1>3
  <2> DEFINE x == Len(L[j])
  <2>2. x # 1 /\ x \in Nat /\ x >= 1
    BY <1>1, <2>1
  <2> HIDE DEF x
  <2>3. x > 1
    BY <2>2
  <2> QED BY <2>3 DEF x
<1>5. \E h \in 0..n : Len(L[h]) = 1 /\ \A j \in 0..(h - 1) : Len(L[j]) > 1
  BY <1>3, <1>4
<1>6. Top(b) = CHOOSE h \in 0..n : Len(L[h]) = 1 /\ \A j \in 0..(h - 1) : Len(L[j]) > 1
  BY DEF Top, L, n
<1> QED BY <1>5, <1>6 DEF L, n

\* The shape of a tree depends on the number of its leaves alone.
LEMMA SameShape ==
  ASSUME NEW b, NEW c, List(b), List(c), Len(b) = Len(c), Len(b) >= 1
  PROVE  Top(b) = Top(c) /\ \A k \in 0..Len(b) : Len(LevelsUp(b)[k]) = Len(LevelsUp(c)[k])
<1> DEFINE L == LevelsUp(b)
           M == LevelsUp(c)
           n == Len(b)
           Q == {k \in Nat : k <= n => Len(L[k]) = Len(M[k])}
<1>1. /\ n \in Nat /\ L[0] = b /\ M[0] = c
      /\ \A k \in 1..n : L[k] = NextLevel(L[k - 1]) /\ M[k] = NextLevel(M[k - 1])
  BY LevelsAre DEF List
<1>2. \A k \in 0..n : List(L[k]) /\ Len(L[k]) >= 1 /\ List(M[k]) /\ Len(M[k]) >= 1
  BY LevelList
<1>3. 0 \in Q
  BY <1>1
<1>4. ASSUME NEW k \in Nat, k \in Q PROVE k + 1 \in Q
  <2> SUFFICES ASSUME k + 1 <= n PROVE Len(L[k + 1]) = Len(M[k + 1])
    OBVIOUS
  <2>1. Len(L[k]) = Len(M[k]) /\ L[k + 1] = NextLevel(L[k]) /\ M[k + 1] = NextLevel(M[k])
    BY <1>1, <1>4
  <2>2. List(L[k]) /\ Len(L[k]) >= 1 /\ List(M[k]) /\ Len(M[k]) >= 1
    BY <1>1, <1>2
  <2> HIDE DEF L, M, n
  <2>3. /\ 2 * Len(L[k + 1]) \in {Len(L[k]), Len(L[k]) + 1} /\ Len(L[k + 1]) \in Nat
        /\ 2 * Len(M[k + 1]) \in {Len(L[k]), Len(L[k]) + 1} /\ Len(M[k + 1]) \in Nat /\ Len(L[k]) \in Nat
    BY <2>1, <2>2, NextIs DEF List
  <2>4. \A x \in Nat, y \in Nat, z \in Nat : 2 * y \in {x, x + 1} /\ 2 * z \in {x, x + 1} => y = z
    OBVIOUS
  <2> QED BY <2>3, <2>4
<1> HIDE DEF Q
<1>5. Nat \subseteq Q
  BY <1>3, <1>4, SetInduction
<1>6. \A k \in 0..n : Len(L[k]) = Len(M[k])
  BY <1>1, <1>5 DEF Q
<1>7. /\ Top(b) \in 0..n /\ Len(L[Top(b)]) = 1 /\ \A j \in 0..(Top(b) - 1) : Len(L[j]) > 1
      /\ Top(c) \in 0..n /\ Len(M[Top(c)]) = 1 /\ \A j \in 0..(Top(c) - 1) : Len(M[j]) > 1
  BY TopIs
<1> HIDE DEF L, M, n
<1>8. ~ (Top(b) < Top(c)) /\ ~ (Top(c) < Top(b))
  <2> DEFINE s == Top(b)
             t == Top(c)
  <2>1. s \in 0..n /\ t \in 0..n /\ Len(L[s]) = Len(M[s]) /\ Len(L[t]) = Len(M[t]) /\ Len(L[s]) = 1 /\ Len(M[t]) = 1
    BY <1>6, <1>7
  <2>2. (\A j \in 0..(s - 1) : Len(L[j]) > 1) /\ (\A j \in 0..(t - 1) : Len(M[j]) > 1)
    BY <1>7
  <2> HIDE DEF s, t
  <2>3. (s < t => s \in 0..(t - 1)) /\ (t < s => t \in 0..(s - 1))
    BY <1>1, <2>1
  <2>4. ~ (s < t)
    <3> SUFFICES ASSUME s < t PROVE FALSE
      OBVIOUS
    <3>1. Len(M[s]) > 1
      BY <2>2, <2>3
    <3>2. Len(M[s]) = 1
      BY <2>1
    <3> QED BY <3>1, <3>2
  <2>5. ~ (t < s)
    <3> SUFFICES ASSUME t < s PROVE FALSE
      OBVIOUS
    <3>1. Len(L[t]) > 1
      BY <2>2, <2>3
    <3>2. Len(L[t]) = 1
      BY <2>1
    <3> QED BY <3>1, <3>2
  <2> QED BY <2>4, <2>5 DEF s, t
<1>9. Top(b) = Top(c)
  BY <1>1, <1>7, <1>8
<1> QED BY <1>6, <1>9 DEF L, M, n

\* Trees of as many leaves with the same root have the same leaves.
LEMMA RootBinds ==
  ASSUME NEW b, NEW c, List(b), List(c), Len(b) = Len(c), Len(b) >= 1, MerkleRoot(b) = MerkleRoot(c)
  PROVE  b = c
<1> DEFINE L == LevelsUp(b)
           M == LevelsUp(c)
           n == Len(b)
           top == Top(b)
           Q == {j \in Nat : j <= top => L[top - j] = M[top - j]}
<1>1. /\ n \in Nat /\ L[0] = b /\ M[0] = c
      /\ \A k \in 1..n : L[k] = NextLevel(L[k - 1]) /\ M[k] = NextLevel(M[k - 1])
  BY LevelsAre DEF List
<1>2. \A k \in 0..n : List(L[k]) /\ Len(L[k]) >= 1 /\ List(M[k]) /\ Len(M[k]) >= 1
  BY LevelList
<1>3. top = Top(c) /\ \A k \in 0..n : Len(L[k]) = Len(M[k])
  BY SameShape
<1>4. top \in 0..n /\ Len(L[top]) = 1
  BY TopIs
<1>5. L[top][1] = M[top][1]
  BY <1>3 DEF MerkleRoot
<1> HIDE DEF L, M, n, top
<1>6. 0 \in Q
  <2>1. L[top] = M[top]
    BY <1>2, <1>3, <1>4, <1>5, SameLists
  <2>2. top - 0 = top
    BY <1>1, <1>4
  <2> QED BY <2>1, <2>2
<1>7. ASSUME NEW j \in Nat, j \in Q PROVE j + 1 \in Q
  <2> SUFFICES ASSUME j + 1 <= top PROVE L[top - (j + 1)] = M[top - (j + 1)]
    OBVIOUS
  <2> DEFINE k == top - (j + 1)
  <2>1. k \in 0..n /\ k + 1 \in 1..n /\ k + 1 = top - j /\ k = (k + 1) - 1
    BY <1>1, <1>4
  <2>2. L[k + 1] = M[k + 1]
    BY <1>1, <1>4, <1>7, <2>1
  <2> HIDE DEF k
  <2>3. NextLevel(L[k]) = NextLevel(M[k])
    BY <1>1, <2>1, <2>2
  <2>4. L[k] = M[k]
    BY <1>2, <1>3, <2>1, <2>3, NextBinds
  <2> QED BY <2>4 DEF k
<1> HIDE DEF Q
<1>8. Nat \subseteq Q
  BY <1>6, <1>7, SetInduction
<1>9. top \in Q /\ top - top = 0
  BY <1>1, <1>4, <1>8
<1> QED BY <1>1, <1>4, <1>9 DEF Q

-----------------------------------------------------------------------------
(* The reference. *)

\* Every level of the tree is made of the reference's subtrees, side by side.
LEMMA CanonicalRoot ==
  ASSUME NEW b, List(b), Len(b) >= 1
  PROVE  MerkleRoot(b) = Reference(b)
<1> DEFINE L == LevelsUp(b)
           n == Len(b)
           WBody(f) == [h \in 0..n |-> IF h = 0 THEN 1 ELSE 2 * f[h - 1]]
           W == CHOOSE f : f = WBody(f)
           Paired(w, t) == [first \in 1..n |->
                           LET middle == first + w
                           IN  Hash(t[first], IF middle <= n THEN t[middle] ELSE t[first])]
           TBody(f) == [h \in 0..n |-> IF h = 0 THEN b ELSE Paired(W[h - 1], f[h - 1])]
           T == CHOOSE f : f = TBody(f)
           height == CHOOSE h \in 0..n : W[h] >= n /\ \A g \in 0..(h - 1) : W[g] < n
<1>1. Reference(b) = T[height][1]
  BY DEF Reference
<1>2. n \in Nat /\ n >= 1
  BY DEF List
<1>3. W = WBody(W)
  <2> DEFINE Good(f, m) == f = [k \in 0..m |-> f[k]] /\ f[0] = 1 /\ \A k \in 1..m : f[k] = 2 * f[k - 1]
             Q == {m \in Nat : \E f : Good(f, m)}
  <2>1. 0 \in Q
    <3>1. Good([k \in 0..0 |-> 1], 0)
      OBVIOUS
    <3> QED BY <3>1
  <2>2. ASSUME NEW m \in Nat, m \in Q PROVE m + 1 \in Q
    <3>1. PICK f : Good(f, m)
      BY <2>2
    <3> DEFINE g == [k \in 0..(m + 1) |-> IF k = m + 1 THEN 2 * f[m] ELSE f[k]]
    <3>2. Good(g, m + 1)
      <4>1. g = [k \in 0..(m + 1) |-> g[k]] /\ g[0] = 1
        <5>1. g = [k \in 0..(m + 1) |-> g[k]]
          OBVIOUS
        <5>2. g[0] = f[0]
          OBVIOUS
        <5> QED BY <3>1, <5>1, <5>2
      <4>2. \A k \in 1..m : g[k] = f[k] /\ g[k - 1] = f[k - 1]
        OBVIOUS
      <4>3. g[m + 1] = 2 * g[m] /\ (m + 1) - 1 = m
        OBVIOUS
      <4>4. ASSUME NEW k \in 1..(m + 1) PROVE g[k] = 2 * g[k - 1]
        <5>1. CASE k = m + 1
          BY <4>3, <5>1
        <5>2. CASE k # m + 1
          <6>1. k \in 1..m
            BY <5>2
          <6> HIDE DEF g
          <6> QED BY <3>1, <4>2, <6>1
        <5> QED BY <5>1, <5>2
      <4> QED BY <4>1, <4>4
    <3> HIDE DEF g, Good
    <3> QED BY <3>2
  <2>3. PICK f : Good(f, n)
    <3> HIDE DEF Q, n
    <3>1. n \in Q
      BY <1>2, <2>1, <2>2, SetInduction
    <3> QED BY <3>1 DEF Q
  <2>4. f = WBody(f)
    <3> HIDE DEF n
    <3>1. f = [k \in 0..n |-> f[k]]
      BY <2>3
    <3>2. \A k \in 0..n : f[k] = IF k = 0 THEN 1 ELSE 2 * f[k - 1]
      <4> TAKE k \in 0..n
      <4>1. k # 0 => k \in 1..n
        BY <1>2
      <4> QED BY <2>3, <4>1
    <3> QED BY <3>1, <3>2
  <2> HIDE DEF WBody
  <2> QED BY <2>4
<1>4. W[0] = 1 /\ \A h \in 1..n : W[h] = 2 * W[h - 1]
  <2> HIDE DEF W
  <2> QED BY <1>2, <1>3
<1> HIDE DEF W
<1>5. T = TBody(T)
  <2> DEFINE Good(f, m) == f = [k \in 0..m |-> f[k]] /\ f[0] = b /\ \A k \in 1..m : f[k] = Paired(W[k - 1], f[k - 1])
             Q == {m \in Nat : \E f : Good(f, m)}
  <2> HIDE DEF Paired
  <2>1. 0 \in Q
    <3>1. Good([k \in 0..0 |-> b], 0)
      OBVIOUS
    <3> QED BY <3>1
  <2>2. ASSUME NEW m \in Nat, m \in Q PROVE m + 1 \in Q
    <3>1. PICK f : Good(f, m)
      BY <2>2
    <3> DEFINE g == [k \in 0..(m + 1) |-> IF k = m + 1 THEN Paired(W[m], f[m]) ELSE f[k]]
    <3>2. Good(g, m + 1)
      <4>1. g = [k \in 0..(m + 1) |-> g[k]] /\ g[0] = b
        <5>1. g = [k \in 0..(m + 1) |-> g[k]]
          OBVIOUS
        <5>2. g[0] = f[0]
          OBVIOUS
        <5> QED BY <3>1, <5>1, <5>2
      <4>2. \A k \in 1..m : g[k] = f[k] /\ g[k - 1] = f[k - 1]
        OBVIOUS
      <4>3. g[m + 1] = Paired(W[m], g[m]) /\ (m + 1) - 1 = m
        OBVIOUS
      <4>4. ASSUME NEW k \in 1..(m + 1) PROVE g[k] = Paired(W[k - 1], g[k - 1])
        <5>1. CASE k = m + 1
          BY <4>3, <5>1
        <5>2. CASE k # m + 1
          <6>1. k \in 1..m
            BY <5>2
          <6> HIDE DEF g
          <6> QED BY <3>1, <4>2, <6>1
        <5> QED BY <5>1, <5>2
      <4> QED BY <4>1, <4>4
    <3> HIDE DEF g, Good
    <3> QED BY <3>2
  <2>3. PICK f : Good(f, n)
    <3> HIDE DEF Q, n
    <3>1. n \in Q
      BY <1>2, <2>1, <2>2, SetInduction
    <3> QED BY <3>1 DEF Q
  <2>4. f = TBody(f)
    <3> HIDE DEF n
    <3>1. f = [k \in 0..n |-> f[k]]
      BY <2>3
    <3>2. \A k \in 0..n : f[k] = IF k = 0 THEN b ELSE Paired(W[k - 1], f[k - 1])
      <4> TAKE k \in 0..n
      <4>1. k # 0 => k \in 1..n
        BY <1>2
      <4> QED BY <2>3, <4>1
    <3> QED BY <3>1, <3>2
  <2> HIDE DEF TBody
  <2> QED BY <2>4
<1>6. T[0] = b /\ \A h \in 1..n : T[h] = Paired(W[h - 1], T[h - 1])
  <2> HIDE DEF T, Paired
  <2> QED BY <1>2, <1>5
<1>7. \A h \in 1..n, first \in 1..n :
        T[h][first] = <<T[h - 1][first],
                        IF first + W[h - 1] <= n THEN T[h - 1][first + W[h - 1]] ELSE T[h - 1][first]>>
  <2> SUFFICES ASSUME NEW h \in 1..n, NEW first \in 1..n
               PROVE  T[h][first] = <<T[h - 1][first],
                        IF first + W[h - 1] <= n THEN T[h - 1][first + W[h - 1]] ELSE T[h - 1][first]>>
    BY ZenonT(30)
  <2> DEFINE w == W[h - 1]
             t == T[h - 1]
  <2>1. T[h] = Paired(w, t)
    BY <1>6
  <2> HIDE DEF T, w, t
  <2>2. T[h][first] = <<t[first], IF first + w <= n THEN t[first + w] ELSE t[first]>>
    BY <2>1 DEF Hash
  <2> QED BY <2>2 DEF w, t
<1>8. L[0] = b /\ \A k \in 1..n : L[k] = NextLevel(L[k - 1])
  BY LevelsAre DEF List
<1>9. \A k \in 0..n : List(L[k]) /\ Len(L[k]) \in Nat /\ Len(L[k]) >= 1
  BY LevelList
<1> HIDE DEF T, L, n
<1> DEFINE Fits(k) ==
             /\ W[k] \in Nat /\ W[k] >= 1
             /\ (Len(L[k]) - 1) * W[k] < n /\ n <= Len(L[k]) * W[k]
             /\ \A i \in 1..Len(L[k]) : L[k][i] = T[k][(i - 1) * W[k] + 1]
           Q == {k \in Nat : k <= n => Fits(k)}
<1>10. 0 \in Q
  <2>1. Len(L[0]) = n
    BY <1>8 DEF n
  <2>2. \A i \in 1..n : (i - 1) * 1 + 1 = i
    BY <1>2
  <2>3. (n - 1) * 1 < n /\ n <= n * 1
    BY <1>2
  <2> QED BY <1>4, <1>6, <1>8, <2>1, <2>2, <2>3
<1>11. ASSUME NEW k \in Nat, k \in Q PROVE k + 1 \in Q
  <2> SUFFICES ASSUME k + 1 <= n PROVE Fits(k + 1)
    BY SMTT(30)
  <2> DEFINE w == W[k]
             m == Len(L[k])
             l == Len(L[k + 1])
  <2>1. /\ w \in Nat /\ w >= 1 /\ m \in Nat /\ m >= 1 /\ (m - 1) * w < n /\ n <= m * w
        /\ \A i \in 1..m : L[k][i] = T[k][(i - 1) * w + 1]
    BY <1>2, <1>9, <1>11
  <2>2. /\ W[k + 1] = 2 * w /\ L[k + 1] = NextLevel(L[k])
        /\ \A first \in 1..n :
             T[k + 1][first] = <<T[k][first], IF first + w <= n THEN T[k][first + w] ELSE T[k][first]>>
    <3>1. k + 1 \in 1..n /\ (k + 1) - 1 = k
      BY <1>2, <1>11
    <3>2. W[k + 1] = 2 * w /\ L[k + 1] = NextLevel(L[k])
      BY <1>4, <1>8, <3>1
    <3>3. \A first \in 1..n :
            T[k + 1][first] = <<T[k][first], IF first + w <= n THEN T[k][first + w] ELSE T[k][first]>>
      BY <1>7, <3>1
    <3> QED BY <3>2, <3>3
  <2>3. List(L[k]) /\ m >= 1
    BY <1>2, <1>9
  <2>4. /\ l \in Nat /\ l >= 1 /\ 2 * l \in {m, m + 1}
        /\ \A i \in 1..l : 2 * i - 1 \in 1..m
             /\ L[k + 1][i] = <<L[k][2 * i - 1], IF 2 * i <= m THEN L[k][2 * i] ELSE L[k][2 * i - 1]>>
    <3> DEFINE s == L[k]
               t == L[k + 1]
    <3>1. List(s) /\ Len(s) >= 1 /\ t = NextLevel(s)
      BY <2>2, <2>3
    <3> HIDE DEF s, t
    <3>2. /\ Len(t) \in Nat /\ Len(t) >= 1 /\ 2 * Len(t) \in {Len(s), Len(s) + 1}
          /\ \A i \in 1..Len(t) : 2 * i - 1 \in 1..Len(s)
               /\ t[i] = <<s[2 * i - 1], IF 2 * i <= Len(s) THEN s[2 * i] ELSE s[2 * i - 1]>>
      BY <3>1, NextIs
    <3> QED BY <3>2 DEF s, t
  <2> HIDE DEF w, m, l
  <2>5. (l - 1) * (2 * w) < n /\ n <= l * (2 * w)
    <3>1. l * (2 * w) = (2 * l) * w /\ (l - 1) * (2 * w) = (2 * l - 2) * w
      <4>1. w \in Int /\ l \in Int
        BY <2>1, <2>4
      <4>2. l * (2 * w) = (2 * l) * w
        BY ONLY <4>1
      <4>3. (l - 1) * (2 * w) = (2 * l - 2) * w
        BY ONLY <4>1
      <4>. QED
        BY <4>2, <4>3
    <3>2. CASE 2 * l = m
      <4>1. (2 * l - 2) * w = (m - 1) * w - w
        BY <2>1, <3>2
      <4>2. (2 * l) * w = m * w /\ (m - 1) * w \in Int
        BY <2>1, <3>2
      <4> QED BY <1>2, <2>1, <3>1, <4>1, <4>2
    <3>3. CASE 2 * l = m + 1
      <4>1. (2 * l - 2) * w = (m - 1) * w
        BY <2>1, <3>3
      <4>2. (2 * l) * w = m * w + w /\ m * w \in Int
        BY <2>1, <3>3
      <4> QED BY <1>2, <2>1, <3>1, <4>1, <4>2
    <3> QED BY <2>4, <3>2, <3>3
  <2>6. ASSUME NEW i \in 1..l PROVE L[k + 1][i] = T[k + 1][(i - 1) * (2 * w) + 1]
    <3> DEFINE j == 2 * i - 1
               first == (j - 1) * w + 1
    <3>1. j \in 1..m /\ i \in Nat /\ L[k + 1][i] = <<L[k][j], IF j + 1 <= m THEN L[k][j + 1] ELSE L[k][j]>>
      <4>1. 2 * i = j + 1
        BY <2>4
      <4> QED BY <2>4, <4>1
    <3>2. (i - 1) * (2 * w) + 1 = first /\ ((j + 1) - 1) * w + 1 = first + w /\ first + w = j * w + 1
      BY <2>1, <2>4
    <3> HIDE DEF j, first
    <3>3. j \in Nat /\ j >= 1 /\ j <= m
      BY <2>1, <3>1
    <3>4. (j - 1) * w \in Nat /\ (j - 1) * w <= (m - 1) * w /\ j * w \in Nat
      BY <2>1, <3>3
    <3>5. first \in 1..n
      BY <1>2, <2>1, <3>4 DEF first
    <3>6. L[k][j] = T[k][first]
      BY <2>1, <3>1 DEF first
    <3>7. j + 1 <= m <=> first + w <= n
      <4>1. CASE j + 1 <= m
        <5>1. j * w <= (m - 1) * w
          BY <2>1, <3>3, <4>1
        <5>2. (m - 1) * w \in Int
          BY <2>1
        <5> QED BY <1>2, <2>1, <3>2, <3>4, <4>1, <5>1, <5>2
      <4>2. CASE ~ (j + 1 <= m)
        <5>1. j = m
          BY <2>1, <3>3, <4>2
        <5> QED BY <1>2, <2>1, <3>2, <3>4, <4>2, <5>1
      <4> QED BY <4>1, <4>2
    <3>8. j + 1 <= m => L[k][j + 1] = T[k][first + w]
      <4> SUFFICES ASSUME j + 1 <= m PROVE L[k][j + 1] = T[k][first + w]
        OBVIOUS
      <4>1. j + 1 \in 1..m
        BY <2>1, <3>3
      <4> QED BY <2>1, <3>2, <4>1
    <3>9. T[k + 1][first] = <<T[k][first], IF first + w <= n THEN T[k][first + w] ELSE T[k][first]>>
      BY <2>2, <3>5
    <3> QED BY <3>1, <3>2, <3>6, <3>7, <3>8, <3>9
  <2>7. W[k + 1] \in Nat /\ W[k + 1] >= 1
    BY <2>1, <2>2
  <2> QED BY <2>2, <2>5, <2>6, <2>7 DEF l
<1> HIDE DEF Q
<1>12. Nat \subseteq Q
  BY <1>10, <1>11, SetInduction
<1>13. \A k \in 0..n : Fits(k)
  <2> HIDE DEF Fits
  <2> QED BY <1>2, <1>12 DEF Q
<1>14. \A k \in 0..n : W[k] >= n <=> Len(L[k]) = 1
  <2> TAKE k \in 0..n
  <2> DEFINE w == W[k]
             m == Len(L[k])
  <2>1. w \in Nat /\ w >= 1 /\ m \in Nat /\ m >= 1 /\ (m - 1) * w < n /\ n <= m * w
    BY <1>9, <1>13
  <2> HIDE DEF w, m
  <2>2. ASSUME w >= n, m >= 2 PROVE FALSE
    <3>1. (m - 1) * w >= w
      BY <2>1, <2>2
    <3>2. (m - 1) * w \in Int
      BY <2>1
    <3> QED BY <1>2, <2>1, <2>2, <3>1, <3>2
  <2>3. ASSUME m = 1 PROVE w >= n
    BY <1>2, <2>1, <2>3
  <2>4. w >= n <=> m = 1
    BY <2>1, <2>2, <2>3
  <2> QED BY <2>4 DEF w, m
<1>15. /\ Top(b) \in 0..n /\ Len(L[Top(b)]) = 1 /\ \A j \in 0..(Top(b) - 1) : Len(L[j]) > 1
  BY TopIs DEF L, n
<1>16. height = Top(b)
  <2> DEFINE t == Top(b)
             Least(h) == W[h] >= n /\ \A g \in 0..(h - 1) : W[g] < n
  <2>1. t \in 0..n /\ W[t] >= n
    BY <1>14, <1>15
  <2>2. \A g \in 0..(t - 1) : W[g] < n
    <3> TAKE g \in 0..(t - 1)
    <3>1. g \in 0..n /\ Len(L[g]) # 1
      <4>1. g \in 0..n
        BY <1>2, <2>1
      <4> DEFINE x == Len(L[g])
      <4>2. x > 1 /\ x \in Nat
        BY <1>9, <1>15, <4>1
      <4> HIDE DEF x
      <4>3. x # 1
        BY <4>2
      <4> QED BY <4>1, <4>3 DEF x
    <3>2. ~ (W[g] >= n) /\ W[g] \in Nat
      BY <1>13, <1>14, <3>1
    <3> QED BY <1>2, <3>2
  <2>3. Least(t)
    BY <2>1, <2>2
  <2>4. height \in 0..n /\ Least(height)
    <3>1. height = CHOOSE h \in 0..n : Least(h)
      OBVIOUS
    <3> HIDE DEF Least
    <3> QED BY <2>1, <2>3, <3>1
  <2> HIDE DEF t, height
  <2>5. \A g \in 0..n : W[g] \in Nat
    BY <1>13
  <2>6. ~ (t < height)
    <3> SUFFICES ASSUME t < height PROVE FALSE
      OBVIOUS
    <3>1. t \in 0..(height - 1)
      BY <1>2, <2>1, <2>4
    <3> QED BY <1>2, <2>1, <2>4, <2>5, <3>1
  <2>7. ~ (height < t)
    <3> SUFFICES ASSUME height < t PROVE FALSE
      OBVIOUS
    <3>1. height \in 0..(t - 1)
      BY <1>2, <2>1, <2>4
    <3> QED BY <1>2, <2>3, <2>4, <2>5, <3>1
  <2>8. height = t
    BY <1>2, <2>1, <2>4, <2>6, <2>7
  <2> QED BY <2>8 DEF t
<1> HIDE DEF height
<1>17. L[Top(b)][1] = T[Top(b)][1]
  <2> DEFINE t == Top(b)
  <2>1. Fits(t) /\ Len(L[t]) = 1 /\ W[t] \in Nat
    BY <1>13, <1>15
  <2>2. L[t][1] = T[t][(1 - 1) * W[t] + 1]
    BY <2>1
  <2>3. (1 - 1) * W[t] + 1 = 1
    BY <2>1
  <2> QED BY <2>2, <2>3
<1>18. MerkleRoot(b) = L[Top(b)][1]
  BY DEF MerkleRoot, L
<1> QED BY <1>1, <1>16, <1>17, <1>18

-----------------------------------------------------------------------------
(* The rows of a batch. *)

IsRow(b, k, p) == k \in 0..Top(b) /\ p \in Nat /\ p < Len(LevelsUp(b)[k])

LEMMA RowsAre ==
  ASSUME NEW b, List(b), Len(b) >= 1
  PROVE  /\ \A kp \in DOMAIN NodeRows(Levels(b)) : \E k, p : kp = <<k, p>> /\ IsRow(b, k, p)
         /\ \A k, p : IsRow(b, k, p) =>
              /\ <<k, p>> \in DOMAIN NodeRows(Levels(b))
              /\ NodeRows(Levels(b))[<<k, p>>] = NodeRow(Levels(b), k, p)
<1> DEFINE levels == Levels(b)
           places == UNION {{<<k, p>> : p \in 0..(Len(levels[k]) - 1)} : k \in DOMAIN levels}
<1>1. /\ DOMAIN levels = 0..Top(b)
      /\ \A k \in 0..Top(b) : levels[k] = LevelsUp(b)[k] /\ Len(levels[k]) \in Nat
  <2>1. Top(b) \in 0..Len(b) /\ Len(b) \in Nat
    BY TopIs DEF List
  <2>2. \A k \in 0..Top(b) : k \in 0..Len(b)
    BY <2>1
  <2> QED BY <2>2, LevelList DEF Levels
<1>2. NodeRows(levels) = [kp \in places |-> NodeRow(levels, kp[1], kp[2])]
  BY DEF NodeRows
<1> HIDE DEF levels
<1>3. ASSUME NEW kp \in places PROVE \E k, p : kp = <<k, p>> /\ IsRow(b, k, p)
  <2>0. PICK k \in 0..Top(b) : kp \in {<<k, p>> : p \in 0..(Len(levels[k]) - 1)}
    BY <1>1
  <2>1. PICK p \in 0..(Len(levels[k]) - 1) : kp = <<k, p>>
    BY <2>0
  <2>2. p \in Nat /\ p < Len(levels[k])
    BY <1>1, <2>1
  <2> QED BY <1>1, <2>1, <2>2 DEF IsRow
<1>4. ASSUME NEW k, NEW p, IsRow(b, k, p) PROVE <<k, p>> \in places
  <2>1. k \in DOMAIN levels /\ p \in 0..(Len(levels[k]) - 1)
    BY <1>1, <1>4 DEF IsRow
  <2> QED BY <2>1
<1> HIDE DEF places
<1> QED BY <1>2, <1>3, <1>4 DEF levels

TreeInv ==
  /\ leaves \in Seq(Leaf) /\ Len(leaves) <= MaxLeaves
  /\ nodes = <<>> \/ (leaves # <<>> /\ nodes = NodeRows(Levels(leaves)))

LEMMA LeavesAre ==
  ASSUME TreeInv, leaves # <<>>
  PROVE  List(leaves) /\ Len(leaves) \in Nat /\ Len(leaves) >= 1 /\ Len(leaves) <= MaxLeaves /\ MaxLeaves \in Nat
<1>1. Len(leaves) \in Nat /\ Len(leaves) # 0
  BY EmptySeq DEF TreeInv
<1> QED BY <1>1, SeqIsList, TreeAssumption DEF TreeInv

LEMMA PairIsHash == \A x, y : <<x, y>> \notin {Null, KeyError}
<1> SUFFICES ASSUME NEW x, NEW y PROVE <<x, y>> # <<>> /\ <<x, y>> # <<"KeyError">>
  BY DEF Null, KeyError
<1>1. DOMAIN <<x, y>> = 1..2 /\ DOMAIN <<"KeyError">> = 1..1 /\ 2 \in 1..2 /\ 2 \notin 1..1
  OBVIOUS
<1> QED BY <1>1

\* What the levels hold are hashes.
LEMMA HashesAre ==
  ASSUME TreeInv, leaves # <<>>, NEW k \in 0..Len(leaves), NEW i \in 1..Len(LevelsUp(leaves)[k])
  PROVE  LevelsUp(leaves)[k][i] \notin {Null, KeyError}
<1> DEFINE L == LevelsUp(leaves)
<1>1. L[0] = leaves /\ \A j \in 1..Len(leaves) : L[j] = NextLevel(L[j - 1])
  BY LeavesAre, LevelsAre
<1>2. CASE k = 0
  <2>1. L[k][i] \in Leaf
    BY <1>1, <1>2 DEF TreeInv
  <2> QED BY <2>1, TreeAssumption
<1>3. CASE k # 0
  <2>1. k - 1 \in 0..Len(leaves) /\ k \in 1..Len(leaves)
    BY <1>3, LeavesAre
  <2>2. List(L[k - 1]) /\ Len(L[k - 1]) >= 1
    BY <2>1, LeavesAre, LevelList
  <2>3. L[k] = NextLevel(L[k - 1])
    BY <1>1, <2>1
  <2>4. i \in 1..Len(NextLevel(L[k - 1]))
    BY <2>3
  <2> HIDE DEF L
  <2>5. \E x, y : NextLevel(L[k - 1])[i] = <<x, y>>
    BY <2>2, <2>4, NextIs
  <2> QED BY <2>3, <2>5, PairIsHash DEF L
<1> QED BY <1>2, <1>3

\* What a lookup finds.
LEMMA FoundIs ==
  ASSUME TreeInv, leaves # <<>>, nodes = NodeRows(Levels(leaves)),
         NEW k \in 0..(MaxLeaves + 1), NEW p \in 0..(MaxLeaves + 1)
  PROVE  /\ IsRow(leaves, k, p) => /\ NodeHash[k, p] = LevelsUp(leaves)[k][p + 1]
                                   /\ NodeHash[k, p] \notin {Null, KeyError}
         /\ ~ IsRow(leaves, k, p) => NodeHash[k, p] = Null
<1>1. NodeHash[k, p] = IF <<k, p>> \in DOMAIN nodes THEN nodes[<<k, p>>].hash ELSE Null
  BY DEF NodeHash, Place, Stored
<1>2. CASE IsRow(leaves, k, p)
  <2>1. /\ Top(leaves) \in 0..Len(leaves) /\ Len(leaves) \in Nat
        /\ k \in 0..Len(leaves)
    BY <1>2, LeavesAre, TopIs DEF IsRow
  <2>2. <<k, p>> \in DOMAIN nodes /\ nodes[<<k, p>>] = NodeRow(Levels(leaves), k, p)
    BY <1>2, LeavesAre, RowsAre
  <2>3. nodes[<<k, p>>].hash = LevelsUp(leaves)[k][p + 1]
    BY <1>2, <2>2 DEF NodeRow, Levels, IsRow
  <2>4. p + 1 \in 1..Len(LevelsUp(leaves)[k])
    <3>1. Len(LevelsUp(leaves)[k]) \in Nat
      BY <2>1, LeavesAre, LevelList
    <3> QED BY <1>2, <3>1 DEF IsRow
  <2>5. LevelsUp(leaves)[k][p + 1] \notin {Null, KeyError}
    BY <2>1, <2>4, HashesAre
  <2> QED BY <1>1, <1>2, <2>2, <2>3, <2>5
<1>3. CASE ~ IsRow(leaves, k, p)
  <2>1. <<k, p>> \notin DOMAIN nodes
    <3> SUFFICES ASSUME <<k, p>> \in DOMAIN nodes PROVE FALSE
      OBVIOUS
    <3>1. PICK j, q : <<k, p>> = <<j, q>> /\ IsRow(leaves, j, q)
      BY LeavesAre, RowsAre
    <3>2. k = j /\ p = q
      BY <3>1
    <3> QED BY <1>3, <3>1, <3>2
  <2> QED BY <1>1, <1>3, <2>1
<1> QED BY <1>2, <1>3

LEMMA RowsLinked ==
  ASSUME TreeInv, leaves # <<>>, nodes = NodeRows(Levels(leaves))
  PROVE  NodesLinked
<1> DEFINE L == LevelsUp(leaves)
<1> SUFFICES ASSUME NEW kp \in Stored, kp[1] > 0
             PROVE  LET row == nodes[kp]
                        left == NodeHash[kp[1] - 1, 2 * kp[2]]
                        right == NodeHash[kp[1] - 1, 2 * kp[2] + 1]
                    IN  /\ row.hash = Hash(row.left, row.right)
                        /\ row.left = left
                        /\ row.right = IF right = Null THEN left ELSE right
  BY DEF NodesLinked
<1>1. PICK k, p : kp = <<k, p>> /\ IsRow(leaves, k, p)
  BY LeavesAre, RowsAre DEF Stored
<1>2. k \in 1..Top(leaves) /\ k - 1 \in 0..Top(leaves) /\ Top(leaves) \in 0..Len(leaves) /\ k - 1 \in 0..Len(leaves)
      /\ k \in 1..Len(leaves) /\ p \in Nat /\ p < Len(L[k])
  BY <1>1, LeavesAre, TopIs DEF IsRow
<1> DEFINE s == L[k - 1]
<1>3. /\ List(s) /\ Len(s) \in Nat /\ Len(s) >= 1 /\ Len(s) <= Len(leaves)
  BY <1>2, LeavesAre, LevelList
<1>4. L[k] = NextLevel(s)
  BY <1>2, LeavesAre, LevelsAre
<1>5. /\ Len(L[k]) \in Nat /\ 2 * Len(L[k]) \in {Len(s), Len(s) + 1} /\ 2 * (p + 1) - 1 \in 1..Len(s)
      /\ L[k][p + 1] = <<s[2 * (p + 1) - 1], IF 2 * (p + 1) <= Len(s) THEN s[2 * (p + 1)] ELSE s[2 * (p + 1) - 1]>>
  <2> HIDE DEF L, s
  <2>1. Len(L[k]) \in Nat /\ 2 * Len(L[k]) \in {Len(s), Len(s) + 1}
    BY <1>3, <1>4, NextIs
  <2>2. p + 1 \in 1..Len(L[k])
    BY <1>2, <2>1
  <2> QED BY <1>3, <1>4, <2>1, <2>2, NextIs
<1>6. nodes[kp] = NodeRow(Levels(leaves), k, p) /\ Levels(leaves)[k] = L[k] /\ Levels(leaves)[k - 1] = s
  BY <1>1, <1>2, LeavesAre, RowsAre DEF Levels
<1> DEFINE l == 2 * p
<1>7. 2 * (p + 1) - 1 = l + 1 /\ 2 * (p + 1) = l + 2 /\ l \in Nat /\ (l + 1) + 1 = l + 2
      /\ (2 * (p + 1) <= Len(s) <=> l + 1 < Len(s)) /\ l < Len(s) /\ l + 1 <= Len(s)
  BY <1>2, <1>3, <1>5, SMTT(30)
<1> HIDE DEF L, s
<1>8. /\ nodes[kp].hash = L[k][p + 1]
      /\ nodes[kp].left = s[l + 1]
      /\ nodes[kp].right = IF l + 1 < Len(s) THEN s[l + 2] ELSE s[l + 1]
  BY <1>2, <1>6, <1>7 DEF NodeRow
<1>9. nodes[kp].hash = Hash(nodes[kp].left, nodes[kp].right)
  BY <1>5, <1>7, <1>8 DEF Hash
<1>10. k - 1 \in 0..(MaxLeaves + 1) /\ l \in 0..(MaxLeaves + 1) /\ l + 1 \in 0..(MaxLeaves + 1)
  BY <1>2, <1>3, <1>7, LeavesAre
<1>11. IsRow(leaves, k - 1, l) /\ (IsRow(leaves, k - 1, l + 1) <=> l + 1 < Len(s))
  BY <1>2, <1>7 DEF IsRow, s, L
<1>12. NodeHash[k - 1, l] = s[l + 1]
  BY <1>10, <1>11, FoundIs DEF s, L
<1>13. NodeHash[k - 1, l + 1] = IF l + 1 < Len(s) THEN s[l + 2] ELSE Null
  BY <1>7, <1>10, <1>11, FoundIs DEF s, L
<1>14. l + 1 < Len(s) => s[l + 2] # Null
  BY <1>10, <1>11, <1>13, FoundIs
<1> QED BY <1>1, <1>8, <1>9, <1>12, <1>13, <1>14

-----------------------------------------------------------------------------
(* The climb. *)

LEMMA PositionsAre ==
  ASSUME NEW i \in Nat
  PROVE  /\ PositionsUp(i)[0] = i /\ \A k \in 0..(MaxLeaves + 1) : PositionsUp(i)[k] \in Nat
         /\ \A k \in 0..MaxLeaves : PositionsUp(i)[k + 1] = PositionsUp(i)[k] \div 2
<1> DEFINE n == MaxLeaves + 1
           Body(f) == [k \in 0..n |-> IF k = 0 THEN i ELSE f[k - 1] \div 2]
           Up(f, m) == f \in [0..m -> Nat] /\ f[0] = i /\ \A k \in 1..m : f[k] = f[k - 1] \div 2
           Q == {m \in Nat : \E f : Up(f, m)}
<1>1. n \in Nat
  BY TreeAssumption
<1>2. 0 \in Q
  <2>1. Up([k \in 0..0 |-> i], 0)
    OBVIOUS
  <2> QED BY <2>1
<1>3. ASSUME NEW m \in Nat, m \in Q PROVE m + 1 \in Q
  <2>1. PICK f : Up(f, m)
    BY <1>3
  <2> DEFINE g == [k \in 0..(m + 1) |-> IF k = m + 1 THEN f[m] \div 2 ELSE f[k]]
  <2>2. g \in [0..(m + 1) -> Nat] /\ g[0] = i
    <3>1. f[m] \in Nat /\ \A x \in Nat : x \div 2 \in Nat
      BY <2>1
    <3> QED BY <2>1, <3>1
  <2>3. \A k \in 1..m : g[k] = f[k] /\ g[k - 1] = f[k - 1]
    OBVIOUS
  <2>4. g[m + 1] = g[m] \div 2 /\ (m + 1) - 1 = m
    OBVIOUS
  <2>5. ASSUME NEW k \in 1..(m + 1) PROVE g[k] = g[k - 1] \div 2
    <3>1. CASE k = m + 1
      BY <2>4, <3>1
    <3>2. CASE k # m + 1
      <4>1. k \in 1..m
        BY <3>2
      <4> HIDE DEF g
      <4> QED BY <2>1, <2>3, <4>1
    <3> QED BY <3>1, <3>2
  <2> HIDE DEF g
  <2>6. Up(g, m + 1)
    BY <2>2, <2>5
  <2> HIDE DEF Up
  <2>7. m + 1 \in Nat
    OBVIOUS
  <2> QED BY <2>6, <2>7
<1> HIDE DEF n
<1>4. PICK f : Up(f, n)
  <2> HIDE DEF Q
  <2>1. n \in Q
    BY <1>1, <1>2, <1>3, SetInduction
  <2> QED BY <2>1 DEF Q
<1>5. f = Body(f)
  <2>1. \A k \in 0..n : f[k] = IF k = 0 THEN i ELSE f[k - 1] \div 2
    <3> TAKE k \in 0..n
    <3>1. k # 0 => k \in 1..n
      BY <1>1
    <3> QED BY <1>4, <3>1
  <2> QED BY <1>4, <2>1
<1> DEFINE position == CHOOSE g : g = Body(g)
<1>6. PositionsUp(i) = position
  BY DEF PositionsUp, n
<1>7. position = Body(position)
  <2> HIDE DEF Body
  <2> QED BY <1>5
<1> HIDE DEF position
<1>8. position[0] = i /\ \A k \in 1..n : position[k] = position[k - 1] \div 2
  BY <1>1, <1>7
<1> DEFINE R == {k \in Nat : k <= n => position[k] \in Nat}
<1>9. 0 \in R
  BY <1>8
<1>10. ASSUME NEW k \in Nat, k \in R PROVE k + 1 \in R
  <2> SUFFICES ASSUME k + 1 <= n PROVE position[k + 1] \in Nat
    OBVIOUS
  <2>1. position[k] \in Nat /\ k + 1 \in 1..n /\ (k + 1) - 1 = k
    BY <1>1, <1>10
  <2>2. position[k + 1] = position[k] \div 2
    BY <1>8, <2>1
  <2>3. \A x \in Nat : x \div 2 \in Nat
    OBVIOUS
  <2> QED BY <2>1, <2>2, <2>3
<1> HIDE DEF R
<1>11. Nat \subseteq R
  BY <1>9, <1>10, SetInduction
<1>12. \A k \in 0..n : position[k] \in Nat
  BY <1>1, <1>11 DEF R
<1>13. \A k \in 0..MaxLeaves : position[k + 1] = position[k] \div 2
  <2> TAKE k \in 0..MaxLeaves
  <2>1. k + 1 \in 1..n /\ (k + 1) - 1 = k
    BY TreeAssumption DEF n
  <2> QED BY <1>8, <2>1
<1> QED BY <1>6, <1>8, <1>12, <1>13 DEF n

\* The position at each level is that of a row, up to the root.
LEMMA InLevel ==
  ASSUME NEW b, List(b), Len(b) >= 1, Len(b) <= MaxLeaves, NEW i \in Nat, i < Len(b)
  PROVE  \A k \in 0..Top(b) : PositionsUp(i)[k] \in Nat /\ PositionsUp(i)[k] < Len(LevelsUp(b)[k])
<1> DEFINE L == LevelsUp(b)
           P == PositionsUp(i)
           Q == {k \in Nat : k <= Top(b) => P[k] \in Nat /\ P[k] < Len(L[k])}
<1>1. Top(b) \in 0..Len(b) /\ Len(b) \in Nat /\ MaxLeaves \in Nat
  BY TopIs, TreeAssumption DEF List
<1>2. L[0] = b /\ \A k \in 1..Len(b) : L[k] = NextLevel(L[k - 1])
  BY <1>1, LevelsAre
<1>3. P[0] = i /\ \A k \in 0..MaxLeaves : P[k + 1] = P[k] \div 2
  BY PositionsAre
<1>4. \A k \in 0..Len(b) : List(L[k]) /\ Len(L[k]) >= 1 /\ Len(L[k]) \in Nat
  BY LevelList
<1> HIDE DEF L, P
<1>5. 0 \in Q
  BY <1>2, <1>3
<1>6. ASSUME NEW k \in Nat, k \in Q PROVE k + 1 \in Q
  <2> SUFFICES ASSUME k + 1 <= Top(b) PROVE P[k + 1] \in Nat /\ P[k + 1] < Len(L[k + 1])
    OBVIOUS
  <2>1. k \in 0..Len(b) /\ k + 1 \in 1..Len(b) /\ (k + 1) - 1 = k /\ k \in 0..MaxLeaves /\ k <= Top(b)
    BY <1>1
  <2>2. P[k] \in Nat /\ P[k] < Len(L[k]) /\ P[k + 1] = P[k] \div 2 /\ L[k + 1] = NextLevel(L[k])
    BY <1>2, <1>3, <1>6, <2>1
  <2>3. Len(L[k]) \in Nat /\ Len(L[k + 1]) \in Nat /\ 2 * Len(L[k + 1]) \in {Len(L[k]), Len(L[k]) + 1}
    BY <1>4, <2>1, <2>2, NextIs
  <2>4. \A p \in Nat, x \in Nat, y \in Nat : p < x /\ 2 * y \in {x, x + 1} => p \div 2 \in Nat /\ p \div 2 < y
    OBVIOUS
  <2> QED BY <2>2, <2>3, <2>4
<1> HIDE DEF Q
<1>7. Nat \subseteq Q
  BY <1>5, <1>6, SetInduction
<1> QED BY <1>1, <1>7 DEF Q, L, P

\* What is hashed at each level of the climb.
Beside(b, i, k) ==
  LET l == LevelsUp(b)[k]
      p == PositionsUp(i)[k]
  IN  IF p % 2 = 0 THEN (IF p + 1 < Len(l) THEN l[p + 2] ELSE l[p + 1]) ELSE l[p]

LEMMA ClimbIs ==
  ASSUME TreeInv, leaves # <<>>, nodes = NodeRows(Levels(leaves)), NEW i \in Nat, i < Len(leaves)
  PROVE  ProofHashes(NodeHash, i) = [k \in 1..Top(leaves) |-> Beside(leaves, i, k - 1)]
<1> DEFINE L == LevelsUp(leaves)
           P == PositionsUp(i)
           top == Top(leaves)
           current == [level \in 0..MaxLeaves |-> NodeHash[level, P[level]]]
           sibling == [level \in 0..MaxLeaves |-> NodeHash[level, Sibling(P[level])]]
           above == [level \in 0..MaxLeaves |-> NodeHash[level + 1, P[level + 1]]]
           fails(level) == KeyError \in {sibling[level], current[level], above[level]}
           last == CHOOSE level \in 0..MaxLeaves :
                     /\ fails(level) \/ above[level] = Null
                     /\ \A k \in 0..(level - 1) : ~fails(k) /\ above[k] # Null
<1>1. ProofHashes(NodeHash, i) =
        IF fails(last) THEN KeyError
        ELSE [k \in 1..last |-> IF sibling[k - 1] = Null THEN current[k - 1] ELSE sibling[k - 1]]
  BY DEF ProofHashes
<1>2. List(leaves) /\ Len(leaves) \in Nat /\ Len(leaves) >= 1 /\ Len(leaves) <= MaxLeaves /\ MaxLeaves \in Nat
  BY LeavesAre
<1>3. top \in 0..Len(leaves) /\ Len(L[top]) = 1 /\ \A j \in 0..(top - 1) : Len(L[j]) > 1
  BY <1>2, TopIs
<1>4. \A k \in 0..top : P[k] \in Nat /\ P[k] < Len(L[k])
  BY <1>2, InLevel
<1>5. \A k \in 0..top : Len(L[k]) \in Nat /\ Len(L[k]) <= Len(leaves)
  <2>1. \A k \in 0..top : k \in 0..Len(leaves)
    BY <1>2, <1>3
  <2> HIDE DEF top
  <2> QED BY <1>2, <2>1, LevelList
<1>6. \A k \in 0..(MaxLeaves + 1) : P[k] \in Nat
  BY PositionsAre
<1>7. /\ \A k \in 0..top, p \in 0..MaxLeaves :
           /\ p < Len(L[k]) => NodeHash[k, p] = L[k][p + 1] /\ NodeHash[k, p] \notin {Null, KeyError}
           /\ ~ (p < Len(L[k])) => NodeHash[k, p] = Null
      /\ \A k \in 0..(MaxLeaves + 1), p \in 0..MaxLeaves : k > top => NodeHash[k, p] = Null
  <2>1. ASSUME NEW k \in 0..(MaxLeaves + 1), NEW p \in 0..MaxLeaves
        PROVE  /\ IsRow(leaves, k, p) => NodeHash[k, p] = L[k][p + 1] /\ NodeHash[k, p] \notin {Null, KeyError}
               /\ ~ IsRow(leaves, k, p) => NodeHash[k, p] = Null
    <3>1. p \in 0..(MaxLeaves + 1)
      BY <1>2
    <3> QED BY <3>1, FoundIs
  <2>2. \A k \in 0..top : k \in 0..(MaxLeaves + 1)
    BY <1>2, <1>3
  <2>3. \A k \in 0..(MaxLeaves + 1), p \in 0..MaxLeaves : k > top => ~ IsRow(leaves, k, p)
    BY <1>3 DEF IsRow
  <2>4. \A k \in 0..top, p \in 0..MaxLeaves : IsRow(leaves, k, p) <=> p < Len(L[k])
    BY DEF IsRow
  <2> HIDE DEF L, top
  <2> QED BY <2>1, <2>2, <2>3, <2>4
<1> HIDE DEF L, P, top
<1>8. ASSUME NEW k \in 0..top
      PROVE  /\ k \in 0..MaxLeaves
             /\ current[k] = L[k][P[k] + 1] /\ current[k] \notin {Null, KeyError}
             /\ sibling[k] # KeyError
             /\ P[k] % 2 # 0 => sibling[k] = L[k][P[k]] /\ sibling[k] # Null
             /\ P[k] % 2 = 0 => IF P[k] + 1 < Len(L[k]) THEN sibling[k] = L[k][P[k] + 2] /\ sibling[k] # Null
                                ELSE sibling[k] = Null
  <2> DEFINE p == P[k]
             len == Len(L[k])
  <2>1. k \in 0..MaxLeaves /\ p \in Nat /\ p < len /\ len \in Nat /\ len <= MaxLeaves
    BY <1>2, <1>3, <1>4, <1>5
  <2>2. current[k] = NodeHash[k, p] /\ sibling[k] = NodeHash[k, Sibling(p)]
    BY <2>1
  <2> HIDE DEF p, len, current, sibling
  <2>3. p \in 0..MaxLeaves /\ p + 1 \in 0..MaxLeaves /\ (p % 2 # 0 => p - 1 \in 0..MaxLeaves)
    BY <1>2, <2>1
  <2>4. current[k] = L[k][p + 1] /\ current[k] \notin {Null, KeyError}
    BY <1>7, <2>1, <2>2, <2>3 DEF len
  <2>5. ASSUME p % 2 # 0 PROVE sibling[k] = L[k][p] /\ sibling[k] \notin {Null, KeyError}
    <3>1. sibling[k] = NodeHash[k, p - 1] /\ p - 1 \in 0..MaxLeaves /\ p - 1 < len /\ (p - 1) + 1 = p
      <4>1. Sibling(p) = p - 1
        BY <2>5 DEF Sibling
      <4>2. p - 1 < len /\ (p - 1) + 1 = p
        BY <2>1
      <4> QED BY <2>2, <2>3, <2>5, <4>1, <4>2
    <3> QED BY <1>7, <3>1 DEF len
  <2>6. ASSUME p % 2 = 0, p + 1 < len PROVE sibling[k] = L[k][p + 2] /\ sibling[k] \notin {Null, KeyError}
    <3>1. sibling[k] = NodeHash[k, p + 1] /\ (p + 1) + 1 = p + 2
      <4>1. Sibling(p) = p + 1
        BY <2>6 DEF Sibling
      <4>2. (p + 1) + 1 = p + 2
        BY <2>1
      <4> QED BY <2>2, <4>1, <4>2
    <3> QED BY <1>7, <2>3, <2>6, <3>1 DEF len
  <2>7. ASSUME p % 2 = 0, ~ (p + 1 < len) PROVE sibling[k] = Null
    <3>1. sibling[k] = NodeHash[k, p + 1]
      BY <2>2, <2>7 DEF Sibling
    <3> QED BY <1>7, <2>3, <2>7, <3>1 DEF len
  <2>8. Null # KeyError
    <3>1. DOMAIN <<>> = {} /\ DOMAIN <<"KeyError">> = {1}
      OBVIOUS
    <3> QED BY <3>1 DEF Null, KeyError
  <2> QED BY <2>1, <2>4, <2>5, <2>6, <2>7, <2>8 DEF p, len
<1>9. \A k \in 0..top : P[k] \in 0..MaxLeaves
  BY <1>2, <1>4, <1>5
<1>10. \A k \in 0..(top - 1) : above[k] \notin {Null, KeyError} /\ k \in 0..top /\ k \in 0..MaxLeaves
  <2> TAKE k \in 0..(top - 1)
  <2>1. k + 1 \in 0..top /\ k \in 0..top /\ k \in 0..MaxLeaves /\ above[k] = NodeHash[k + 1, P[k + 1]]
    <3>1. k + 1 \in 0..top /\ k \in 0..top /\ k \in 0..MaxLeaves
      BY <1>2, <1>3
    <3> QED BY <3>1
  <2> HIDE DEF above
  <2>2. P[k + 1] \in 0..MaxLeaves /\ P[k + 1] < Len(L[k + 1])
    BY <1>4, <1>9, <2>1
  <2>3. NodeHash[k + 1, P[k + 1]] \notin {Null, KeyError}
    BY <1>7, <2>1, <2>2
  <2> QED BY <2>1, <2>3
<1>11. above[top] = Null /\ top \in 0..MaxLeaves
  <2>1. top \in 0..MaxLeaves /\ top + 1 \in 0..(MaxLeaves + 1) /\ top + 1 > top
    BY <1>2, <1>3
  <2>2. P[top] = 0 /\ P[top + 1] = P[top] \div 2
    <3>0. top \in 0..top
      BY <1>3
    <3>1. P[top] \in Nat /\ P[top] < 1
      <4>1. Len(L[top]) = 1 /\ P[top] \in Nat /\ P[top] < Len(L[top])
        BY <1>3, <1>4, <3>0
      <4> QED BY <4>1
    <3>2. P[top + 1] = P[top] \div 2
      BY <2>1, PositionsAre DEF P
    <3> QED BY <3>1, <3>2
  <2>3. P[top + 1] \in 0..MaxLeaves
    BY <1>2, <2>2
  <2> QED BY <1>7, <2>1, <2>3
<1>12. Null # KeyError
  <2>1. DOMAIN <<>> = {} /\ DOMAIN <<"KeyError">> = {1}
    OBVIOUS
  <2> QED BY <2>1 DEF Null, KeyError
<1>13. \A k \in 0..top : ~ fails(k)
  <2> TAKE k \in 0..top
  <2>1. above[k] # KeyError
    <3>1. k = top \/ k \in 0..(top - 1)
      BY <1>3
    <3> QED BY <1>10, <1>11, <1>12, <3>1
  <2> HIDE DEF above, current, sibling
  <2> QED BY <1>8, <2>1
<1> DEFINE Ends(level) == /\ fails(level) \/ above[level] = Null
                          /\ \A k \in 0..(level - 1) : ~fails(k) /\ above[k] # Null
<1>14. last = top
  <2>1. Ends(top) /\ top \in 0..MaxLeaves
    <3> HIDE DEF above, current, sibling
    <3>1. \A k \in 0..(top - 1) : ~ fails(k) /\ above[k] # Null
      <4> HIDE DEF fails
      <4> QED BY <1>10, <1>13
    <3> HIDE DEF fails
    <3> QED BY <1>11, <3>1
  <2>2. last = CHOOSE level \in 0..MaxLeaves : Ends(level)
    OBVIOUS
  <2> HIDE DEF Ends, last
  <2>3. last \in 0..MaxLeaves /\ Ends(last)
    BY <2>1, <2>2
  <2> HIDE DEF fails, above, current, sibling
  <2>4. ~ (last < top)
    <3> SUFFICES ASSUME last < top PROVE FALSE
      OBVIOUS
    <3>1. last \in 0..(top - 1)
      BY <1>3, <2>3
    <3>2. ~ fails(last) /\ above[last] # Null
      BY <1>10, <1>13, <3>1
    <3> QED BY <2>3, <3>2 DEF Ends
  <2>5. ~ (top < last)
    <3> SUFFICES ASSUME top < last PROVE FALSE
      OBVIOUS
    <3>1. top \in 0..(last - 1)
      BY <1>3, <2>3
    <3> QED BY <1>11, <2>3, <3>1 DEF Ends
  <2> QED BY <1>2, <1>3, <2>3, <2>4, <2>5
<1> HIDE DEF last, fails, current, sibling, above
<1>15. \A k \in 1..top :
         (IF sibling[k - 1] = Null THEN current[k - 1] ELSE sibling[k - 1]) = Beside(leaves, i, k - 1)
  <2> TAKE k \in 1..top
  <2> DEFINE j == k - 1
  <2>1. j \in 0..top
    BY <1>3
  <2> HIDE DEF j
  <2>2. Beside(leaves, i, j) = IF P[j] % 2 = 0 THEN (IF P[j] + 1 < Len(L[j]) THEN L[j][P[j] + 2] ELSE L[j][P[j] + 1])
                               ELSE L[j][P[j]]
    BY DEF Beside, L, P
  <2>3. (IF sibling[j] = Null THEN current[j] ELSE sibling[j]) = Beside(leaves, i, j)
    BY <1>8, <2>1, <2>2
  <2> QED BY <2>3 DEF j
<1>16. ~ fails(last)
  <2>1. top \in 0..top
    BY <1>3
  <2> QED BY <1>13, <1>14, <2>1
<1>17. ProofHashes(NodeHash, i)
         = [k \in 1..top |-> IF sibling[k - 1] = Null THEN current[k - 1] ELSE sibling[k - 1]]
  BY <1>1, <1>14, <1>16
<1> QED BY <1>15, <1>17 DEF top

-----------------------------------------------------------------------------
(* The auditor's check. *)

Side(i, k, mine, beside) ==
  IF PositionsUp(i)[k] % 2 = 0 THEN Hash(mine, beside) ELSE Hash(beside, mine)

LEMMA FoldIs ==
  ASSUME NEW x, NEW i, NEW proof, Len(proof) \in Nat
  PROVE  \E up : /\ up[0] = x /\ Fold(x, i, proof) = up[Len(proof)]
                 /\ \A k \in 1..Len(proof) : up[k] = Side(i, k - 1, up[k - 1], proof[k])
<1> DEFINE n == Len(proof)
           Body(f) == [k \in 0..n |-> IF k = 0 THEN x
                                     ELSE IF PositionsUp(i)[k - 1] % 2 = 0 THEN Hash(f[k - 1], proof[k])
                                     ELSE Hash(proof[k], f[k - 1])]
           Up(f, m) == /\ f = [k \in 0..m |-> f[k]] /\ f[0] = x
                       /\ \A k \in 1..m : f[k] = Side(i, k - 1, f[k - 1], proof[k])
           Q == {m \in Nat : \E f : Up(f, m)}
<1>0. n \in Nat
  OBVIOUS
<1>1. 0 \in Q
  <2>1. Up([k \in 0..0 |-> x], 0)
    OBVIOUS
  <2> QED BY <2>1
<1>2. ASSUME NEW m \in Nat, m \in Q PROVE m + 1 \in Q
  <2>1. PICK f : Up(f, m)
    BY <1>2
  <2> DEFINE g == [k \in 0..(m + 1) |-> IF k = m + 1 THEN Side(i, m, f[m], proof[m + 1]) ELSE f[k]]
  <2>2. g = [k \in 0..(m + 1) |-> g[k]]
    OBVIOUS
  <2>3. g[0] = f[0] /\ f[0] = x
    BY <2>1
  <2>4. \A k \in 1..m : g[k] = f[k] /\ g[k - 1] = f[k - 1]
    OBVIOUS
  <2>5. g[m + 1] = Side(i, m, g[m], proof[m + 1]) /\ (m + 1) - 1 = m
    OBVIOUS
  <2>6. ASSUME NEW k \in 1..(m + 1) PROVE g[k] = Side(i, k - 1, g[k - 1], proof[k])
    <3>1. CASE k = m + 1
      BY <2>5, <3>1
    <3>2. CASE k # m + 1
      <4>1. k \in 1..m
        BY <3>2
      <4> HIDE DEF g
      <4> QED BY <2>1, <2>4, <4>1
    <3> QED BY <3>1, <3>2
  <2> HIDE DEF g
  <2>7. Up(g, m + 1)
    BY <2>2, <2>3, <2>6
  <2>8. m + 1 \in Nat
    OBVIOUS
  <2> HIDE DEF Up
  <2> QED BY <2>7, <2>8
<1>3. PICK f : Up(f, n)
  <2> HIDE DEF Q
  <2> HIDE DEF n
  <2>1. n \in Q
    BY <1>0, <1>1, <1>2, SetInduction
  <2> QED BY <2>1 DEF Q
<1> HIDE DEF n
<1>4. f = Body(f)
  <2>1. \A k \in 0..n : f[k] = IF k = 0 THEN x
                               ELSE IF PositionsUp(i)[k - 1] % 2 = 0 THEN Hash(f[k - 1], proof[k])
                               ELSE Hash(proof[k], f[k - 1])
    <3> TAKE k \in 0..n
    <3>1. k # 0 => k \in 1..n
      BY <1>0
    <3> QED BY <1>3, <3>1 DEF Side
  <2> QED BY <1>3, <2>1
<1> DEFINE up == CHOOSE g : g = Body(g)
<1>5. Fold(x, i, proof) = up[n]
  BY DEF Fold, n
<1>6. up = Body(up)
  <2> HIDE DEF Body
  <2> QED BY <1>4
<1> HIDE DEF up
<1>7. up[0] = x /\ \A k \in 1..n : up[k] = Side(i, k - 1, up[k - 1], proof[k])
  BY <1>0, <1>6 DEF Side
<1> QED BY <1>5, <1>7 DEF n

LEMMA ClimbsProve ==
  ASSUME TreeInv, leaves # <<>>, nodes = NodeRows(Levels(leaves))
  PROVE  ClimbProves
<1> DEFINE L == LevelsUp(leaves)
           top == Top(leaves)
<1>1. List(leaves) /\ Len(leaves) \in Nat /\ Len(leaves) >= 1 /\ Len(leaves) <= MaxLeaves /\ MaxLeaves \in Nat
  BY LeavesAre
<1>2. top \in 0..Len(leaves) /\ Len(L[top]) = 1
  BY <1>1, TopIs
<1>3. L[0] = leaves /\ \A k \in 1..Len(leaves) : L[k] = NextLevel(L[k - 1])
  BY <1>1, LevelsAre
<1>4. \A k \in 0..top : List(L[k]) /\ Len(L[k]) \in Nat /\ Len(L[k]) >= 1
  <2>1. \A k \in 0..top : k \in 0..Len(leaves)
    BY <1>1, <1>2
  <2> HIDE DEF top
  <2> QED BY <1>1, <2>1, LevelList
<1> SUFFICES ASSUME NEW kp \in Stored, kp[1] = 0, NEW leaf \in Leaf
             PROVE  Fold(leaf, kp[2], ProofHashes(NodeHash, kp[2])) = MerkleRoot(leaves) <=> leaf = leaves[kp[2] + 1]
  BY DEF ClimbProves
<1>5. PICK i \in Nat : kp = <<0, i>> /\ i < Len(leaves)
  <2>1. PICK k, p : kp = <<k, p>> /\ IsRow(leaves, k, p)
    BY <1>1, RowsAre DEF Stored
  <2>2. k = 0 /\ p \in Nat /\ p < Len(L[k])
    BY <2>1 DEF IsRow
  <2> QED BY <1>3, <2>1, <2>2
<1> DEFINE P == PositionsUp(i)
           proof == [k \in 1..top |-> Beside(leaves, i, k - 1)]
<1>6. ProofHashes(NodeHash, i) = proof
  BY <1>5, ClimbIs
<1>7. Len(proof) = top
  <2>1. top \in Nat /\ proof = [k \in 1..top |-> proof[k]]
    BY <1>2
  <2> HIDE DEF proof, top
  <2> QED BY <2>1, ListOf
<1>8. \A k \in 0..top : P[k] \in Nat /\ P[k] < Len(L[k])
  BY <1>1, <1>5, InLevel
<1>9. P[0] = i /\ \A k \in 0..MaxLeaves : P[k + 1] = P[k] \div 2
  BY PositionsAre
<1>10. ASSUME NEW k \in 1..top
       PROVE  L[k][P[k] + 1] = Side(i, k - 1, L[k - 1][P[k - 1] + 1], proof[k])
  <2> DEFINE s == L[k - 1]
             p == P[k - 1]
             q == P[k]
  <2>1. k - 1 \in 0..top /\ k \in 0..top /\ k \in 1..Len(leaves) /\ k - 1 \in 0..MaxLeaves /\ (k - 1) + 1 = k
    BY <1>1, <1>2
  <2>2. List(s) /\ Len(s) \in Nat /\ Len(s) >= 1 /\ p \in Nat /\ p < Len(s) /\ q = p \div 2
    BY <1>4, <1>8, <1>9, <2>1
  <2>3. L[k] = NextLevel(s) /\ q \in Nat /\ q < Len(L[k]) /\ Len(L[k]) \in Nat
    BY <1>3, <1>4, <1>8, <2>1
  <2>4. proof[k] = IF p % 2 = 0 THEN (IF p + 1 < Len(s) THEN s[p + 2] ELSE s[p + 1]) ELSE s[p]
    BY DEF Beside
  <2>5. Side(i, k - 1, s[p + 1], proof[k]) = IF p % 2 = 0 THEN <<s[p + 1], proof[k]>> ELSE <<proof[k], s[p + 1]>>
    BY DEF Side, Hash
  <2> HIDE DEF s, p, q, L, proof
  <2>6. q + 1 \in 1..Len(NextLevel(s))
    BY <2>3
  <2>7. NextLevel(s)[q + 1] = <<s[2 * (q + 1) - 1], IF 2 * (q + 1) <= Len(s) THEN s[2 * (q + 1)] ELSE s[2 * (q + 1) - 1]>>
    BY <2>2, <2>6, NextIs
  <2>8. CASE p % 2 = 0
    <3>1. 2 * (q + 1) - 1 = p + 1 /\ 2 * (q + 1) = p + 2 /\ (p + 2 <= Len(s) <=> p + 1 < Len(s))
      BY <2>2, <2>8
    <3> QED BY <2>3, <2>4, <2>5, <2>7, <2>8, <3>1 DEF s, p, q
  <2>9. CASE p % 2 # 0
    <3>1. 2 * (q + 1) - 1 = p /\ 2 * (q + 1) = p + 1 /\ p + 1 <= Len(s)
      BY <2>2, <2>9
    <3> QED BY <2>3, <2>4, <2>5, <2>7, <2>9, <3>1 DEF s, p, q
  <2> QED BY <2>8, <2>9
<1>11. PICK up : /\ up[0] = leaf /\ Fold(leaf, i, proof) = up[top]
                 /\ \A k \in 1..top : up[k] = Side(i, k - 1, up[k - 1], proof[k])
  <2>1. top \in Nat
    BY <1>2
  <2> HIDE DEF proof, top
  <2>2. \E up : /\ up[0] = leaf /\ Fold(leaf, i, proof) = up[top]
                /\ \A k \in 1..top : up[k] = Side(i, k - 1, up[k - 1], proof[k])
    <3>1. Len(proof) \in Nat
      BY <1>7, <2>1
    <3>2. \E up : /\ up[0] = leaf /\ Fold(leaf, i, proof) = up[Len(proof)]
                  /\ \A k \in 1..Len(proof) : up[k] = Side(i, k - 1, up[k - 1], proof[k])
      BY <3>1, FoldIs
    <3> QED BY <1>7, <3>2
  <2> QED BY <2>2
<1> DEFINE node == [k \in 0..top |-> L[k][P[k] + 1]]
<1>12. node[0] = leaves[i + 1] /\ node[top] = MerkleRoot(leaves)
  <2>1. P[top] = 0 /\ 0 \in 0..top /\ top \in 0..top
    <3>1. 0 \in 0..top /\ top \in 0..top
      BY <1>2
    <3>2. P[top] \in Nat /\ P[top] < 1
      <4>1. P[top] \in Nat /\ P[top] < Len(L[top]) /\ Len(L[top]) = 1
        BY <1>2, <1>8, <3>1
      <4> QED BY <4>1
    <3> QED BY <3>1, <3>2
  <2> QED BY <1>3, <1>9, <2>1 DEF MerkleRoot
<1>13. \A k \in 1..top : node[k] = Side(i, k - 1, node[k - 1], proof[k])
  <2> TAKE k \in 1..top
  <2>1. k \in 0..top /\ k - 1 \in 0..top
    BY <1>2
  <2> QED BY <1>10, <2>1
<1> HIDE DEF node, proof, P
\* From the same start the check ends at the root; from the root it can have
\* started nowhere else.
<1>14. ASSUME up[0] = node[0] PROVE up[top] = node[top]
  <2> DEFINE Q == {k \in Nat : k <= top => up[k] = node[k]}
  <2>1. 0 \in Q
    BY <1>14
  <2>2. ASSUME NEW k \in Nat, k \in Q PROVE k + 1 \in Q
    <3> SUFFICES ASSUME k + 1 <= top PROVE up[k + 1] = node[k + 1]
      OBVIOUS
    <3>1. k + 1 \in 1..top /\ (k + 1) - 1 = k /\ up[k] = node[k]
      BY <1>2, <2>2
    <3> QED BY <1>11, <1>13, <3>1
  <2> HIDE DEF Q
  <2>3. top \in Q
    BY <1>2, <2>1, <2>2, SetInduction
  <2> QED BY <1>2, <2>3 DEF Q
<1>15. ASSUME up[top] = node[top] PROVE up[0] = node[0]
  <2> DEFINE Q == {j \in Nat : j <= top => up[top - j] = node[top - j]}
  <2>1. 0 \in Q
    <3>1. top - 0 = top
      BY <1>2
    <3> QED BY <1>15, <3>1
  <2>2. ASSUME NEW j \in Nat, j \in Q PROVE j + 1 \in Q
    <3> SUFFICES ASSUME j + 1 <= top PROVE up[top - (j + 1)] = node[top - (j + 1)]
      OBVIOUS
    <3> DEFINE k == top - j
    <3>1. k \in 1..top /\ k - 1 = top - (j + 1) /\ up[k] = node[k]
      BY <1>2, <2>2
    <3> HIDE DEF k
    <3>2. Side(i, k - 1, up[k - 1], proof[k]) = Side(i, k - 1, node[k - 1], proof[k])
      BY <1>11, <1>13, <3>1
    <3>3. up[k - 1] = node[k - 1]
      BY <3>2 DEF Side, Hash
    <3> QED BY <3>1, <3>3
  <2> HIDE DEF Q
  <2>3. top \in Q /\ top - top = 0
    BY <1>2, <2>1, <2>2, SetInduction
  <2> QED BY <1>2, <2>3 DEF Q
<1>16. Fold(leaf, i, ProofHashes(NodeHash, i)) = MerkleRoot(leaves) <=> leaf = leaves[i + 1]
  BY <1>6, <1>11, <1>12, <1>14, <1>15
<1> QED BY <1>5, <1>16

-----------------------------------------------------------------------------
(* The theorems of the tree. *)

LEMMA TreeInvHolds == TreeSpec => []TreeInv
<1>1. TreeInit => TreeInv
  BY TreeAssumption DEF TreeInit, TreeInv
<1>2. TreeInv /\ [TreeNext]_treeVars => TreeInv'
  <2> SUFFICES ASSUME TreeInv, [TreeNext]_treeVars PROVE TreeInv'
    OBVIOUS
  <2>1. CASE UNCHANGED treeVars
    BY <2>1 DEF treeVars, TreeInv
  <2>2. ASSUME NEW leaf \in Leaf, AddLeaf(leaf) PROVE TreeInv'
    <3>1. leaves' = Append(leaves, leaf) /\ nodes' = nodes /\ nodes = <<>> /\ Len(leaves) < MaxLeaves /\ leaves \in Seq(Leaf)
      BY <2>2 DEF AddLeaf, TreeInv
    <3>2. leaves' \in Seq(Leaf) /\ Len(leaves') = Len(leaves) + 1 /\ Len(leaves) \in Nat
      BY <3>1, AppendProperties
    <3> QED BY <3>1, <3>2, TreeAssumption DEF TreeInv
  <2>3. CASE PersistNodes
    BY <2>3 DEF PersistNodes, TreeInv
  <2>4. ASSUME NEW leafIndex \in 0..(MaxLeaves - 1), GetMerkleProof(leafIndex) PROVE TreeInv'
    BY <2>4 DEF GetMerkleProof, TreeInv
  <2> QED BY <2>1, <2>2, <2>3, <2>4 DEF TreeNext
<1> QED BY <1>1, <1>2, PTL DEF TreeSpec

\* Of any number of leaves the level by level loop of _build_merkle_batch makes
\* the root that the top-down definition gives.
THEOREM RootsAreCanonical == TreeSpec => []RootIsCanonical
<1>1. TreeInv => RootIsCanonical
  BY LeavesAre, CanonicalRoot DEF RootIsCanonical
<1> QED BY <1>1, TreeInvHolds, PTL

\* The root that is anchored commits to the leaves and their order, whatever
\* batch of as many leaves one would put in their place.
THEOREM RootsBindLeaves == TreeSpec => []RootBindsLeaves
<1>1. TreeInv => RootBindsLeaves
  <2> SUFFICES ASSUME TreeInv, leaves # <<>>, NEW other \in [1..Len(leaves) -> Leaf],
                      MerkleRoot(other) = MerkleRoot(leaves)
               PROVE  other = leaves
    BY DEF RootBindsLeaves
  <2>1. List(leaves) /\ Len(leaves) \in Nat /\ Len(leaves) >= 1
    BY LeavesAre
  <2>2. List(other) /\ Len(other) = Len(leaves)
    BY <2>1, ListOf
  <2> QED BY <2>1, <2>2, RootBinds
<1> QED BY <1>1, TreeInvHolds, PTL

\* What _persist_batch stores of a tree suffices: from the rows alone the climb
\* of get_merkle_proof finds, for every leaf, hashes that lead an auditor to the
\* root from that leaf and from no other.
THEOREM RowsSuffice == TreeSpec => []RowsProve
<1>1. TreeInv => RowsProve
  <2> SUFFICES ASSUME TreeInv PROVE NodesLinked /\ ClimbProves
    BY DEF RowsProve
  <2>1. CASE nodes = <<>>
    <3>1. Stored = {}
      BY <2>1 DEF Stored
    <3> QED BY <3>1 DEF NodesLinked, ClimbProves
  <2>2. CASE nodes # <<>>
    BY <2>2, RowsLinked, ClimbsProve DEF TreeInv
  <2> QED BY <2>1, <2>2
<1> QED BY <1>1, TreeInvHolds, PTL
=============================================================================
