--------------------------- MODULE PreviewsProofs ---------------------------
(***************************************************************************)
(* What Previews keeps for any cards, requests, rows and restarts: its     *)
(* types, that a box which is up is claimed or a known leftover, and that  *)
(* the limit is exceeded only by starts that overlap.                      *)
(***************************************************************************)
EXTENDS Previews, FiniteSetTheorems, TLAPS

RowTypes ==
    /\ owner \in [Ids -> Owners \cup {NoOne}]
    /\ status \in [Ids -> Statuses]
    /\ kept \subseteq Ids /\ noted \subseteq Ids
    /\ holds \in [Ids -> {"none", "this", "old"}]
    /\ \A i \in Ids : owner[i] = NoOne <=> status[i] = "none"

BoxTypes ==
    /\ box \in [Ids -> {"none", "up", "dead"}]
    /\ maker \in [Ids -> Doors \cup {NoDoor}]
    /\ images \subseteq Ids
    /\ swept \subseteq Ids
    /\ builder \in [Ids -> Trades]
    /\ known \subseteq Ids /\ adopted \subseteq Ids
    /\ overlapped \in BOOLEAN
    /\ acts \in 0 .. MaxActs /\ restarts \in 0 .. MaxRestarts

DoorTypes ==
    /\ door \in [Doors -> Requests]
    /\ \A d \in Doors : /\ door[d].at \in Started => door[d].owner \in Owners
                        /\ door[d].at \in OnRow => door[d].row \in Ids

Types == RowTypes /\ BoxTypes /\ DoorTypes

\* A row nobody has started has no box and no task; a task works on a row that
\* builds or was stopped meanwhile, has no box up before it runs one, and has
\* recorded its stack before it brings it up.
Shape ==
    \A i \in Ids :
        /\ status[i] = "none" => box[i] = "none" /\ builder[i] = "none"
        /\ builder[i] # "none" => status[i] \in {"building", "stopped"}
        /\ builder[i] \in {"noting", "building", "launching", "failing"} => ~Up(i)
        /\ Stacked(i) /\ (Up(i) \/ builder[i] = "building") => i \in noted
        /\ builder[i] \in {"launching", "checking"} => ~Stacked(i)

\* Who wakes a row of its own owner has no task beside it, and no stack.
Wakers ==
    \A d \in Doors : door[d].at \in Waking =>
        /\ status[door[d].row] # "none" /\ owner[door[d].row] = door[d].owner
        /\ builder[door[d].row] = "none"
        /\ door[d].at # "looking" => ~Stacked(door[d].row)

PInv == Types /\ Shape /\ Wakers /\ BoxesAreClaimed

----------------------------------------------------------------------------
(* Types. *)

LEMMA TypesAre == Types => TypeOK
  BY DEF Types, RowTypes, BoxTypes, DoorTypes, TypeOK

\* A request in order: it has the owner and the row its place is about.
InOrder(r) ==
    /\ r \in Requests
    /\ r.at \in Started => r.owner \in Owners
    /\ r.at \in OnRow => r.row \in Ids

LEMMA RequestChanges ==
    ASSUME DoorTypes, NEW d \in Doors, NEW r, InOrder(r), door' = [door EXCEPT ![d] = r]
    PROVE  DoorTypes'
  BY DEF DoorTypes, InOrder

LEMMA RequestLeaves ==
    ASSUME DoorTypes, NEW d \in Doors, Leave(d)
    PROVE  DoorTypes'
<1>1. At("idle") \in Requests /\ At("idle").at = "idle"
  BY BoundsAssumption DEF At, Requests, Places
<1>2. InOrder(At("idle"))
  BY <1>1 DEF InOrder, Started, OnRow, Waking
<1>3. QED
  BY <1>2, RequestChanges DEF Leave

LEMMA RequestGoes ==
    ASSUME DoorTypes, NEW d \in Doors, NEW p \in Places, Go(d, p),
           p \in Started => door[d].owner \in Owners,
           p \in OnRow => door[d].row \in Ids
    PROVE  DoorTypes'
<1>1. InOrder([door[d] EXCEPT !.at = p])
  BY DEF InOrder, DoorTypes, Requests
<1>2. door' = [door EXCEPT ![d] = [door[d] EXCEPT !.at = p]]
  BY DEF Go, DoorTypes
<1>3. QED
  BY <1>1, <1>2, RequestChanges

LEMMA RequestGoesTo ==
    ASSUME DoorTypes, NEW d \in Doors, NEW p \in Places, NEW i \in Ids, GoTo(d, p, i),
           p \in Started => door[d].owner \in Owners
    PROVE  DoorTypes'
<1>1. InOrder([door[d] EXCEPT !.at = p, !.row = i])
  <2>1. i \in 0 .. MaxRows
    BY BoundsAssumption DEF Ids
  <2>2. [door[d] EXCEPT !.at = p, !.row = i] \in Requests
    BY <2>1 DEF DoorTypes, Requests
  <2>3. QED
    BY <2>2 DEF InOrder, DoorTypes, Requests
<1>2. door' = [door EXCEPT ![d] = [door[d] EXCEPT !.at = p, !.row = i]]
  BY DEF GoTo, DoorTypes
<1>3. QED
  BY <1>1, <1>2, RequestChanges

\* What a person's request starts as.
LEMMA RequestsComeInOrder ==
    /\ \A o \in Owners : InOrder([At("finding") EXCEPT !.owner = o])
    /\ \A o \in Owners, i \in Ids, p \in {"reading", "unboxing"} :
          InOrder([At(p) EXCEPT !.owner = o, !.row = i])
    /\ \A S \in SUBSET Ids : InOrder([At("reclaiming") EXCEPT !.rest = S])
<1>1. \A o \in Owners : InOrder([At("finding") EXCEPT !.owner = o])
  BY BoundsAssumption DEF InOrder, At, Requests, Places, Started, OnRow, Waking
<1>2. ASSUME NEW o \in Owners, NEW i \in Ids, NEW p \in {"reading", "unboxing"}
      PROVE  InOrder([At(p) EXCEPT !.owner = o, !.row = i])
  <2>1. i \in 0 .. MaxRows
    BY BoundsAssumption DEF Ids
  <2>2. p \in Places /\ p \notin Started
    BY DEF Places, Started, Waking
  <2>3. At(p) \in Requests
    BY <2>2, BoundsAssumption DEF At, Requests
  <2>4. [At(p) EXCEPT !.owner = o, !.row = i] \in Requests
    BY <2>1, <2>3 DEF Requests
  <2>5. [At(p) EXCEPT !.owner = o, !.row = i].at = p /\ [At(p) EXCEPT !.owner = o, !.row = i].row = i
    BY DEF At
  <2>6. QED
    BY <2>2, <2>4, <2>5 DEF InOrder
<1>3. \A S \in SUBSET Ids : InOrder([At("reclaiming") EXCEPT !.rest = S])
  BY BoundsAssumption DEF InOrder, At, Requests, Places, Started, OnRow, Waking
<1>4. QED
  BY <1>1, <1>2, <1>3

LEMMA RowTypesStay ==
    ASSUME Types, Shape, Wakers, [Next]_vars
    PROVE  RowTypes'
<1>1. ASSUME NEW d \in Doors, Request(d) PROVE RowTypes'
  <2>1. CASE FindIdle(d)
    BY <1>1, <2>1, OwnersAssumption DEF FindIdle, Go, GoTo, rows, docker, history, counts, Types,
          RowTypes, BoxTypes, DoorTypes, Shape, Wakers, Statuses, Started, OnRow, Waking, Stacked,
          Holding, OfOwner, Owners
  <2>2. CASE LookForImage(d)
    BY <1>1, <2>2, OwnersAssumption DEF LookForImage, Go, docker, history, counts, Types,
          RowTypes, BoxTypes, DoorTypes, Shape, Wakers, Statuses, Started, OnRow, Waking, Stacked,
          Holding, OfOwner, Owners
  <2>3. CASE ClearName(d)
    BY <1>1, <2>3, OwnersAssumption DEF ClearName, Go, Unbox, rows, counts, Types, RowTypes,
          BoxTypes, DoorTypes, Shape, Wakers, Statuses, Started, OnRow, Waking, Stacked, Holding,
          OfOwner, Owners
  <2>4. CASE Launch(d)
    BY <1>1, <2>4, OwnersAssumption DEF Launch, Go, Leave, RunBox, RunFails, history, counts,
          Types, RowTypes, BoxTypes, DoorTypes, Shape, Wakers, Statuses, Started, OnRow, Waking,
          Stacked, Holding, OfOwner, Owners
  <2>5. CASE Claim(d)
    BY <1>1, <2>5, OwnersAssumption DEF Claim, Go, Leave, Reads, docker, counts, Types, RowTypes,
          BoxTypes, DoorTypes, Shape, Wakers, Statuses, Started, OnRow, Waking, Stacked, Holding,
          OfOwner, Owners
  <2>6. CASE HandBack(d)
    BY <1>1, <2>6, OwnersAssumption DEF HandBack, GoTo, rows, docker, history, counts, Types,
          RowTypes, BoxTypes, DoorTypes, Shape, Wakers, Statuses, Started, OnRow, Waking, Stacked,
          Holding, OfOwner, Owners
  <2>7. CASE Insert(d)
    BY <1>1, <2>7, OwnersAssumption DEF Insert, GoTo, Builds, Reads, docker, history, counts,
          Types, RowTypes, BoxTypes, DoorTypes, Shape, Wakers, Statuses, Started, OnRow, Waking,
          Stacked, Holding, OfOwner, Owners
  <2>8. CASE ReadRow(d)
    BY <1>1, <2>8, OwnersAssumption DEF ReadRow, Go, Leave, rows, docker, history, counts, Types,
          RowTypes, BoxTypes, DoorTypes, Shape, Wakers, Statuses, Started, OnRow, Waking, Stacked,
          Holding, OfOwner, Owners
  <2>9. CASE AskDocker(d)
    BY <1>1, <2>9, OwnersAssumption DEF AskDocker, Go, Leave, rows, docker, history, counts,
          Types, RowTypes, BoxTypes, DoorTypes, Shape, Wakers, Statuses, Started, OnRow, Waking,
          Stacked, Holding, OfOwner, Owners
  <2>10. CASE Settle(d)
    BY <1>1, <2>10, OwnersAssumption DEF Settle, Go, Reads, docker, counts, Types, RowTypes,
          BoxTypes, DoorTypes, Shape, Wakers, Statuses, Started, OnRow, Waking, Stacked, Holding,
          OfOwner, Owners
  <2>11. CASE Wipe(d)
    BY <1>1, <2>11, OwnersAssumption DEF Wipe, Go, RemoveImage, rows, history, counts, Types,
          RowTypes, BoxTypes, DoorTypes, Shape, Wakers, Statuses, Started, OnRow, Waking, Stacked,
          Holding, OfOwner, Owners
  <2>12. CASE RemoveBox(d)
    BY <1>1, <2>12, OwnersAssumption DEF RemoveBox, Go, Unbox, rows, counts, Types, RowTypes,
          BoxTypes, DoorTypes, Shape, Wakers, Statuses, Started, OnRow, Waking, Stacked, Holding,
          OfOwner, Owners
  <2>13. CASE RemoveItsImage(d)
    BY <1>1, <2>13, OwnersAssumption DEF RemoveItsImage, Leave, RemoveImage, rows, history,
          counts, Types, RowTypes, BoxTypes, DoorTypes, Shape, Wakers, Statuses, Started, OnRow,
          Waking, Stacked, Holding, OfOwner, Owners
  <2>14. CASE ReclaimOne(d)
    BY <1>1, <2>14, OwnersAssumption DEF ReclaimOne, Leave, RemoveImage, rows, history, counts,
          Types, RowTypes, BoxTypes, DoorTypes, Shape, Wakers, Statuses, Started, OnRow, Waking,
          Stacked, Holding, OfOwner, Owners
  <2>15. QED
    BY <1>1, <2>1, <2>2, <2>3, <2>4, <2>5, <2>6, <2>7, <2>8, <2>9, <2>10, <2>11, <2>12, <2>13,
          <2>14 DEF Request
<1>2. ASSUME NEW i \in Ids, Task(i) PROVE RowTypes'
  <2>1. CASE NoteStack(i)
    BY <1>2, <2>1, OwnersAssumption DEF NoteStack, Builds, docker, history, counts, Types,
          RowTypes, BoxTypes, DoorTypes, Shape, Wakers, Statuses, Started, OnRow, Waking, Stacked,
          Holding, OfOwner, Owners
  <2>2. CASE Build(i)
    BY <1>2, <2>2, OwnersAssumption DEF Build, Builds, RunBox, history, counts, Types, RowTypes,
          BoxTypes, DoorTypes, Shape, Wakers, Statuses, Started, OnRow, Waking, Stacked, Holding,
          OfOwner, Owners
  <2>3. CASE BuildFails(i)
    BY <1>2, <2>3, OwnersAssumption DEF BuildFails, Builds, RunBox, history, counts, Types,
          RowTypes, BoxTypes, DoorTypes, Shape, Wakers, Statuses, Started, OnRow, Waking, Stacked,
          Holding, OfOwner, Owners
  <2>4. CASE RunImage(i)
    BY <1>2, <2>4, OwnersAssumption DEF RunImage, Builds, RunBox, RunFails, history, counts,
          Types, RowTypes, BoxTypes, DoorTypes, Shape, Wakers, Statuses, Started, OnRow, Waking,
          Stacked, Holding, OfOwner, Owners
  <2>5. CASE CheckBox(i)
    BY <1>2, <2>5, OwnersAssumption DEF CheckBox, Builds, rows, docker, history, counts, Types,
          RowTypes, BoxTypes, DoorTypes, Shape, Wakers, Statuses, Started, OnRow, Waking, Stacked,
          Holding, OfOwner, Owners
  <2>6. CASE TearDown(i)
    BY <1>2, <2>6, OwnersAssumption DEF TearDown, Builds, Unbox, RemoveImage, rows, counts, Types,
          RowTypes, BoxTypes, DoorTypes, Shape, Wakers, Statuses, Started, OnRow, Waking, Stacked,
          Holding, OfOwner, Owners
  <2>7. CASE Fail(i)
    BY <1>2, <2>7, OwnersAssumption DEF Fail, Builds, Reads, docker, history, counts, Types,
          RowTypes, BoxTypes, DoorTypes, Shape, Wakers, Statuses, Started, OnRow, Waking, Stacked,
          Holding, OfOwner, Owners
  <2>8. CASE Report(i)
    BY <1>2, <2>8, OwnersAssumption DEF Report, Builds, Reads, docker, counts, Types, RowTypes,
          BoxTypes, DoorTypes, Shape, Wakers, Statuses, Started, OnRow, Waking, Stacked, Holding,
          OfOwner, Owners
  <2>9. QED
    BY <1>2, <2>1, <2>2, <2>3, <2>4, <2>5, <2>6, <2>7, <2>8 DEF Task
<1>3. ASSUME NEW d \in Doors, Reclaim(d) PROVE RowTypes'
  BY <1>3, OwnersAssumption DEF Reclaim, Asks, At, docker, history, Acts, Types, RowTypes,
        BoxTypes, DoorTypes, Shape, Wakers, Statuses, Started, OnRow, Waking, Stacked, Holding,
        OfOwner, Owners
<1>4. ASSUME NEW d \in Doors, NEW o \in Owners, Start(d, o) \/ Read(d, o) \/ Stop(d, o)
      PROVE  RowTypes'
  <2>1. CASE Start(d, o)
    BY <1>4, <2>1, OwnersAssumption DEF Start, GoFor, Asks, rows, docker, history, Acts, Types,
          RowTypes, BoxTypes, DoorTypes, Shape, Wakers, Statuses, Started, OnRow, Waking, Stacked,
          Holding, OfOwner, Owners
  <2>2. CASE Read(d, o)
    BY <1>4, <2>2, OwnersAssumption DEF Read, Asks, At, rows, docker, history, Acts, Types,
          RowTypes, BoxTypes, DoorTypes, Shape, Wakers, Statuses, Started, OnRow, Waking, Stacked,
          Holding, OfOwner, Owners
  <2>3. CASE Stop(d, o)
    <3> DEFINE all == {j \in OfOwner(o) : status[j] \in Alive \cup {"idle"}}
    <3>1. /\ status' = [j \in Ids |-> IF j \in all THEN "stopped" ELSE status[j]]
          /\ UNCHANGED <<owner, noted, holds, box, maker, images, swept, builder, adopted, overlapped>>
          /\ kept' = kept \ all
      BY <2>3 DEF Stop, docker
    <3>2. \A j \in all : j \in Ids /\ status[j] # "none"
      BY DEF OfOwner, Alive
    <3> HIDE DEF all
    <3>3. QED
      BY <3>1, <3>2, OwnersAssumption DEF Types, RowTypes, Statuses, Owners
  <2>4. QED
    BY <1>4, <2>1, <2>2, <2>3
<1>5. CASE SweepIdle
  BY <1>5, OwnersAssumption DEF SweepIdle, docker, counts, Types, RowTypes, BoxTypes, DoorTypes,
        Shape, Wakers, Statuses, Started, OnRow, Waking, Stacked, Holding, OfOwner, Owners
<1>6. CASE SweepBox
  BY <1>6, OwnersAssumption DEF SweepBox, Unbox, rows, counts, Types, RowTypes, BoxTypes,
        DoorTypes, Shape, Wakers, Statuses, Started, OnRow, Waking, Stacked, Holding, OfOwner,
        Owners
<1>7. ASSUME NEW i \in Ids, BoxDies(i) PROVE RowTypes'
  BY <1>7, OwnersAssumption DEF BoxDies, Acts, rows, Types, RowTypes, BoxTypes, DoorTypes, Shape,
        Wakers, Statuses, Started, OnRow, Waking, Stacked, Holding, OfOwner, Owners
<1>8. ASSUME NEW i \in Ids, ImagePruned(i) PROVE RowTypes'
  BY <1>8, OwnersAssumption DEF ImagePruned, RemoveImage, Acts, rows, history, Types, RowTypes,
        BoxTypes, DoorTypes, Shape, Wakers, Statuses, Started, OnRow, Waking, Stacked, Holding,
        OfOwner, Owners
<1>9. CASE Restart
  <2> DEFINE claimed == {i \in Ids : status[i] \in Alive /\ Up(i)}
             deadRows == {i \in Ids : status[i] \in Alive} \ claimed
  <2>1. /\ status' = [i \in Ids |-> IF i \in deadRows THEN "stopped" ELSE status[i]]
        /\ UNCHANGED <<owner, kept, noted, holds>>
    BY <1>9 DEF Restart
  <2>2. \A i \in deadRows : i \in Ids /\ status[i] # "none"
    BY DEF Alive
  <2> HIDE DEF deadRows
  <2>3. QED
    BY <2>1, <2>2 DEF Types, RowTypes, Statuses
<1>10. CASE UNCHANGED vars
  BY <1>10, OwnersAssumption DEF vars, rows, docker, history, counts, Types, RowTypes, BoxTypes,
        DoorTypes, Shape, Wakers, Statuses, Started, OnRow, Waking, Stacked, Holding, OfOwner,
        Owners
<1>11. QED
  BY <1>1, <1>2, <1>3, <1>4, <1>5, <1>6, <1>7, <1>8, <1>9, <1>10 DEF Next, People

LEMMA BoxTypesStay ==
    ASSUME Types, [Next]_vars
    PROVE  BoxTypes'
<1>1. ASSUME NEW d \in Doors, Request(d) PROVE BoxTypes'
  <2>1. CASE FindIdle(d)
    BY <1>1, <2>1, BoundsAssumption DEF FindIdle, Go, GoTo, rows, docker, history, counts, Types,
          RowTypes, BoxTypes, DoorTypes, Trades, Started, OnRow, Waking
  <2>2. CASE LookForImage(d)
    BY <1>1, <2>2, BoundsAssumption DEF LookForImage, Go, docker, history, counts, Types,
          RowTypes, BoxTypes, DoorTypes, Trades, Started, OnRow, Waking
  <2>3. CASE ClearName(d)
    BY <1>1, <2>3, BoundsAssumption DEF ClearName, Go, Unbox, rows, counts, Types, RowTypes,
          BoxTypes, DoorTypes, Trades, Started, OnRow, Waking
  <2>4. CASE Launch(d)
    BY <1>1, <2>4, BoundsAssumption DEF Launch, Go, Leave, RunBox, RunFails, history, counts,
          Types, RowTypes, BoxTypes, DoorTypes, Trades, Started, OnRow, Waking
  <2>5. CASE Claim(d)
    BY <1>1, <2>5, BoundsAssumption DEF Claim, Go, Leave, Reads, docker, counts, Types, RowTypes,
          BoxTypes, DoorTypes, Trades, Started, OnRow, Waking
  <2>6. CASE HandBack(d)
    BY <1>1, <2>6, BoundsAssumption DEF HandBack, GoTo, rows, docker, history, counts, Types,
          RowTypes, BoxTypes, DoorTypes, Trades, Started, OnRow, Waking
  <2>7. CASE Insert(d)
    BY <1>1, <2>7, BoundsAssumption DEF Insert, GoTo, Builds, Reads, docker, history, counts,
          Types, RowTypes, BoxTypes, DoorTypes, Trades, Started, OnRow, Waking
  <2>8. CASE ReadRow(d)
    BY <1>1, <2>8, BoundsAssumption DEF ReadRow, Go, Leave, rows, docker, history, counts, Types,
          RowTypes, BoxTypes, DoorTypes, Trades, Started, OnRow, Waking
  <2>9. CASE AskDocker(d)
    BY <1>1, <2>9, BoundsAssumption DEF AskDocker, Go, Leave, rows, docker, history, counts,
          Types, RowTypes, BoxTypes, DoorTypes, Trades, Started, OnRow, Waking
  <2>10. CASE Settle(d)
    BY <1>1, <2>10, BoundsAssumption DEF Settle, Go, Reads, docker, counts, Types, RowTypes,
          BoxTypes, DoorTypes, Trades, Started, OnRow, Waking
  <2>11. CASE Wipe(d)
    BY <1>1, <2>11, BoundsAssumption DEF Wipe, Go, RemoveImage, rows, history, counts, Types,
          RowTypes, BoxTypes, DoorTypes, Trades, Started, OnRow, Waking
  <2>12. CASE RemoveBox(d)
    BY <1>1, <2>12, BoundsAssumption DEF RemoveBox, Go, Unbox, rows, counts, Types, RowTypes,
          BoxTypes, DoorTypes, Trades, Started, OnRow, Waking
  <2>13. CASE RemoveItsImage(d)
    BY <1>1, <2>13, BoundsAssumption DEF RemoveItsImage, Leave, RemoveImage, rows, history,
          counts, Types, RowTypes, BoxTypes, DoorTypes, Trades, Started, OnRow, Waking
  <2>14. CASE ReclaimOne(d)
    BY <1>1, <2>14, BoundsAssumption DEF ReclaimOne, Leave, RemoveImage, rows, history, counts,
          Types, RowTypes, BoxTypes, DoorTypes, Trades, Started, OnRow, Waking
  <2>15. QED
    BY <1>1, <2>1, <2>2, <2>3, <2>4, <2>5, <2>6, <2>7, <2>8, <2>9, <2>10, <2>11, <2>12, <2>13,
          <2>14 DEF Request
<1>2. ASSUME NEW i \in Ids, Task(i) PROVE BoxTypes'
  <2>1. CASE NoteStack(i)
    BY <1>2, <2>1, BoundsAssumption DEF NoteStack, Builds, docker, history, counts, Types,
          RowTypes, BoxTypes, DoorTypes, Trades, Started, OnRow, Waking
  <2>2. CASE Build(i)
    BY <1>2, <2>2, BoundsAssumption DEF Build, Builds, RunBox, history, counts, Types, RowTypes,
          BoxTypes, DoorTypes, Trades, Started, OnRow, Waking
  <2>3. CASE BuildFails(i)
    BY <1>2, <2>3, BoundsAssumption DEF BuildFails, Builds, RunBox, history, counts, Types,
          RowTypes, BoxTypes, DoorTypes, Trades, Started, OnRow, Waking
  <2>4. CASE RunImage(i)
    BY <1>2, <2>4, BoundsAssumption DEF RunImage, Builds, RunBox, RunFails, history, counts,
          Types, RowTypes, BoxTypes, DoorTypes, Trades, Started, OnRow, Waking
  <2>5. CASE CheckBox(i)
    BY <1>2, <2>5, BoundsAssumption DEF CheckBox, Builds, rows, docker, history, counts, Types,
          RowTypes, BoxTypes, DoorTypes, Trades, Started, OnRow, Waking
  <2>6. CASE TearDown(i)
    BY <1>2, <2>6, BoundsAssumption DEF TearDown, Builds, Unbox, RemoveImage, rows, counts, Types,
          RowTypes, BoxTypes, DoorTypes, Trades, Started, OnRow, Waking
  <2>7. CASE Fail(i)
    BY <1>2, <2>7, BoundsAssumption DEF Fail, Builds, Reads, docker, history, counts, Types,
          RowTypes, BoxTypes, DoorTypes, Trades, Started, OnRow, Waking
  <2>8. CASE Report(i)
    BY <1>2, <2>8, BoundsAssumption DEF Report, Builds, Reads, docker, counts, Types, RowTypes,
          BoxTypes, DoorTypes, Trades, Started, OnRow, Waking
  <2>9. QED
    BY <1>2, <2>1, <2>2, <2>3, <2>4, <2>5, <2>6, <2>7, <2>8 DEF Task
<1>3. ASSUME NEW d \in Doors, Reclaim(d) PROVE BoxTypes'
  BY <1>3, BoundsAssumption DEF Reclaim, Asks, At, docker, history, Acts, Types, RowTypes,
        BoxTypes, DoorTypes, Trades, Started, OnRow, Waking
<1>4. ASSUME NEW d \in Doors, NEW o \in Owners, Start(d, o) \/ Read(d, o) \/ Stop(d, o)
      PROVE  BoxTypes'
  <2>1. CASE Start(d, o)
    BY <1>4, <2>1, BoundsAssumption DEF Start, GoFor, Asks, rows, docker, history, Acts, Types,
          RowTypes, BoxTypes, DoorTypes, Trades, Started, OnRow, Waking
  <2>2. CASE Read(d, o)
    <3>1. UNCHANGED <<box, maker, images, swept, builder, known, adopted, overlapped, restarts>>
          /\ acts' \in 0 .. MaxActs
      BY <2>2, BoundsAssumption DEF Read, Asks, Acts, docker, history, Types, BoxTypes
    <3>2. QED
      BY <3>1 DEF Types, BoxTypes
  <2>3. CASE Stop(d, o)
    <3>1. \E i \in Ids : \E S \in SUBSET Ids : known' = known \cup S
      BY <2>3 DEF Stop, OfOwner
    <3>2. UNCHANGED <<box, maker, images, swept, builder, adopted, overlapped, restarts>> /\ acts' \in 0 .. MaxActs
      BY <2>3, BoundsAssumption DEF Stop, Asks, Acts, docker, Types, BoxTypes
    <3>3. QED
      BY <3>1, <3>2 DEF Types, BoxTypes
  <2>4. QED
    BY <1>4, <2>1, <2>2, <2>3
<1>5. CASE SweepIdle
  BY <1>5, BoundsAssumption DEF SweepIdle, docker, counts, Types, RowTypes, BoxTypes, DoorTypes,
        Trades, Started, OnRow, Waking
<1>6. CASE SweepBox
  BY <1>6, BoundsAssumption DEF SweepBox, Unbox, rows, counts, Types, RowTypes, BoxTypes,
        DoorTypes, Trades, Started, OnRow, Waking
<1>7. ASSUME NEW i \in Ids, BoxDies(i) PROVE BoxTypes'
  BY <1>7, BoundsAssumption DEF BoxDies, Acts, rows, Types, RowTypes, BoxTypes, DoorTypes, Trades,
        Started, OnRow, Waking
<1>8. ASSUME NEW i \in Ids, ImagePruned(i) PROVE BoxTypes'
  BY <1>8, BoundsAssumption DEF ImagePruned, RemoveImage, Acts, rows, history, Types, RowTypes,
        BoxTypes, DoorTypes, Trades, Started, OnRow, Waking
<1>9. CASE Restart
  BY <1>9, BoundsAssumption DEF Restart, At, Types, RowTypes, BoxTypes, DoorTypes, Trades,
        Started, OnRow, Waking
<1>10. CASE UNCHANGED vars
  BY <1>10, BoundsAssumption DEF vars, rows, docker, history, counts, Types, RowTypes, BoxTypes,
        DoorTypes, Trades, Started, OnRow, Waking
<1>11. QED
  BY <1>1, <1>2, <1>3, <1>4, <1>5, <1>6, <1>7, <1>8, <1>9, <1>10 DEF Next, People

LEMMA DoorTypesStay ==
    ASSUME Types, [Next]_vars
    PROVE  DoorTypes'
<1>t. DoorTypes
  BY DEF Types
<1>1. ASSUME NEW d \in Doors, Request(d) PROVE DoorTypes'
  <2>h. door[d].at \in OnRow => door[d].row \in Ids
    BY <1>t DEF DoorTypes
  <2>o. door[d].at \in Started => door[d].owner \in Owners
    BY <1>t DEF DoorTypes
  <2>1. CASE FindIdle(d)
    BY <1>t, <2>h, <2>o, <2>1, RequestGoes, RequestGoesTo DEF FindIdle, Places, Started, OnRow,
          Waking, OfOwner
  <2>2. CASE LookForImage(d)
    BY <1>t, <2>h, <2>o, <2>2, RequestGoes DEF LookForImage, Places, Started, OnRow, Waking, OfOwner
  <2>3. CASE ClearName(d)
    BY <1>t, <2>h, <2>o, <2>3, RequestGoes DEF ClearName, Places, Started, OnRow, Waking, OfOwner
  <2>4. CASE Launch(d)
    BY <1>t, <2>h, <2>o, <2>4, RequestGoes, RequestLeaves DEF Launch, Places, Started, OnRow,
          Waking, OfOwner
  <2>5. CASE Claim(d)
    BY <1>t, <2>h, <2>o, <2>5, RequestGoes, RequestLeaves DEF Claim, Places, Started, OnRow,
          Waking, OfOwner
  <2>6. CASE HandBack(d)
    BY <1>t, <2>h, <2>o, <2>6, RequestGoesTo DEF HandBack, Places, Started, OnRow, Waking, OfOwner
  <2>7. CASE Insert(d)
    BY <1>t, <2>h, <2>o, <2>7, RequestGoesTo DEF Insert, Places, Started, OnRow, Waking, OfOwner
  <2>8. CASE ReadRow(d)
    BY <1>t, <2>h, <2>o, <2>8, RequestGoes, RequestLeaves DEF ReadRow, Places, Started, OnRow,
          Waking, OfOwner
  <2>9. CASE AskDocker(d)
    BY <1>t, <2>h, <2>o, <2>9, RequestGoes, RequestLeaves DEF AskDocker, Places, Started, OnRow,
          Waking, OfOwner
  <2>10. CASE Settle(d)
    BY <1>t, <2>h, <2>o, <2>10, RequestGoes DEF Settle, Places, Started, OnRow, Waking, OfOwner
  <2>11. CASE Wipe(d)
    BY <1>t, <2>h, <2>o, <2>11, RequestGoes DEF Wipe, Places, Started, OnRow, Waking, OfOwner
  <2>12. CASE RemoveBox(d)
    BY <1>t, <2>h, <2>o, <2>12, RequestGoes DEF RemoveBox, Places, Started, OnRow, Waking, OfOwner
  <2>13. CASE RemoveItsImage(d)
    BY <1>t, <2>h, <2>o, <2>13, RequestLeaves DEF RemoveItsImage, Places, Started, OnRow, Waking,
          OfOwner
  <2>14. CASE ReclaimOne(d)
    <3>1. PICK i \in Ids : \/ Leave(d)
                           \/ door' = [door EXCEPT ![d].rest = @ \ {i}]
      BY <1>t, <2>14 DEF ReclaimOne, DoorTypes, Requests
    <3>2. ASSUME door' = [door EXCEPT ![d].rest = @ \ {i}] PROVE DoorTypes'
      <4>1. InOrder([door[d] EXCEPT !.rest = @ \ {i}])
        BY <1>t DEF DoorTypes, InOrder, Requests
      <4>2. door' = [door EXCEPT ![d] = [door[d] EXCEPT !.rest = @ \ {i}]]
        BY <1>t, <3>2 DEF DoorTypes
      <4>3. QED
        BY <1>t, <4>1, <4>2, RequestChanges
    <3>3. QED
      BY <1>t, <3>1, <3>2, RequestLeaves
  <2>15. QED
    BY <1>1, <2>1, <2>2, <2>3, <2>4, <2>5, <2>6, <2>7, <2>8, <2>9, <2>10, <2>11, <2>12, <2>13,
          <2>14 DEF Request
<1>2. ASSUME NEW d \in Doors, Reclaim(d) PROVE DoorTypes'
  <2>1. PICK S \in SUBSET Ids : door' = [door EXCEPT ![d] = [At("reclaiming") EXCEPT !.rest = S]]
    BY <1>2 DEF Types, RowTypes, Reclaim
  <2>2. QED
    BY <1>t, <2>1, RequestChanges, RequestsComeInOrder
<1>3. ASSUME NEW d \in Doors, NEW o \in Owners, Start(d, o) \/ Read(d, o) \/ Stop(d, o)
      PROVE  DoorTypes'
  <2>1. CASE Start(d, o)
    BY <1>t, <2>1, RequestChanges, RequestsComeInOrder DEF Start, GoFor
  <2>2. CASE Read(d, o)
    BY <1>t, <2>2, RequestChanges, RequestsComeInOrder DEF Read
  <2>3. CASE Stop(d, o)
    <3>1. \/ UNCHANGED door
          \/ \E i \in Ids : door' = [door EXCEPT ![d] = [At("unboxing") EXCEPT !.owner = o, !.row = i]]
      BY <2>3 DEF Stop, OfOwner
    <3>2. CASE UNCHANGED door
      BY <1>t, <3>2 DEF DoorTypes
    <3>3. QED
      BY <1>t, <3>1, <3>2, RequestChanges, RequestsComeInOrder
  <2>4. QED
    BY <1>3, <2>1, <2>2, <2>3
<1>4. CASE Restart
  <2>1. InOrder(At("idle"))
    BY BoundsAssumption DEF InOrder, At, Requests, Places, Started, OnRow, Waking
  <2>2. QED
    BY <1>4, <2>1 DEF Restart, DoorTypes, InOrder
<1>5. CASE UNCHANGED door
  BY <1>t, <1>5 DEF DoorTypes
<1>6. (\E i \in Ids : Task(i) \/ BoxDies(i) \/ ImagePruned(i)) \/ SweepIdle \/ SweepBox \/ UNCHANGED vars
         => UNCHANGED door
  BY DEF Task, NoteStack, Build, BuildFails, RunImage, CheckBox, TearDown, Fail, Report,
         BoxDies, ImagePruned, SweepIdle, SweepBox, vars
<1>7. QED
  BY <1>1, <1>2, <1>3, <1>4, <1>5, <1>6 DEF Next, People

----------------------------------------------------------------------------
(* Boxes. *)

LEMMA ShapeStays ==
    ASSUME Types, Shape, Wakers, [Next]_vars
    PROVE  Shape'
<1>1. ASSUME NEW d \in Doors, Request(d) PROVE Shape'
  <2>1. CASE FindIdle(d)
    BY <1>1, <2>1, OwnersAssumption DEF FindIdle, Go, GoTo, rows, docker, history, counts, Types,
          RowTypes, BoxTypes, DoorTypes, Shape, Wakers, Up, Stacked, Trades, Statuses, Started,
          OnRow, Waking, OfOwner, Alive
  <2>2. CASE LookForImage(d)
    BY <1>1, <2>2, OwnersAssumption DEF LookForImage, Go, docker, history, counts, Types,
          RowTypes, BoxTypes, DoorTypes, Shape, Wakers, Up, Stacked, Trades, Statuses, Started,
          OnRow, Waking, OfOwner, Alive
  <2>3. CASE ClearName(d)
    BY <1>1, <2>3, OwnersAssumption DEF ClearName, Go, Unbox, rows, counts, Types, RowTypes,
          BoxTypes, DoorTypes, Shape, Wakers, Up, Stacked, Trades, Statuses, Started, OnRow,
          Waking, OfOwner, Alive
  <2>4. CASE Launch(d)
    BY <1>1, <2>4, OwnersAssumption DEF Launch, Go, Leave, RunBox, RunFails, history, counts,
          Types, RowTypes, BoxTypes, DoorTypes, Shape, Wakers, Up, Stacked, Trades, Statuses,
          Started, OnRow, Waking, OfOwner, Alive
  <2>5. CASE Claim(d)
    BY <1>1, <2>5, OwnersAssumption DEF Claim, Go, Leave, Reads, docker, counts, Types, RowTypes,
          BoxTypes, DoorTypes, Shape, Wakers, Up, Stacked, Trades, Statuses, Started, OnRow,
          Waking, OfOwner, Alive
  <2>6. CASE HandBack(d)
    BY <1>1, <2>6, OwnersAssumption DEF HandBack, GoTo, rows, docker, history, counts, Types,
          RowTypes, BoxTypes, DoorTypes, Shape, Wakers, Up, Stacked, Trades, Statuses, Started,
          OnRow, Waking, OfOwner, Alive
  <2>7. CASE Insert(d)
    BY <1>1, <2>7, OwnersAssumption DEF Insert, GoTo, Builds, Reads, docker, history, counts,
          Types, RowTypes, BoxTypes, DoorTypes, Shape, Wakers, Up, Stacked, Trades, Statuses,
          Started, OnRow, Waking, OfOwner, Alive
  <2>8. CASE ReadRow(d)
    BY <1>1, <2>8, OwnersAssumption DEF ReadRow, Go, Leave, rows, docker, history, counts, Types,
          RowTypes, BoxTypes, DoorTypes, Shape, Wakers, Up, Stacked, Trades, Statuses, Started,
          OnRow, Waking, OfOwner, Alive
  <2>9. CASE AskDocker(d)
    BY <1>1, <2>9, OwnersAssumption DEF AskDocker, Go, Leave, rows, docker, history, counts,
          Types, RowTypes, BoxTypes, DoorTypes, Shape, Wakers, Up, Stacked, Trades, Statuses,
          Started, OnRow, Waking, OfOwner, Alive
  <2>10. CASE Settle(d)
    BY <1>1, <2>10, OwnersAssumption DEF Settle, Go, Reads, docker, counts, Types, RowTypes,
          BoxTypes, DoorTypes, Shape, Wakers, Up, Stacked, Trades, Statuses, Started, OnRow,
          Waking, OfOwner, Alive
  <2>11. CASE Wipe(d)
    BY <1>1, <2>11, OwnersAssumption DEF Wipe, Go, RemoveImage, rows, history, counts, Types,
          RowTypes, BoxTypes, DoorTypes, Shape, Wakers, Up, Stacked, Trades, Statuses, Started,
          OnRow, Waking, OfOwner, Alive
  <2>12. CASE RemoveBox(d)
    BY <1>1, <2>12, OwnersAssumption DEF RemoveBox, Go, Unbox, rows, counts, Types, RowTypes,
          BoxTypes, DoorTypes, Shape, Wakers, Up, Stacked, Trades, Statuses, Started, OnRow,
          Waking, OfOwner, Alive
  <2>13. CASE RemoveItsImage(d)
    BY <1>1, <2>13, OwnersAssumption DEF RemoveItsImage, Leave, RemoveImage, rows, history,
          counts, Types, RowTypes, BoxTypes, DoorTypes, Shape, Wakers, Up, Stacked, Trades,
          Statuses, Started, OnRow, Waking, OfOwner, Alive
  <2>14. CASE ReclaimOne(d)
    BY <1>1, <2>14, OwnersAssumption DEF ReclaimOne, Leave, RemoveImage, rows, history, counts,
          Types, RowTypes, BoxTypes, DoorTypes, Shape, Wakers, Up, Stacked, Trades, Statuses,
          Started, OnRow, Waking, OfOwner, Alive
  <2>15. QED
    BY <1>1, <2>1, <2>2, <2>3, <2>4, <2>5, <2>6, <2>7, <2>8, <2>9, <2>10, <2>11, <2>12, <2>13,
          <2>14 DEF Request
<1>2. ASSUME NEW i \in Ids, Task(i) PROVE Shape'
  <2>1. CASE NoteStack(i)
    BY <1>2, <2>1, OwnersAssumption DEF NoteStack, Builds, docker, history, counts, Types,
          RowTypes, BoxTypes, DoorTypes, Shape, Wakers, Up, Stacked, Trades, Statuses, Started,
          OnRow, Waking, OfOwner, Alive
  <2>2. CASE Build(i)
    BY <1>2, <2>2, OwnersAssumption DEF Build, Builds, RunBox, history, counts, Types, RowTypes,
          BoxTypes, DoorTypes, Shape, Wakers, Up, Stacked, Trades, Statuses, Started, OnRow,
          Waking, OfOwner, Alive
  <2>3. CASE BuildFails(i)
    BY <1>2, <2>3, OwnersAssumption DEF BuildFails, Builds, RunBox, history, counts, Types,
          RowTypes, BoxTypes, DoorTypes, Shape, Wakers, Up, Stacked, Trades, Statuses, Started,
          OnRow, Waking, OfOwner, Alive
  <2>4. CASE RunImage(i)
    BY <1>2, <2>4, OwnersAssumption DEF RunImage, Builds, RunBox, RunFails, history, counts,
          Types, RowTypes, BoxTypes, DoorTypes, Shape, Wakers, Up, Stacked, Trades, Statuses,
          Started, OnRow, Waking, OfOwner, Alive
  <2>5. CASE CheckBox(i)
    BY <1>2, <2>5, OwnersAssumption DEF CheckBox, Builds, rows, docker, history, counts, Types,
          RowTypes, BoxTypes, DoorTypes, Shape, Wakers, Up, Stacked, Trades, Statuses, Started,
          OnRow, Waking, OfOwner, Alive
  <2>6. CASE TearDown(i)
    BY <1>2, <2>6, OwnersAssumption DEF TearDown, Builds, Unbox, RemoveImage, rows, counts, Types,
          RowTypes, BoxTypes, DoorTypes, Shape, Wakers, Up, Stacked, Trades, Statuses, Started,
          OnRow, Waking, OfOwner, Alive
  <2>7. CASE Fail(i)
    BY <1>2, <2>7, OwnersAssumption DEF Fail, Builds, Reads, docker, history, counts, Types,
          RowTypes, BoxTypes, DoorTypes, Shape, Wakers, Up, Stacked, Trades, Statuses, Started,
          OnRow, Waking, OfOwner, Alive
  <2>8. CASE Report(i)
    BY <1>2, <2>8, OwnersAssumption DEF Report, Builds, Reads, docker, counts, Types, RowTypes,
          BoxTypes, DoorTypes, Shape, Wakers, Up, Stacked, Trades, Statuses, Started, OnRow,
          Waking, OfOwner, Alive
  <2>9. QED
    BY <1>2, <2>1, <2>2, <2>3, <2>4, <2>5, <2>6, <2>7, <2>8 DEF Task
<1>3. ASSUME NEW d \in Doors, Reclaim(d) PROVE Shape'
  BY <1>3, OwnersAssumption DEF Reclaim, Asks, At, docker, history, Acts, Types, RowTypes,
        BoxTypes, DoorTypes, Shape, Wakers, Up, Stacked, Trades, Statuses, Started, OnRow, Waking,
        OfOwner, Alive
<1>4. ASSUME NEW d \in Doors, NEW o \in Owners, Start(d, o) \/ Read(d, o) \/ Stop(d, o)
      PROVE  Shape'
  <2>1. CASE Start(d, o)
    BY <1>4, <2>1, OwnersAssumption DEF Start, GoFor, Asks, rows, docker, history, Acts, Types,
          RowTypes, BoxTypes, DoorTypes, Shape, Wakers, Up, Stacked, Trades, Statuses, Started,
          OnRow, Waking, OfOwner, Alive
  <2>2. CASE Read(d, o)
    BY <1>4, <2>2, OwnersAssumption DEF Read, Asks, At, rows, docker, history, Acts, Types,
          RowTypes, BoxTypes, DoorTypes, Shape, Wakers, Up, Stacked, Trades, Statuses, Started,
          OnRow, Waking, OfOwner, Alive
  <2>3. CASE Stop(d, o)
    <3> DEFINE all == {j \in OfOwner(o) : status[j] \in Alive \cup {"idle"}}
    <3>1. /\ status' = [j \in Ids |-> IF j \in all THEN "stopped" ELSE status[j]]
          /\ UNCHANGED <<owner, noted, holds, box, maker, images, swept, builder, adopted, overlapped>>
          /\ kept' = kept \ all
      BY <2>3 DEF Stop, docker
    <3>2. \A j \in all : j \in Ids /\ status[j] # "none"
      BY DEF OfOwner, Alive
    <3> HIDE DEF all
    <3>3. QED
      BY <3>1, <3>2, OwnersAssumption DEF Types, RowTypes, BoxTypes, Shape, Up, Stacked, Statuses
  <2>4. QED
    BY <1>4, <2>1, <2>2, <2>3
<1>5. CASE SweepIdle
  BY <1>5, OwnersAssumption DEF SweepIdle, docker, counts, Types, RowTypes, BoxTypes, DoorTypes,
        Shape, Wakers, Up, Stacked, Trades, Statuses, Started, OnRow, Waking, OfOwner, Alive
<1>6. CASE SweepBox
  BY <1>6, OwnersAssumption DEF SweepBox, Unbox, rows, counts, Types, RowTypes, BoxTypes,
        DoorTypes, Shape, Wakers, Up, Stacked, Trades, Statuses, Started, OnRow, Waking, OfOwner,
        Alive
<1>7. ASSUME NEW i \in Ids, BoxDies(i) PROVE Shape'
  BY <1>7, OwnersAssumption DEF BoxDies, Acts, rows, Types, RowTypes, BoxTypes, DoorTypes, Shape,
        Wakers, Up, Stacked, Trades, Statuses, Started, OnRow, Waking, OfOwner, Alive
<1>8. ASSUME NEW i \in Ids, ImagePruned(i) PROVE Shape'
  BY <1>8, OwnersAssumption DEF ImagePruned, RemoveImage, Acts, rows, history, Types, RowTypes,
        BoxTypes, DoorTypes, Shape, Wakers, Up, Stacked, Trades, Statuses, Started, OnRow, Waking,
        OfOwner, Alive
<1>9. CASE Restart
  BY <1>9, OwnersAssumption DEF Restart, At, Types, RowTypes, BoxTypes, DoorTypes, Shape, Wakers,
        Up, Stacked, Trades, Statuses, Started, OnRow, Waking, OfOwner, Alive
<1>10. CASE UNCHANGED vars
  BY <1>10, OwnersAssumption DEF vars, rows, docker, history, counts, Types, RowTypes, BoxTypes,
        DoorTypes, Shape, Wakers, Up, Stacked, Trades, Statuses, Started, OnRow, Waking, OfOwner,
        Alive
<1>11. QED
  BY <1>1, <1>2, <1>3, <1>4, <1>5, <1>6, <1>7, <1>8, <1>9, <1>10 DEF Next, People

LEMMA WakersStay ==
    ASSUME Types, Shape, Wakers, [Next]_vars
    PROVE  Wakers'
<1>1. ASSUME NEW d \in Doors, Request(d) PROVE Wakers'
  <2>1. CASE FindIdle(d)
    <3>1. UNCHANGED <<owner, status, builder>>
      BY <2>1 DEF FindIdle, rows
    <3>2. CASE Go(d, "inserting")
      <4>1. \A e \in Doors : door'[e].at \in Waking => door'[e] = door[e]
        BY <3>2 DEF Go, Types, DoorTypes, Requests, Waking
      <4>2. QED
        BY <3>1, <4>1 DEF Wakers, Stacked
    <3>3. ASSUME NEW i \in Ids, status[i] = "idle", owner[i] = door[d].owner, GoTo(d, "looking", i)
          PROVE  Wakers'
      <4>1. \A e \in Doors : e # d => door'[e] = door[e]
        BY <3>3 DEF GoTo, Types, DoorTypes
      <4>2. door'[d].at = "looking" /\ door'[d].row = i /\ door'[d].owner = door[d].owner
        BY <3>3 DEF GoTo, Types, DoorTypes, Requests
      <4>3. builder[i] = "none"
        BY <3>3 DEF Shape
      <4>4. QED
        BY <3>1, <3>3, <4>1, <4>2, <4>3 DEF Wakers, Stacked
    <3>4. QED
      BY <2>1, <3>2, <3>3 DEF FindIdle, IsLast, OfOwner
  <2>2. CASE LookForImage(d)
    BY <1>1, <2>2, OwnersAssumption DEF LookForImage, Go, docker, history, counts, Types,
          RowTypes, BoxTypes, DoorTypes, Shape, Wakers, Up, Stacked, Requests, At, OnRow, Waking,
          OfOwner
  <2>3. CASE ClearName(d)
    BY <1>1, <2>3, OwnersAssumption DEF ClearName, Go, Unbox, rows, counts, Types, RowTypes,
          BoxTypes, DoorTypes, Shape, Wakers, Up, Stacked, Requests, At, OnRow, Waking, OfOwner
  <2>4. CASE Launch(d)
    BY <1>1, <2>4, OwnersAssumption DEF Launch, Go, Leave, RunBox, RunFails, history, counts,
          Types, RowTypes, BoxTypes, DoorTypes, Shape, Wakers, Up, Stacked, Requests, At, OnRow,
          Waking, OfOwner
  <2>5. CASE Claim(d)
    BY <1>1, <2>5, OwnersAssumption DEF Claim, Go, Leave, Reads, docker, counts, Types, RowTypes,
          BoxTypes, DoorTypes, Shape, Wakers, Up, Stacked, Requests, At, OnRow, Waking, OfOwner
  <2>6. CASE HandBack(d)
    BY <1>1, <2>6, OwnersAssumption DEF HandBack, GoTo, rows, docker, history, counts, Types,
          RowTypes, BoxTypes, DoorTypes, Shape, Wakers, Up, Stacked, Requests, At, OnRow, Waking,
          OfOwner
  <2>7. CASE Insert(d)
    BY <1>1, <2>7, OwnersAssumption DEF Insert, GoTo, Builds, Reads, docker, history, counts,
          Types, RowTypes, BoxTypes, DoorTypes, Shape, Wakers, Up, Stacked, Requests, At, OnRow,
          Waking, OfOwner
  <2>8. CASE ReadRow(d)
    <3>1. UNCHANGED <<owner, status, builder>>
      BY <2>8 DEF ReadRow, rows
    <3>2. \A e \in Doors : door'[e].at \in Waking => door'[e] = door[e]
      BY <2>8 DEF ReadRow, Go, Leave, At, Types, DoorTypes, Requests, Waking
    <3>3. QED
      BY <3>1, <3>2 DEF Wakers, Stacked
  <2>9. CASE AskDocker(d)
    BY <1>1, <2>9, OwnersAssumption DEF AskDocker, Go, Leave, rows, docker, history, counts,
          Types, RowTypes, BoxTypes, DoorTypes, Shape, Wakers, Up, Stacked, Requests, At, OnRow,
          Waking, OfOwner
  <2>10. CASE Settle(d)
    BY <1>1, <2>10, OwnersAssumption DEF Settle, Go, Reads, docker, counts, Types, RowTypes,
          BoxTypes, DoorTypes, Shape, Wakers, Up, Stacked, Requests, At, OnRow, Waking, OfOwner
  <2>11. CASE Wipe(d)
    BY <1>1, <2>11, OwnersAssumption DEF Wipe, Go, RemoveImage, rows, history, counts, Types,
          RowTypes, BoxTypes, DoorTypes, Shape, Wakers, Up, Stacked, Requests, At, OnRow, Waking,
          OfOwner
  <2>12. CASE RemoveBox(d)
    BY <1>1, <2>12, OwnersAssumption DEF RemoveBox, Go, Unbox, rows, counts, Types, RowTypes,
          BoxTypes, DoorTypes, Shape, Wakers, Up, Stacked, Requests, At, OnRow, Waking, OfOwner
  <2>13. CASE RemoveItsImage(d)
    BY <1>1, <2>13, OwnersAssumption DEF RemoveItsImage, Leave, RemoveImage, rows, history,
          counts, Types, RowTypes, BoxTypes, DoorTypes, Shape, Wakers, Up, Stacked, Requests, At,
          OnRow, Waking, OfOwner
  <2>14. CASE ReclaimOne(d)
    BY <1>1, <2>14, OwnersAssumption DEF ReclaimOne, Leave, RemoveImage, rows, history, counts,
          Types, RowTypes, BoxTypes, DoorTypes, Shape, Wakers, Up, Stacked, Requests, At, OnRow,
          Waking, OfOwner
  <2>15. QED
    BY <1>1, <2>1, <2>2, <2>3, <2>4, <2>5, <2>6, <2>7, <2>8, <2>9, <2>10, <2>11, <2>12, <2>13,
          <2>14 DEF Request
<1>2. ASSUME NEW i \in Ids, Task(i) PROVE Wakers'
  <2>1. CASE NoteStack(i)
    BY <1>2, <2>1, OwnersAssumption DEF NoteStack, Builds, docker, history, counts, Types,
          RowTypes, BoxTypes, DoorTypes, Shape, Wakers, Up, Stacked, Requests, At, OnRow, Waking,
          OfOwner
  <2>2. CASE Build(i)
    BY <1>2, <2>2, OwnersAssumption DEF Build, Builds, RunBox, history, counts, Types, RowTypes,
          BoxTypes, DoorTypes, Shape, Wakers, Up, Stacked, Requests, At, OnRow, Waking, OfOwner
  <2>3. CASE BuildFails(i)
    BY <1>2, <2>3, OwnersAssumption DEF BuildFails, Builds, RunBox, history, counts, Types,
          RowTypes, BoxTypes, DoorTypes, Shape, Wakers, Up, Stacked, Requests, At, OnRow, Waking,
          OfOwner
  <2>4. CASE RunImage(i)
    BY <1>2, <2>4, OwnersAssumption DEF RunImage, Builds, RunBox, RunFails, history, counts,
          Types, RowTypes, BoxTypes, DoorTypes, Shape, Wakers, Up, Stacked, Requests, At, OnRow,
          Waking, OfOwner
  <2>5. CASE CheckBox(i)
    BY <1>2, <2>5, OwnersAssumption DEF CheckBox, Builds, rows, docker, history, counts, Types,
          RowTypes, BoxTypes, DoorTypes, Shape, Wakers, Up, Stacked, Requests, At, OnRow, Waking,
          OfOwner
  <2>6. CASE TearDown(i)
    BY <1>2, <2>6, OwnersAssumption DEF TearDown, Builds, Unbox, RemoveImage, rows, counts, Types,
          RowTypes, BoxTypes, DoorTypes, Shape, Wakers, Up, Stacked, Requests, At, OnRow, Waking,
          OfOwner
  <2>7. CASE Fail(i)
    BY <1>2, <2>7, OwnersAssumption DEF Fail, Builds, Reads, docker, history, counts, Types,
          RowTypes, BoxTypes, DoorTypes, Shape, Wakers, Up, Stacked, Requests, At, OnRow, Waking,
          OfOwner
  <2>8. CASE Report(i)
    BY <1>2, <2>8, OwnersAssumption DEF Report, Builds, Reads, docker, counts, Types, RowTypes,
          BoxTypes, DoorTypes, Shape, Wakers, Up, Stacked, Requests, At, OnRow, Waking, OfOwner
  <2>9. QED
    BY <1>2, <2>1, <2>2, <2>3, <2>4, <2>5, <2>6, <2>7, <2>8 DEF Task
<1>3. ASSUME NEW d \in Doors, Reclaim(d) PROVE Wakers'
  BY <1>3, OwnersAssumption DEF Reclaim, Asks, At, docker, history, Acts, Types, RowTypes,
        BoxTypes, DoorTypes, Shape, Wakers, Up, Stacked, Requests, OnRow, Waking, OfOwner
<1>4. ASSUME NEW d \in Doors, NEW o \in Owners, Start(d, o) \/ Read(d, o) \/ Stop(d, o)
      PROVE  Wakers'
  <2>1. CASE Start(d, o)
    BY <1>4, <2>1, OwnersAssumption DEF Start, GoFor, Asks, rows, docker, history, Acts, Types,
          RowTypes, BoxTypes, DoorTypes, Shape, Wakers, Up, Stacked, Requests, At, OnRow, Waking,
          OfOwner
  <2>2. CASE Read(d, o)
    <3>1. /\ UNCHANGED <<owner, status, builder>>
          /\ \E i \in Ids : door' = [door EXCEPT ![d] = [At("reading") EXCEPT !.owner = o, !.row = i]]
      BY <2>2 DEF Read, rows
    <3>2. \A e \in Doors : door'[e].at \in Waking => door'[e] = door[e]
      BY <3>1 DEF Types, DoorTypes, At, Waking
    <3>3. QED
      BY <3>1, <3>2 DEF Wakers, Stacked
  <2>3. CASE Stop(d, o)
    <3> DEFINE all == {j \in OfOwner(o) : status[j] \in Alive \cup {"idle"}}
    <3>1. /\ status' = [j \in Ids |-> IF j \in all THEN "stopped" ELSE status[j]]
          /\ UNCHANGED <<owner, builder>>
          /\ door[d].at = "idle"
          /\ \/ UNCHANGED door
             \/ \E i \in Ids : door' = [door EXCEPT ![d] = [At("unboxing") EXCEPT !.owner = o, !.row = i]]
      BY <2>3 DEF Stop, Asks, OfOwner
    <3> HIDE DEF all
    <3>2. \A e \in Doors : door'[e].at \in Waking => door'[e] = door[e] /\ door[e].row \in Ids
      BY <3>1 DEF Types, DoorTypes, At, Waking, OnRow
    <3>3. QED
      BY <3>1, <3>2 DEF Types, RowTypes, Wakers, Stacked
  <2>4. QED
    BY <1>4, <2>1, <2>2, <2>3
<1>5. CASE SweepIdle
  BY <1>5, OwnersAssumption DEF SweepIdle, docker, counts, Types, RowTypes, BoxTypes, DoorTypes,
        Shape, Wakers, Up, Stacked, Requests, At, OnRow, Waking, OfOwner
<1>6. CASE SweepBox
  BY <1>6, OwnersAssumption DEF SweepBox, Unbox, rows, counts, Types, RowTypes, BoxTypes,
        DoorTypes, Shape, Wakers, Up, Stacked, Requests, At, OnRow, Waking, OfOwner
<1>7. ASSUME NEW i \in Ids, BoxDies(i) PROVE Wakers'
  BY <1>7, OwnersAssumption DEF BoxDies, Acts, rows, Types, RowTypes, BoxTypes, DoorTypes, Shape,
        Wakers, Up, Stacked, Requests, At, OnRow, Waking, OfOwner
<1>8. ASSUME NEW i \in Ids, ImagePruned(i) PROVE Wakers'
  BY <1>8, OwnersAssumption DEF ImagePruned, RemoveImage, Acts, rows, history, Types, RowTypes,
        BoxTypes, DoorTypes, Shape, Wakers, Up, Stacked, Requests, At, OnRow, Waking, OfOwner
<1>9. CASE Restart
  BY <1>9, OwnersAssumption DEF Restart, At, Types, RowTypes, BoxTypes, DoorTypes, Shape, Wakers,
        Up, Stacked, Requests, OnRow, Waking, OfOwner
<1>10. CASE UNCHANGED vars
  BY <1>10, OwnersAssumption DEF vars, rows, docker, history, counts, Types, RowTypes, BoxTypes,
        DoorTypes, Shape, Wakers, Up, Stacked, Requests, At, OnRow, Waking, OfOwner
<1>11. QED
  BY <1>1, <1>2, <1>3, <1>4, <1>5, <1>6, <1>7, <1>8, <1>9, <1>10 DEF Next, People

LEMMA ClaimsStay ==
    ASSUME PInv, [Next]_vars
    PROVE  BoxesAreClaimed'
<1>1. ASSUME NEW d \in Doors, Request(d) PROVE BoxesAreClaimed'
  <2>1. CASE FindIdle(d)
    <3>1. UNCHANGED <<rows, docker, swept, builder, history>>
      BY <2>1 DEF FindIdle
    <3>2. \A e \in Doors : /\ door[e].at \in {"claiming", "unboxing"} => door'[e] = door[e]
      BY <2>1 DEF FindIdle, Go, GoTo, PInv, Types, DoorTypes
    <3>3. QED
      BY <3>1, <3>2 DEF PInv, BoxesAreClaimed, AtWork, Up, rows, docker, history
  <2>2. CASE LookForImage(d)
    BY <1>1, <2>2 DEF LookForImage, Go, docker, history, counts, PInv, Types, RowTypes, BoxTypes,
          DoorTypes, Shape, Wakers, BoxesAreClaimed, AtWork, Up, Stacked, Requests, At, OnRow,
          Waking, OfOwner, Alive
  <2>3. CASE ClearName(d)
    BY <1>1, <2>3 DEF ClearName, Go, Unbox, rows, counts, PInv, Types, RowTypes, BoxTypes,
          DoorTypes, Shape, Wakers, BoxesAreClaimed, AtWork, Up, Stacked, Requests, At, OnRow,
          Waking, OfOwner, Alive
  <2>4. CASE Launch(d)
    <3> DEFINE i == door[d].row
    <3>0. i \in Ids
      BY <2>4 DEF Launch, PInv, Types, DoorTypes, OnRow, Waking
    <3>1. UNCHANGED <<status, swept, builder, known>>
      BY <2>4 DEF Launch, history
    <3>2. \A e \in Doors : door[e].at \in {"claiming", "unboxing"} => door'[e] = door[e]
      BY <2>4 DEF Launch, Go, Leave, PInv, Types, DoorTypes
    <3>3. \/ box' = [box EXCEPT ![i] = "up"] /\ Go(d, "claiming")
          \/ box' \in {box, [box EXCEPT ![i] = IF @ = "none" THEN "dead" ELSE @]}
      BY <2>4 DEF Launch, RunBox, RunFails
    <3>4. ASSUME box' = [box EXCEPT ![i] = "up"], Go(d, "claiming") PROVE BoxesAreClaimed'
      <4>1. door'[d].at = "claiming" /\ door'[d].row = i
        BY <3>4 DEF Go, PInv, Types, DoorTypes, Requests
      <4>2. QED
        BY <3>0, <3>1, <3>2, <3>4, <4>1 DEF PInv, Types, BoxTypes, BoxesAreClaimed, AtWork, Up
    <3>5. ASSUME box' \in {box, [box EXCEPT ![i] = IF @ = "none" THEN "dead" ELSE @]}
          PROVE  BoxesAreClaimed'
      <4>1. \A j \in Ids : Up(j)' => Up(j)
        BY <3>0, <3>5 DEF PInv, Types, BoxTypes, Up
      <4>2. QED
        BY <3>1, <3>2, <4>1 DEF PInv, BoxesAreClaimed, AtWork
    <3>6. QED
      BY <3>3, <3>4, <3>5
  <2>5. CASE Claim(d)
    BY <1>1, <2>5 DEF Claim, Go, Leave, Reads, docker, counts, PInv, Types, RowTypes, BoxTypes,
          DoorTypes, Shape, Wakers, BoxesAreClaimed, AtWork, Up, Stacked, Requests, At, OnRow,
          Waking, OfOwner, Alive
  <2>6. CASE HandBack(d)
    BY <1>1, <2>6 DEF HandBack, GoTo, rows, docker, history, counts, PInv, Types, RowTypes,
          BoxTypes, DoorTypes, Shape, Wakers, BoxesAreClaimed, AtWork, Up, Stacked, Requests, At,
          OnRow, Waking, OfOwner, Alive
  <2>7. CASE Insert(d)
    BY <1>1, <2>7 DEF Insert, GoTo, Builds, Reads, docker, history, counts, PInv, Types, RowTypes,
          BoxTypes, DoorTypes, Shape, Wakers, BoxesAreClaimed, AtWork, Up, Stacked, Requests, At,
          OnRow, Waking, OfOwner, Alive
  <2>8. CASE ReadRow(d)
    <3>1. UNCHANGED <<rows, docker, swept, builder, history>>
      BY <2>8 DEF ReadRow
    <3>2. \A e \in Doors : door[e].at \in {"claiming", "unboxing"} => door'[e] = door[e]
      BY <2>8 DEF ReadRow, Go, Leave, PInv, Types, DoorTypes
    <3>3. QED
      BY <3>1, <3>2 DEF PInv, BoxesAreClaimed, AtWork, Up, rows, docker, history
  <2>9. CASE AskDocker(d)
    BY <1>1, <2>9 DEF AskDocker, Go, Leave, rows, docker, history, counts, PInv, Types, RowTypes,
          BoxTypes, DoorTypes, Shape, Wakers, BoxesAreClaimed, AtWork, Up, Stacked, Requests, At,
          OnRow, Waking, OfOwner, Alive
  <2>10. CASE Settle(d)
    BY <1>1, <2>10 DEF Settle, Go, Reads, docker, counts, PInv, Types, RowTypes, BoxTypes,
          DoorTypes, Shape, Wakers, BoxesAreClaimed, AtWork, Up, Stacked, Requests, At, OnRow,
          Waking, OfOwner, Alive
  <2>11. CASE Wipe(d)
    BY <1>1, <2>11 DEF Wipe, Go, RemoveImage, rows, history, counts, PInv, Types, RowTypes,
          BoxTypes, DoorTypes, Shape, Wakers, BoxesAreClaimed, AtWork, Up, Stacked, Requests, At,
          OnRow, Waking, OfOwner, Alive
  <2>12. CASE RemoveBox(d)
    BY <1>1, <2>12 DEF RemoveBox, Go, Unbox, rows, counts, PInv, Types, RowTypes, BoxTypes,
          DoorTypes, Shape, Wakers, BoxesAreClaimed, AtWork, Up, Stacked, Requests, At, OnRow,
          Waking, OfOwner, Alive
  <2>13. CASE RemoveItsImage(d)
    BY <1>1, <2>13 DEF RemoveItsImage, Leave, RemoveImage, rows, history, counts, PInv, Types,
          RowTypes, BoxTypes, DoorTypes, Shape, Wakers, BoxesAreClaimed, AtWork, Up, Stacked,
          Requests, At, OnRow, Waking, OfOwner, Alive
  <2>14. CASE ReclaimOne(d)
    BY <1>1, <2>14 DEF ReclaimOne, Leave, RemoveImage, rows, history, counts, PInv, Types,
          RowTypes, BoxTypes, DoorTypes, Shape, Wakers, BoxesAreClaimed, AtWork, Up, Stacked,
          Requests, At, OnRow, Waking, OfOwner, Alive
  <2>15. QED
    BY <1>1, <2>1, <2>2, <2>3, <2>4, <2>5, <2>6, <2>7, <2>8, <2>9, <2>10, <2>11, <2>12, <2>13,
          <2>14 DEF Request
<1>2. ASSUME NEW i \in Ids, Task(i) PROVE BoxesAreClaimed'
  <2>1. CASE NoteStack(i)
    BY <1>2, <2>1 DEF NoteStack, Builds, docker, history, counts, PInv, Types, RowTypes, BoxTypes,
          DoorTypes, Shape, Wakers, BoxesAreClaimed, AtWork, Up, Stacked, Requests, At, OnRow,
          Waking, OfOwner, Alive
  <2>2. CASE Build(i)
    BY <1>2, <2>2 DEF Build, Builds, RunBox, history, counts, PInv, Types, RowTypes, BoxTypes,
          DoorTypes, Shape, Wakers, BoxesAreClaimed, AtWork, Up, Stacked, Requests, At, OnRow,
          Waking, OfOwner, Alive
  <2>3. CASE BuildFails(i)
    BY <1>2, <2>3 DEF BuildFails, Builds, RunBox, history, counts, PInv, Types, RowTypes,
          BoxTypes, DoorTypes, Shape, Wakers, BoxesAreClaimed, AtWork, Up, Stacked, Requests, At,
          OnRow, Waking, OfOwner, Alive
  <2>4. CASE RunImage(i)
    BY <1>2, <2>4 DEF RunImage, Builds, RunBox, RunFails, history, counts, PInv, Types, RowTypes,
          BoxTypes, DoorTypes, Shape, Wakers, BoxesAreClaimed, AtWork, Up, Stacked, Requests, At,
          OnRow, Waking, OfOwner, Alive
  <2>5. CASE CheckBox(i)
    BY <1>2, <2>5 DEF CheckBox, Builds, rows, docker, history, counts, PInv, Types, RowTypes,
          BoxTypes, DoorTypes, Shape, Wakers, BoxesAreClaimed, AtWork, Up, Stacked, Requests, At,
          OnRow, Waking, OfOwner, Alive
  <2>6. CASE TearDown(i)
    BY <1>2, <2>6 DEF TearDown, Builds, Unbox, RemoveImage, rows, counts, PInv, Types, RowTypes,
          BoxTypes, DoorTypes, Shape, Wakers, BoxesAreClaimed, AtWork, Up, Stacked, Requests, At,
          OnRow, Waking, OfOwner, Alive
  <2>7. CASE Fail(i)
    BY <1>2, <2>7 DEF Fail, Builds, Reads, docker, history, counts, PInv, Types, RowTypes,
          BoxTypes, DoorTypes, Shape, Wakers, BoxesAreClaimed, AtWork, Up, Stacked, Requests, At,
          OnRow, Waking, OfOwner, Alive
  <2>8. CASE Report(i)
    BY <1>2, <2>8 DEF Report, Builds, Reads, docker, counts, PInv, Types, RowTypes, BoxTypes,
          DoorTypes, Shape, Wakers, BoxesAreClaimed, AtWork, Up, Stacked, Requests, At, OnRow,
          Waking, OfOwner, Alive
  <2>9. QED
    BY <1>2, <2>1, <2>2, <2>3, <2>4, <2>5, <2>6, <2>7, <2>8 DEF Task
<1>3. ASSUME NEW d \in Doors, Reclaim(d) PROVE BoxesAreClaimed'
  BY <1>3 DEF Reclaim, Asks, At, docker, history, Acts, PInv, Types, RowTypes, BoxTypes,
        DoorTypes, Shape, Wakers, BoxesAreClaimed, AtWork, Up, Stacked, Requests, OnRow, Waking,
        OfOwner, Alive
<1>4. ASSUME NEW d \in Doors, NEW o \in Owners, Start(d, o) \/ Read(d, o) \/ Stop(d, o)
      PROVE  BoxesAreClaimed'
  <2>1. CASE Start(d, o)
    BY <1>4, <2>1 DEF Start, GoFor, Asks, rows, docker, history, Acts, PInv, Types, RowTypes,
          BoxTypes, DoorTypes, Shape, Wakers, BoxesAreClaimed, AtWork, Up, Stacked, Requests, At,
          OnRow, Waking, OfOwner, Alive
  <2>2. CASE Read(d, o)
    <3>1. UNCHANGED <<rows, docker, swept, builder, history>>
      BY <2>2 DEF Read
    <3>2. \A e \in Doors : door[e].at \in {"claiming", "unboxing"} => door'[e] = door[e]
      BY <2>2 DEF Read, Asks, PInv, Types, DoorTypes
    <3>3. QED
      BY <3>1, <3>2 DEF PInv, BoxesAreClaimed, AtWork, Up, rows, docker, history
  <2>3. CASE Stop(d, o)
    <3> DEFINE all == {j \in OfOwner(o) : status[j] \in Alive \cup {"idle"}}
    <3>1. PICK i \in all :
            /\ status' = [j \in Ids |-> IF j \in all THEN "stopped" ELSE status[j]]
            /\ known' = known \cup {j \in all : Up(j) /\ j # i}
            /\ IF Stacked(i) /\ i \notin noted THEN UNCHANGED door
               ELSE door' = [door EXCEPT ![d] = [At("unboxing") EXCEPT !.owner = o, !.row = i]]
      BY <2>3 DEF Stop
    <3>2. UNCHANGED <<box, swept, builder>> /\ door[d].at = "idle" /\ all \subseteq Ids
      BY <2>3 DEF Stop, docker, Asks, OfOwner
    <3> HIDE DEF all
    <3>3. \A e \in Doors : door[e].at \in {"claiming", "unboxing"} => door'[e] = door[e]
      BY <3>1, <3>2 DEF PInv, Types, DoorTypes
    <3>4. Up(i) => door'[d].at = "unboxing" /\ door'[d].row = i
      BY <3>1, <3>2 DEF PInv, Types, DoorTypes, Shape, At
    <3>5. \A j \in Ids : AtWork(j) => AtWork(j)'
      BY <3>2, <3>3 DEF AtWork
    <3>6. Up(i) => AtWork(i)'
      BY <3>4 DEF AtWork
    <3>7. \A j \in Ids : Up(j)' => status'[j] \in Alive \/ AtWork(j)' \/ j \in known'
      BY <3>1, <3>2, <3>5, <3>6 DEF PInv, BoxesAreClaimed, Up, Types, RowTypes
    <3>8. QED
      BY <3>7 DEF BoxesAreClaimed
  <2>4. QED
    BY <1>4, <2>1, <2>2, <2>3
<1>5. CASE SweepIdle
  BY <1>5 DEF SweepIdle, docker, counts, PInv, Types, RowTypes, BoxTypes, DoorTypes, Shape,
        Wakers, BoxesAreClaimed, AtWork, Up, Stacked, Requests, At, OnRow, Waking, OfOwner, Alive
<1>6. CASE SweepBox
  BY <1>6 DEF SweepBox, Unbox, rows, counts, PInv, Types, RowTypes, BoxTypes, DoorTypes, Shape,
        Wakers, BoxesAreClaimed, AtWork, Up, Stacked, Requests, At, OnRow, Waking, OfOwner, Alive
<1>7. ASSUME NEW i \in Ids, BoxDies(i) PROVE BoxesAreClaimed'
  BY <1>7 DEF BoxDies, Acts, rows, PInv, Types, RowTypes, BoxTypes, DoorTypes, Shape, Wakers,
        BoxesAreClaimed, AtWork, Up, Stacked, Requests, At, OnRow, Waking, OfOwner, Alive
<1>8. ASSUME NEW i \in Ids, ImagePruned(i) PROVE BoxesAreClaimed'
  BY <1>8 DEF ImagePruned, RemoveImage, Acts, rows, history, PInv, Types, RowTypes, BoxTypes,
        DoorTypes, Shape, Wakers, BoxesAreClaimed, AtWork, Up, Stacked, Requests, At, OnRow,
        Waking, OfOwner, Alive
<1>9. CASE Restart
  BY <1>9 DEF Restart, At, PInv, Types, RowTypes, BoxTypes, DoorTypes, Shape, Wakers,
        BoxesAreClaimed, AtWork, Up, Stacked, Requests, OnRow, Waking, OfOwner, Alive
<1>10. CASE UNCHANGED vars
  BY <1>10 DEF vars, rows, docker, history, counts, PInv, Types, RowTypes, BoxTypes, DoorTypes,
        Shape, Wakers, BoxesAreClaimed, AtWork, Up, Stacked, Requests, At, OnRow, Waking, OfOwner,
        Alive
<1>11. QED
  BY <1>1, <1>2, <1>3, <1>4, <1>5, <1>6, <1>7, <1>8, <1>9, <1>10 DEF Next, People

----------------------------------------------------------------------------
(* The limit. *)

\* The starts that are past the limit, and the cards that have, or may get, a
\* preview alive.
Pending == {d \in Doors : door[d].at \in Started}
Busy == CardsAlive \cup {o \in Cards : \E d \in Pending : door[d].owner = o}

LimitKept ==
    ~overlapped => /\ \A d, e \in Pending : d = e
                   /\ Cardinality(Busy) <= Limit

\* What every step but a start's first does: it begins no start, and a row it
\* makes alive is of a start's owner.
Narrows ==
    /\ overlapped' = overlapped
    /\ \A d \in Pending' : d \in Pending /\ door'[d].owner = door[d].owner
    /\ \A i \in Ids : status'[i] \in Alive =>
          \/ status[i] \in Alive /\ owner'[i] = owner[i]
          \/ \E d \in Pending : door[d].owner = owner'[i]

LEMMA StepsNarrow ==
    ASSUME Types, Wakers, [Next]_vars,
           \A d \in Doors, o \in Owners : ~Start(d, o)
    PROVE  Narrows
<1>1. ASSUME NEW d \in Doors, Request(d) PROVE Narrows
  <2>1. CASE FindIdle(d)
    <3>1. UNCHANGED <<owner, status, overlapped>>
      BY <2>1 DEF FindIdle, rows, counts
    <3>2. \/ Go(d, "inserting")
          \/ \E i \in Ids : GoTo(d, "looking", i)
      BY <2>1 DEF FindIdle, IsLast, OfOwner
    <3>3. /\ \A e \in Doors : e # d => door'[e] = door[e]
          /\ door'[d].owner = door[d].owner
      BY <3>2 DEF Go, GoTo, Types, DoorTypes, Requests
    <3>4. door[d].at \in Started
      BY <2>1 DEF FindIdle, Started
    <3>5. QED
      BY <3>1, <3>3, <3>4 DEF Narrows, Pending
  <2>2. CASE LookForImage(d)
    BY <1>1, <2>2 DEF LookForImage, Go, docker, history, counts, Types, RowTypes, BoxTypes,
          DoorTypes, Wakers, Narrows, Pending, Requests, At, Started, Waking, OnRow, Alive, OfOwner
  <2>3. CASE ClearName(d)
    BY <1>1, <2>3 DEF ClearName, Go, Unbox, rows, counts, Types, RowTypes, BoxTypes, DoorTypes,
          Wakers, Narrows, Pending, Requests, At, Started, Waking, OnRow, Alive, OfOwner
  <2>4. CASE Launch(d)
    BY <1>1, <2>4 DEF Launch, Go, Leave, RunBox, RunFails, history, counts, Types, RowTypes,
          BoxTypes, DoorTypes, Wakers, Narrows, Pending, Requests, At, Started, Waking, OnRow,
          Alive, OfOwner
  <2>5. CASE Claim(d)
    BY <1>1, <2>5 DEF Claim, Go, Leave, Reads, docker, counts, Types, RowTypes, BoxTypes,
          DoorTypes, Wakers, Narrows, Pending, Requests, At, Started, Waking, OnRow, Alive, OfOwner
  <2>6. CASE HandBack(d)
    BY <1>1, <2>6 DEF HandBack, GoTo, rows, docker, history, counts, Types, RowTypes, BoxTypes,
          DoorTypes, Wakers, Narrows, Pending, Requests, At, Started, Waking, OnRow, Alive, OfOwner
  <2>7. CASE Insert(d)
    BY <1>1, <2>7 DEF Insert, GoTo, Builds, Reads, docker, history, counts, Types, RowTypes,
          BoxTypes, DoorTypes, Wakers, Narrows, Pending, Requests, At, Started, Waking, OnRow,
          Alive, OfOwner
  <2>8. CASE ReadRow(d)
    BY <1>1, <2>8 DEF ReadRow, Go, Leave, rows, docker, history, counts, Types, RowTypes,
          BoxTypes, DoorTypes, Wakers, Narrows, Pending, Requests, At, Started, Waking, OnRow,
          Alive, OfOwner
  <2>9. CASE AskDocker(d)
    BY <1>1, <2>9 DEF AskDocker, Go, Leave, rows, docker, history, counts, Types, RowTypes,
          BoxTypes, DoorTypes, Wakers, Narrows, Pending, Requests, At, Started, Waking, OnRow,
          Alive, OfOwner
  <2>10. CASE Settle(d)
    BY <1>1, <2>10 DEF Settle, Go, Reads, docker, counts, Types, RowTypes, BoxTypes, DoorTypes,
          Wakers, Narrows, Pending, Requests, At, Started, Waking, OnRow, Alive, OfOwner
  <2>11. CASE Wipe(d)
    BY <1>1, <2>11 DEF Wipe, Go, RemoveImage, rows, history, counts, Types, RowTypes, BoxTypes,
          DoorTypes, Wakers, Narrows, Pending, Requests, At, Started, Waking, OnRow, Alive, OfOwner
  <2>12. CASE RemoveBox(d)
    BY <1>1, <2>12 DEF RemoveBox, Go, Unbox, rows, counts, Types, RowTypes, BoxTypes, DoorTypes,
          Wakers, Narrows, Pending, Requests, At, Started, Waking, OnRow, Alive, OfOwner
  <2>13. CASE RemoveItsImage(d)
    BY <1>1, <2>13 DEF RemoveItsImage, Leave, RemoveImage, rows, history, counts, Types, RowTypes,
          BoxTypes, DoorTypes, Wakers, Narrows, Pending, Requests, At, Started, Waking, OnRow,
          Alive, OfOwner
  <2>14. CASE ReclaimOne(d)
    BY <1>1, <2>14 DEF ReclaimOne, Leave, RemoveImage, rows, history, counts, Types, RowTypes,
          BoxTypes, DoorTypes, Wakers, Narrows, Pending, Requests, At, Started, Waking, OnRow,
          Alive, OfOwner
  <2>15. QED
    BY <1>1, <2>1, <2>2, <2>3, <2>4, <2>5, <2>6, <2>7, <2>8, <2>9, <2>10, <2>11, <2>12, <2>13,
          <2>14 DEF Request
<1>2. ASSUME NEW i \in Ids, Task(i) PROVE Narrows
  <2>1. CASE NoteStack(i)
    BY <1>2, <2>1 DEF NoteStack, Builds, docker, history, counts, Types, RowTypes, BoxTypes,
          DoorTypes, Wakers, Narrows, Pending, Requests, At, Started, Waking, OnRow, Alive, OfOwner
  <2>2. CASE Build(i)
    BY <1>2, <2>2 DEF Build, Builds, RunBox, history, counts, Types, RowTypes, BoxTypes,
          DoorTypes, Wakers, Narrows, Pending, Requests, At, Started, Waking, OnRow, Alive, OfOwner
  <2>3. CASE BuildFails(i)
    BY <1>2, <2>3 DEF BuildFails, Builds, RunBox, history, counts, Types, RowTypes, BoxTypes,
          DoorTypes, Wakers, Narrows, Pending, Requests, At, Started, Waking, OnRow, Alive, OfOwner
  <2>4. CASE RunImage(i)
    BY <1>2, <2>4 DEF RunImage, Builds, RunBox, RunFails, history, counts, Types, RowTypes,
          BoxTypes, DoorTypes, Wakers, Narrows, Pending, Requests, At, Started, Waking, OnRow,
          Alive, OfOwner
  <2>5. CASE CheckBox(i)
    BY <1>2, <2>5 DEF CheckBox, Builds, rows, docker, history, counts, Types, RowTypes, BoxTypes,
          DoorTypes, Wakers, Narrows, Pending, Requests, At, Started, Waking, OnRow, Alive, OfOwner
  <2>6. CASE TearDown(i)
    BY <1>2, <2>6 DEF TearDown, Builds, Unbox, RemoveImage, rows, counts, Types, RowTypes,
          BoxTypes, DoorTypes, Wakers, Narrows, Pending, Requests, At, Started, Waking, OnRow,
          Alive, OfOwner
  <2>7. CASE Fail(i)
    BY <1>2, <2>7 DEF Fail, Builds, Reads, docker, history, counts, Types, RowTypes, BoxTypes,
          DoorTypes, Wakers, Narrows, Pending, Requests, At, Started, Waking, OnRow, Alive, OfOwner
  <2>8. CASE Report(i)
    BY <1>2, <2>8 DEF Report, Builds, Reads, docker, counts, Types, RowTypes, BoxTypes, DoorTypes,
          Wakers, Narrows, Pending, Requests, At, Started, Waking, OnRow, Alive, OfOwner
  <2>9. QED
    BY <1>2, <2>1, <2>2, <2>3, <2>4, <2>5, <2>6, <2>7, <2>8 DEF Task
<1>3. ASSUME NEW d \in Doors, Reclaim(d) PROVE Narrows
  BY <1>3 DEF Reclaim, Asks, At, docker, history, Acts, Types, RowTypes, BoxTypes, DoorTypes,
        Wakers, Narrows, Pending, Requests, Started, Waking, OnRow, Alive, OfOwner
<1>4. ASSUME NEW d \in Doors, NEW o \in Owners, Start(d, o) \/ Read(d, o) \/ Stop(d, o)
      PROVE  Narrows
  <2>1. CASE Start(d, o)
    BY <1>4, <2>1 DEF Start, GoFor, Asks, rows, docker, history, Acts, Types, RowTypes, BoxTypes,
          DoorTypes, Wakers, Narrows, Pending, Requests, At, Started, Waking, OnRow, Alive, OfOwner
  <2>2. CASE Read(d, o)
    <3>1. /\ UNCHANGED <<owner, status, overlapped>>
          /\ \E i \in Ids : door' = [door EXCEPT ![d] = [At("reading") EXCEPT !.owner = o, !.row = i]]
      BY <2>2 DEF Read, rows
    <3>2. \A e \in Doors : door'[e].at \in Started => door'[e] = door[e]
      BY <3>1 DEF Types, DoorTypes, At, Started, Waking
    <3>3. QED
      BY <3>1, <3>2 DEF Narrows, Pending
  <2>3. CASE Stop(d, o)
    <3> DEFINE all == {j \in OfOwner(o) : status[j] \in Alive \cup {"idle"}}
    <3>1. /\ status' = [j \in Ids |-> IF j \in all THEN "stopped" ELSE status[j]]
          /\ UNCHANGED <<owner, overlapped>>
          /\ \/ UNCHANGED door
             \/ \E i \in Ids : door' = [door EXCEPT ![d] = [At("unboxing") EXCEPT !.owner = o, !.row = i]]
      BY <2>3 DEF Stop, OfOwner
    <3> HIDE DEF all
    <3>2. \A e \in Doors : door'[e].at \in Started => door'[e] = door[e]
      BY <3>1 DEF Types, DoorTypes, At, Started, Waking
    <3>3. \A i \in Ids : status'[i] \in Alive => status[i] \in Alive
      BY <3>1 DEF Alive
    <3>4. QED
      BY <3>1, <3>2, <3>3 DEF Narrows, Pending
  <2>4. QED
    BY <1>4, <2>1, <2>2, <2>3
<1>5. CASE SweepIdle
  BY <1>5 DEF SweepIdle, docker, counts, Types, RowTypes, BoxTypes, DoorTypes, Wakers, Narrows,
        Pending, Requests, At, Started, Waking, OnRow, Alive, OfOwner
<1>6. CASE SweepBox
  BY <1>6 DEF SweepBox, Unbox, rows, counts, Types, RowTypes, BoxTypes, DoorTypes, Wakers,
        Narrows, Pending, Requests, At, Started, Waking, OnRow, Alive, OfOwner
<1>7. ASSUME NEW i \in Ids, BoxDies(i) PROVE Narrows
  BY <1>7 DEF BoxDies, Acts, rows, Types, RowTypes, BoxTypes, DoorTypes, Wakers, Narrows, Pending,
        Requests, At, Started, Waking, OnRow, Alive, OfOwner
<1>8. ASSUME NEW i \in Ids, ImagePruned(i) PROVE Narrows
  BY <1>8 DEF ImagePruned, RemoveImage, Acts, rows, history, Types, RowTypes, BoxTypes, DoorTypes,
        Wakers, Narrows, Pending, Requests, At, Started, Waking, OnRow, Alive, OfOwner
<1>9. CASE Restart
  BY <1>9 DEF Restart, At, Types, RowTypes, BoxTypes, DoorTypes, Wakers, Narrows, Pending,
        Requests, Started, Waking, OnRow, Alive, OfOwner
<1>10. CASE UNCHANGED vars
  BY <1>10 DEF vars, rows, docker, history, counts, Types, RowTypes, BoxTypes, DoorTypes, Wakers,
        Narrows, Pending, Requests, At, Started, Waking, OnRow, Alive, OfOwner
<1>11. QED
  BY <1>1, <1>2, <1>3, <1>4, <1>5, <1>6, <1>7, <1>8, <1>9, <1>10 DEF Next, People

LEMMA BusyIsSmall ==
    /\ IsFiniteSet(Busy)
    /\ \A S \in SUBSET Busy : IsFiniteSet(S) /\ Cardinality(S) <= Cardinality(Busy)
<1>1. Busy \subseteq Cards
  BY DEF Busy, CardsAlive
<1>2. IsFiniteSet(Busy)
  BY <1>1, CardsAssumption, FS_Subset
<1>3. QED
  BY <1>2, FS_Subset

\* The owners of a set of rows are at most as many as the rows.
LEMMA OwnersOfRows ==
    ASSUME RowTypes, NEW S \in SUBSET Ids
    PROVE  /\ IsFiniteSet({owner[i] : i \in S})
           /\ Cardinality({owner[i] : i \in S}) <= Cardinality(S)
           /\ Cardinality(S) \in Nat
<1>1. IsFiniteSet(Ids)
  BY FS_Interval, BoundsAssumption DEF Ids
<1>2. IsFiniteSet(S) /\ Cardinality(S) \in Nat
  BY <1>1, FS_Subset, FS_CardinalityType
<1> DEFINE f == [i \in S |-> owner[i]]
<1>3. f \in Surjection(S, {owner[i] : i \in S})
  BY DEF Surjection
<1>4. QED
  BY <1>2, <1>3, FS_Surjection

LEMMA LimitStays ==
    ASSUME Types, Wakers, LimitKept, [Next]_vars
    PROVE  LimitKept'
<1>1. CASE \A d \in Doors, o \in Owners : ~Start(d, o)
  <2>1. Narrows
    BY <1>1, StepsNarrow
  <2>2. Busy' \subseteq Busy
    BY <2>1 DEF Narrows, Busy, CardsAlive
  <2>3. Cardinality(Busy') <= Cardinality(Busy)
    BY <2>2, BusyIsSmall
  <2>4. Cardinality(Busy) \in Nat /\ Cardinality(Busy') \in Nat
    BY <2>2, BusyIsSmall, FS_CardinalityType
  <2>5. QED
    BY <2>1, <2>3, <2>4, BoundsAssumption DEF LimitKept, Narrows
<1>2. ASSUME NEW d \in Doors, NEW o \in Owners, Start(d, o), ~overlapped' PROVE LimitKept'
  <2>1. ~overlapped /\ Pending = {} /\ UNCHANGED <<owner, status>>
    BY <1>2 DEF Start, Pending, rows, Types, BoxTypes
  <2>2. /\ \A e \in Doors : e # d => door'[e] = door[e]
        /\ door'[d].owner = o
    BY <1>2 DEF Start, GoFor, At, Types, DoorTypes
  <2>3. Pending' \subseteq {d}
    BY <2>1, <2>2 DEF Pending
  <2>4. Busy' \subseteq Busy \cup ({o} \cap Cards)
    BY <2>1, <2>2, <2>3 DEF Busy, CardsAlive
  <2>5. Cardinality(Busy') <= Limit
    <3>1. CASE o \notin Cards
      <4>1. Cardinality(Busy') <= Cardinality(Busy)
        BY <2>4, <3>1, BusyIsSmall
      <4>2. Busy' \subseteq Busy
        BY <2>4, <3>1
      <4>3. Cardinality(Busy) \in Nat /\ Cardinality(Busy') \in Nat
        BY <4>2, BusyIsSmall, FS_CardinalityType
      <4>4. QED
        BY <2>1, <4>1, <4>3, BoundsAssumption DEF LimitKept
    <3>2. CASE o \in Cards
      <4> DEFINE theirs == {owner[i] : i \in Others(o)}
      <4>1. Others(o) \subseteq Ids /\ Cardinality(Others(o)) < Limit
        BY <1>2 DEF Others, Start
      <4>2. IsFiniteSet(theirs) /\ Cardinality(theirs) <= Cardinality(Others(o))
              /\ Cardinality(Others(o)) \in Nat /\ Cardinality(theirs) \in Nat
        BY <4>1, OwnersOfRows, FS_CardinalityType DEF Types
      <4>3. Busy \subseteq theirs \cup {o}
        BY <2>1, <3>2 DEF Busy, CardsAlive, Others
      <4> HIDE DEF theirs
      <4>4. Busy' \subseteq theirs \cup {o}
        BY <2>4, <4>3
      <4>5. /\ IsFiniteSet(theirs \cup {o})
            /\ Cardinality(theirs \cup {o}) \in {Cardinality(theirs), Cardinality(theirs) + 1}
        BY <4>2, FS_AddElement
      <4>6. Cardinality(Busy') <= Cardinality(theirs \cup {o})
              /\ Cardinality(Busy') \in Nat /\ Cardinality(theirs \cup {o}) \in Nat
        BY <4>4, <4>5, FS_Subset, FS_CardinalityType
      <4>7. QED
        BY <4>1, <4>2, <4>5, <4>6, BoundsAssumption
    <3>3. QED
      BY <3>1, <3>2
  <2>6. QED
    BY <2>3, <2>5 DEF LimitKept
<1>3. QED
  BY <1>1, <1>2 DEF LimitKept

----------------------------------------------------------------------------
(* The theorems. *)

LEMMA PInvFirst == Init => PInv /\ LimitKept
<1> SUFFICES ASSUME Init PROVE PInv /\ LimitKept
  OBVIOUS
<1>1. \A i \in Ids : owner[i] = NoOne /\ status[i] = "none" /\ box[i] = "none" /\ builder[i] = "none"
  BY DEF Init
<1>2. InOrder(At("idle"))
  BY BoundsAssumption DEF InOrder, At, Requests, Places, Started, OnRow, Waking
<1>3. RowTypes /\ BoxTypes
  <2>1. RowTypes
    BY <1>1 DEF Init, RowTypes, Statuses
  <2>2. BoxTypes
    <3>1. acts \in 0 .. MaxActs /\ restarts \in 0 .. MaxRestarts
      BY BoundsAssumption DEF Init
    <3>2. /\ box \in [Ids -> {"none", "up", "dead"}] /\ maker \in [Ids -> Doors \cup {NoDoor}]
          /\ builder \in [Ids -> Trades]
      BY DEF Init, Trades
    <3>3. images = {} /\ swept = {} /\ known = {} /\ adopted = {} /\ overlapped = FALSE
      BY DEF Init
    <3>4. QED
      BY <3>1, <3>2, <3>3 DEF BoxTypes
  <2>3. QED
    BY <2>1, <2>2
<1>4. DoorTypes
  BY <1>2 DEF Init, DoorTypes, InOrder
<1>5. \A d \in Doors : door[d].at = "idle"
  BY DEF Init, At
<1>6. Shape /\ Wakers /\ BoxesAreClaimed
  BY <1>1, <1>5 DEF Shape, Wakers, BoxesAreClaimed, Up, Waking
<1>7. Busy = {} /\ Pending = {}
  BY <1>1, <1>5 DEF Busy, CardsAlive, Pending, Started, Alive
<1>8. LimitKept
  BY <1>7, FS_EmptySet, BoundsAssumption DEF LimitKept
<1>9. QED
  BY <1>3, <1>4, <1>6, <1>8 DEF PInv, Types

LEMMA PInvStays == PInv /\ LimitKept /\ [Next]_vars => PInv' /\ LimitKept'
<1> SUFFICES ASSUME PInv, LimitKept, [Next]_vars PROVE PInv' /\ LimitKept'
  OBVIOUS
<1>1. Types /\ Shape /\ Wakers
  BY DEF PInv
<1>2. Types'
  BY <1>1, RowTypesStay, BoxTypesStay, DoorTypesStay DEF Types
<1>3. Shape' /\ Wakers' /\ BoxesAreClaimed' /\ LimitKept'
  BY <1>1, ShapeStays, WakersStay, ClaimsStay, LimitStays
<1>4. QED
  BY <1>2, <1>3 DEF PInv

THEOREM PInvHolds == Spec => [](PInv /\ LimitKept)
  BY PInvFirst, PInvStays, PTL DEF Spec

\* Every variable keeps its type, whatever the requests, the tasks, Docker and
\* the restarts do to one another.
THEOREM TypeCorrect == Spec => []TypeOK
<1>1. PInv => TypeOK
  BY TypesAre DEF PInv
<1>2. QED
  BY <1>1, PInvHolds, PTL

\* For any cards, stacks, requests and restarts, a box that is up has a row
\* alive or somebody at work on it, or is one of the known leftovers.
THEOREM BoxesAreKnown == Spec => []BoxesAreClaimed
<1>1. PInv => BoxesAreClaimed
  BY DEF PInv
<1>2. QED
  BY <1>1, PInvHolds, PTL

\* Without two starts past the limit at once, no more cards than the limit have
\* a preview alive, for any limit, however many rows each has had.
THEOREM LimitsNeedARace == Spec => []LimitNeedsARace
<1>1. LimitKept => LimitNeedsARace
  <2>1. CardsAlive \in SUBSET Busy
    BY DEF Busy
  <2>2. Cardinality(CardsAlive) <= Cardinality(Busy)
    BY <2>1, BusyIsSmall
  <2>3. Cardinality(CardsAlive) \in Nat /\ Cardinality(Busy) \in Nat
    BY <2>1, BusyIsSmall, FS_CardinalityType
  <2>4. QED
    BY <2>2, <2>3, BoundsAssumption DEF LimitKept, LimitNeedsARace
<1>2. QED
  BY <1>1, PInvHolds, PTL
=============================================================================
