------------------------------ MODULE Previews ------------------------------
(***************************************************************************)
(* Previews: a card's branch, or a project's base branch, built and run in *)
(* a container (core/previews/mod.rs).  A preview is a row, and what       *)
(* Docker has under the row's name: a box (one container, or the           *)
(* containers of a compose stack) and an image.  The two are changed by    *)
(* separate statements and commands, by requests, by the task that builds, *)
(* by the sweep of idle previews, and made to agree at boot.               *)
(*                                                                         *)
(* A statement or a Docker command is one step.  Rows are not deleted, and *)
(* Docker answers at boot.  Apps, which are base previews with a limit of  *)
(* their own, and a stack's images, which nothing reads, are left out.     *)
(***************************************************************************)
EXTENDS FiniteSets, Naturals

CONSTANTS
    Cards,          \* the cards of one project
    Bases,          \* base branches
    Stacks,         \* those whose branch is a compose stack
    NoOne,          \* none of them
    Doors,          \* bound: requests served at once
    NoDoor,         \* none of these
    Limit,          \* limits().max_live
    MaxRows,        \* bound: previews ever started
    MaxActs,        \* bound: requests, and what happens to Docker meanwhile
    MaxRestarts     \* bound: restarts of the server

Owners == Cards \cup Bases
Ids == 1 .. MaxRows

ASSUME OwnersAssumption == Cards \cap Bases = {} /\ Stacks \subseteq Owners /\ NoOne \notin Owners
ASSUME CardsAssumption == IsFiniteSet(Cards)
ASSUME DoorsAssumption == IsFiniteSet(Doors) /\ Doors # {} /\ NoDoor \notin Doors
ASSUME BoundsAssumption ==
    Limit \in Nat \ {0} /\ MaxRows \in Nat /\ MaxActs \in Nat /\ MaxRestarts \in Nat

VARIABLES
    \* The rows, by age.
    owner,          \* task_id, or project_id when there is none
    status,         \* previews.status, "none" while there is no such row
    kept,           \* image_kept
    noted,          \* compose_file
    holds,          \* container_id: none, the present box's, or an older one's
    \* Docker.
    box,            \* what has the row's name: none, up, or dead
    maker,          \* whose docker run it is from (NoDoor: the build's)
    images,         \* the rows whose own image is there
    \* The process.
    door,           \* where each request is
    swept,          \* the rows whose box the idle sweep has still to remove
    builder,        \* where the task of each row is
    \* History.
    known,          \* boxes left up by a known race
    adopted,        \* rows that a boot left building, because their box is up
    overlapped,     \* two starts have been past the limit at once
    acts, restarts  \* so far, for the bounds

rows == <<owner, status, kept, noted, holds>>
docker == <<box, maker, images>>
history == <<known, adopted>>
counts == <<overlapped, acts, restarts>>
vars == <<rows, docker, door, swept, builder, history, counts>>

Statuses == {"none", "building", "running", "idle", "stopped", "failed"}
Places == {"idle", "finding", "looking", "clearing", "launching", "claiming", "inserting",
           "reading", "asking", "settling", "wiping", "unboxing", "unimaging", "reclaiming"}
Trades == {"none", "noting", "building", "launching", "checking", "tearing", "failing", "reporting"}

At(p) == [at |-> p, owner |-> NoOne, row |-> 0, rest |-> {}]
Requests == [at : Places, owner : Owners \cup {NoOne}, row : 0 .. MaxRows, rest : SUBSET Ids]

Alive == {"building", "running"}
Stacked(i) == owner[i] \in Stacks
Up(i) == box[i] = "up"

\* Places of a start that has been let through by the limit, and of one that
\* wakes a row.
Started == {"finding", "looking", "clearing", "launching", "claiming", "inserting"}
Waking == {"looking", "clearing", "launching", "claiming"}
OnRow == Waking \cup {"reading", "asking", "settling", "wiping", "unboxing", "unimaging"}

TypeOK ==
    /\ owner \in [Ids -> Owners \cup {NoOne}]
    /\ status \in [Ids -> Statuses]
    /\ kept \subseteq Ids
    /\ noted \subseteq Ids
    /\ holds \in [Ids -> {"none", "this", "old"}]
    /\ box \in [Ids -> {"none", "up", "dead"}]
    /\ maker \in [Ids -> Doors \cup {NoDoor}]
    /\ images \subseteq Ids
    /\ door \in [Doors -> Requests]
    /\ \A d \in Doors : /\ door[d].at \in Started => door[d].owner \in Owners
                        /\ door[d].at \in OnRow => door[d].row \in Ids
    /\ swept \subseteq Ids
    /\ builder \in [Ids -> Trades]
    /\ \A i \in Ids : owner[i] = NoOne <=> status[i] = "none"
    /\ known \subseteq Ids
    /\ adopted \subseteq Ids
    /\ overlapped \in BOOLEAN
    /\ acts \in 0 .. MaxActs
    /\ restarts \in 0 .. MaxRestarts

Init ==
    /\ owner = [i \in Ids |-> NoOne]
    /\ status = [i \in Ids |-> "none"]
    /\ kept = {} /\ noted = {} /\ images = {} /\ swept = {} /\ known = {} /\ adopted = {}
    /\ holds = [i \in Ids |-> "none"]
    /\ box = [i \in Ids |-> "none"]
    /\ maker = [i \in Ids |-> NoDoor]
    /\ door = [d \in Doors |-> At("idle")]
    /\ builder = [i \in Ids |-> "none"]
    /\ overlapped = FALSE
    /\ acts = 0 /\ restarts = 0

----------------------------------------------------------------------------
(* Helpers. *)

Go(d, p) == door' = [door EXCEPT ![d].at = p]
GoFor(d, p, o) == door' = [door EXCEPT ![d] = [At(p) EXCEPT !.owner = o]]
GoTo(d, p, i) == door' = [door EXCEPT ![d].at = p, ![d].row = i]
Leave(d) == door' = [door EXCEPT ![d] = At("idle")]
Acts == acts < MaxActs /\ acts' = acts + 1 /\ UNCHANGED restarts
Asks(d) == door[d].at = "idle" /\ Acts
Builds(i, p) == builder' = [builder EXCEPT ![i] = p]
Reads(i, s) == status' = [status EXCEPT ![i] = s]

\* docker rm --force and compose down: what was there is gone.
Unbox(i) ==
    /\ box' = [box EXCEPT ![i] = "none"]
    /\ maker' = [maker EXCEPT ![i] = NoDoor]
    /\ known' = known \ {i}
    /\ UNCHANGED adopted

\* docker run under the row's name: a new box, which no row's id is of.
RunBox(i, by) ==
    /\ box' = [box EXCEPT ![i] = "up"]
    /\ maker' = [maker EXCEPT ![i] = by]
    /\ holds' = [holds EXCEPT ![i] = IF @ = "none" THEN "none" ELSE "old"]

\* It fails, and may leave a container that never ran.
RunFails(i) ==
    /\ box' \in {box, [box EXCEPT ![i] = IF @ = "none" THEN "dead" ELSE @]}
    /\ UNCHANGED <<maker, holds>>

\* rmi of the row's own tag, which a stack has not.
RemoveImage(i) == images' = images \ {i}

OfOwner(o) == {i \in Ids : owner[i] = o}
IsLast(i, S) == i \in S /\ \A j \in S : j <= i

\* The partial unique indexes: one row alive for a card, and for a base branch
\* one alive or idle.
Holding(o) == {i \in OfOwner(o) : status[i] \in Alive \/ (o \in Bases /\ status[i] = "idle")}

----------------------------------------------------------------------------
(* Start: the limit, then wake, then a new row and its build. *)

\* Mutant of Others: those that are still building take no memory yet.
OthersRunning(o) == {i \in Ids : status[i] = "running" /\ owner[i] \in Cards \ {o}}

\* What the limit counts: for a card the previews of other cards, for a base
\* branch everything else.
Others(o) ==
    {i \in Ids : status[i] \in Alive /\ owner[i] \in IF o \in Cards THEN Cards \ {o} ELSE Owners \ {o}}

Start(d, o) ==
    /\ Cardinality(Others(o)) < Limit
    /\ Asks(d)
    /\ GoFor(d, "finding", o)
    /\ overlapped' = (overlapped \/ \E e \in Doors : door[e].at \in Started)
    /\ UNCHANGED <<rows, docker, swept, builder, history>>

\* Mutant of FindIdle: the row that was found is not carried on.
FindIdleOnly(d) ==
    LET o == door[d].owner
        idle == {i \in OfOwner(o) : status[i] = "idle" /\ i \in kept}
    IN  /\ door[d].at = "finding"
        /\ Go(d, IF idle = {} THEN "inserting" ELSE "looking")
        /\ UNCHANGED <<rows, docker, swept, builder, history, counts>>

\* wake: the newest idle row that says its image was kept.
FindIdle(d) ==
    LET o == door[d].owner
        idle == {i \in OfOwner(o) : status[i] = "idle" /\ i \in kept}
    IN  /\ door[d].at = "finding"
        /\ \/ idle = {} /\ Go(d, "inserting")
           \/ \E i \in idle : IsLast(i, idle) /\ GoTo(d, "looking", i)
        /\ UNCHANGED <<rows, docker, swept, builder, history, counts>>

\* The image may be gone behind the row's back.
LookForImage(d) ==
    LET i == door[d].row
    IN  /\ door[d].at = "looking"
        /\ IF i \in images /\ ~Stacked(i) THEN Go(d, "clearing") /\ UNCHANGED kept
           ELSE Go(d, "inserting") /\ kept' = kept \ {i}
        /\ UNCHANGED <<owner, status, noted, holds, docker, swept, builder, history, counts>>

\* A name that lingers is removed, whoever has it by now.
ClearName(d) ==
    /\ door[d].at = "clearing"
    /\ Unbox(door[d].row)
    /\ Go(d, "launching")
    /\ UNCHANGED <<rows, images, swept, builder, counts>>

Launch(d) ==
    LET i == door[d].row
    IN  /\ door[d].at = "launching"
        /\ \/ /\ box[i] = "none" /\ i \in images
              /\ RunBox(i, d)
              /\ Go(d, "claiming")
           \/ RunFails(i) /\ Leave(d)
        /\ UNCHANGED <<owner, status, kept, noted, images, swept, builder, history, counts>>

\* The row reads running again, whatever it read before: only the index
\* can refuse, and then nobody has the box.
Claim(d) ==
    LET i == door[d].row
    IN  /\ door[d].at = "claiming"
        /\ IF Holding(owner[i]) \subseteq {i}
              THEN /\ Reads(i, "running")
                   /\ holds' = [holds EXCEPT ![i] = IF maker[i] = d THEN "this" ELSE "old"]
                   /\ Go(d, "reading")
                   /\ UNCHANGED known
              ELSE /\ known' = IF Up(i) THEN known \cup {i} ELSE known
                   /\ Leave(d)
                   /\ UNCHANGED <<status, holds>>
        /\ UNCHANGED <<owner, kept, noted, docker, swept, builder, adopted, counts>>

\* ON CONFLICT DO NOTHING: what is there is handed back.
HandBack(d) ==
    LET o == door[d].owner
    IN  /\ door[d].at = "inserting"
        /\ Holding(o) # {}
        /\ \E i \in Ids : IsLast(i, OfOwner(o)) /\ GoTo(d, "reading", i)
        /\ UNCHANGED <<rows, docker, swept, builder, history, counts>>

\* The row, its slug and the task that builds it.
Insert(d) ==
    LET o == door[d].owner
    IN  /\ door[d].at = "inserting"
        /\ Holding(o) = {}
        /\ \E i \in Ids :
              /\ status[i] = "none" /\ \A j \in Ids : status[j] = "none" => i <= j
              /\ owner' = [owner EXCEPT ![i] = o]
              /\ Reads(i, "building")
              /\ Builds(i, IF o \in Stacks THEN "noting" ELSE "building")
              /\ GoTo(d, "reading", i)
        /\ UNCHANGED <<kept, noted, holds, docker, swept, history, counts>>

----------------------------------------------------------------------------
(* Reading a preview, which a start ends with too: by_id. *)

Read(d, o) ==
    /\ Asks(d)
    /\ \E i \in Ids :
          /\ IsLast(i, OfOwner(o))
          /\ door' = [door EXCEPT ![d] = [At("reading") EXCEPT !.owner = o, !.row = i]]
    /\ UNCHANGED <<rows, docker, swept, builder, history, overlapped>>

ReadRow(d) ==
    /\ door[d].at = "reading"
    /\ IF status[door[d].row] = "running" THEN Go(d, "asking") ELSE Leave(d)
    /\ UNCHANGED <<rows, docker, swept, builder, history, counts>>

\* A stack is asked for by its name, a container by the id the row has.
AskDocker(d) ==
    LET i == door[d].row
    IN  /\ door[d].at = "asking"
        /\ IF Up(i) /\ (Stacked(i) \/ holds[i] # "old") THEN Leave(d) ELSE Go(d, "settling")
        /\ UNCHANGED <<rows, docker, swept, builder, history, counts>>

\* Its container stopped on its own, as it seems.
Settle(d) ==
    LET i == door[d].row
    IN  /\ door[d].at = "settling"
        /\ IF status[i] = "running"
              THEN /\ Reads(i, "stopped") /\ kept' = kept \ {i}
                   /\ known' = IF Up(i) THEN known \cup {i} ELSE known
              ELSE UNCHANGED <<status, kept, known>>
        /\ Go(d, "wiping")
        /\ UNCHANGED <<owner, noted, holds, docker, swept, builder, adopted, counts>>

\* The image goes, whether or not there was a row to settle.
Wipe(d) ==
    /\ door[d].at = "wiping"
    /\ RemoveImage(door[d].row)
    /\ Go(d, "reading")
    /\ UNCHANGED <<rows, box, maker, swept, builder, history, counts>>

----------------------------------------------------------------------------
(* Stop, and reclaiming disk. *)

\* Every row of the owner is stopped; one of them is handed back, and only
\* what that one has is removed.
Stop(d, o) ==
    LET all == {i \in OfOwner(o) : status[i] \in Alive \cup {"idle"}}
    IN  /\ Asks(d)
        /\ \E i \in all :
              /\ status' = [j \in Ids |-> IF j \in all THEN "stopped" ELSE status[j]]
              /\ kept' = kept \ all
              /\ known' = known \cup {j \in all : Up(j) /\ j # i}
              /\ IF Stacked(i) /\ i \notin noted THEN UNCHANGED door
                 ELSE door' = [door EXCEPT ![d] = [At("unboxing") EXCEPT !.owner = o, !.row = i]]
        /\ UNCHANGED <<owner, noted, holds, docker, swept, builder, adopted, overlapped>>

\* Mutant of RemoveBox: nothing is removed by name, and a build that has not
\* reported has no container_id.
RemoveBoxById(d) ==
    LET i == door[d].row
    IN  /\ door[d].at = "unboxing"
        /\ IF holds[i] = "this" \/ Stacked(i) THEN Unbox(i) ELSE UNCHANGED <<box, maker, history>>
        /\ Go(d, "unimaging")
        /\ UNCHANGED <<rows, images, swept, builder, counts>>

RemoveBox(d) ==
    /\ door[d].at = "unboxing"
    /\ Unbox(door[d].row)
    /\ Go(d, "unimaging")
    /\ UNCHANGED <<rows, images, swept, builder, counts>>

RemoveItsImage(d) ==
    /\ door[d].at = "unimaging"
    /\ RemoveImage(door[d].row)
    /\ Leave(d)
    /\ UNCHANGED <<rows, box, maker, swept, builder, history, counts>>

\* Images that nothing is running from, as the rows have it.
Reclaim(d) ==
    LET all == {i \in kept : status[i] # "running"}
    IN  /\ Asks(d) /\ all # {}
        /\ kept' = kept \ all
        /\ door' = [door EXCEPT ![d] = [At("reclaiming") EXCEPT !.rest = all]]
        /\ UNCHANGED <<owner, status, noted, holds, docker, swept, builder, history, overlapped>>

ReclaimOne(d) ==
    /\ door[d].at = "reclaiming"
    /\ \E i \in door[d].rest :
          /\ RemoveImage(i)
          /\ IF door[d].rest = {i} THEN Leave(d)
             ELSE door' = [door EXCEPT ![d].rest = @ \ {i}]
    /\ UNCHANGED <<rows, box, maker, swept, builder, history, counts>>

----------------------------------------------------------------------------
(* The sweep of previews nobody has looked at: any that run. *)

SweepIdle ==
    /\ swept = {}
    /\ \E looked \in SUBSET {i \in Ids : status[i] = "running"} :
          /\ looked # {}
          /\ status' = [i \in Ids |-> IF i \in looked THEN "idle" ELSE status[i]]
          /\ kept' = kept \cup looked
          /\ swept' = {i \in looked : ~Stacked(i)}
          \* docker rm of a stack's name finds nothing.
          /\ known' = known \cup {i \in looked : Stacked(i) /\ Up(i)}
    /\ UNCHANGED <<owner, noted, holds, docker, door, builder, adopted, counts>>

SweepBox ==
    /\ \E i \in swept : Unbox(i) /\ swept' = swept \ {i}
    /\ UNCHANGED <<rows, images, door, builder, counts>>

----------------------------------------------------------------------------
(* build_and_run. *)

\* A stack is recorded before it comes up.
NoteStack(i) ==
    /\ builder[i] = "noting"
    /\ noted' = noted \cup {i}
    /\ Builds(i, "building")
    /\ UNCHANGED <<owner, status, kept, holds, docker, door, swept, history, counts>>

\* docker build, or compose up: the image, or the whole stack.
Build(i) ==
    /\ builder[i] = "building"
    /\ IF Stacked(i) THEN RunBox(i, NoDoor) /\ Builds(i, "reporting") /\ UNCHANGED images
       ELSE images' = images \cup {i} /\ Builds(i, "launching") /\ UNCHANGED <<box, maker, holds>>
    /\ UNCHANGED <<owner, status, kept, noted, door, swept, history, counts>>

BuildFails(i) ==
    /\ builder[i] = "building"
    /\ IF Stacked(i) THEN RunBox(i, NoDoor) /\ Builds(i, "tearing")
       ELSE Builds(i, "failing") /\ UNCHANGED <<box, maker, holds>>
    /\ UNCHANGED <<owner, status, kept, noted, images, door, swept, history, counts>>

RunImage(i) ==
    /\ builder[i] = "launching"
    /\ \/ box[i] = "none" /\ i \in images /\ RunBox(i, NoDoor) /\ Builds(i, "checking")
       \/ RunFails(i) /\ Builds(i, "failing")
    /\ UNCHANGED <<owner, status, kept, noted, images, door, swept, history, counts>>

\* A second later, is it still there?
CheckBox(i) ==
    /\ builder[i] = "checking"
    /\ Builds(i, IF Up(i) THEN "reporting" ELSE "tearing")
    /\ UNCHANGED <<rows, docker, door, swept, history, counts>>

TearDown(i) ==
    /\ builder[i] = "tearing"
    /\ Unbox(i)
    /\ RemoveImage(i)
    /\ Builds(i, "failing")
    /\ UNCHANGED <<rows, door, swept, counts>>

\* Mutant of Fail: only what is not building any more.
FailQuietly(i) ==
    /\ builder[i] = "failing"
    /\ UNCHANGED status
    /\ Builds(i, "none")
    /\ UNCHANGED <<owner, kept, noted, holds, docker, door, swept, history, counts>>

Fail(i) ==
    /\ builder[i] = "failing"
    /\ Reads(i, "failed")
    /\ Builds(i, "none")
    /\ UNCHANGED <<owner, kept, noted, holds, docker, door, swept, history, counts>>

\* Running, if it is still building.  Else the box is nobody's.
Report(i) ==
    /\ builder[i] = "reporting"
    /\ Builds(i, "none")
    /\ IF status[i] = "building"
          THEN /\ Reads(i, "running")
               /\ IF Stacked(i) THEN kept' = kept \ {i} /\ UNCHANGED holds
                  ELSE kept' = kept \cup {i} /\ holds' = [holds EXCEPT ![i] = "this"]
               /\ UNCHANGED known
          ELSE /\ known' = IF Up(i) THEN known \cup {i} ELSE known
               /\ UNCHANGED <<status, kept, holds>>
    /\ UNCHANGED <<owner, noted, docker, door, swept, adopted, counts>>

----------------------------------------------------------------------------
(* Docker, people with a shell, and a restart. *)

BoxDies(i) ==
    /\ Up(i) /\ Acts
    /\ box' = [box EXCEPT ![i] = "dead"]
    /\ known' = known \ {i}
    /\ UNCHANGED <<rows, maker, images, door, swept, builder, adopted, overlapped>>

\* Only of an idle row does anyone count on the image.
ImagePruned(i) ==
    /\ i \in images /\ status[i] = "idle" /\ Acts
    /\ RemoveImage(i)
    /\ UNCHANGED <<rows, box, maker, door, swept, builder, history, overlapped>>

\* The server goes and comes back, and reconcile makes rows and Docker agree
\* before anything else runs: a row alive whose box is up keeps both, any
\* other row alive is stopped, and any other box goes, with its image.
Restart ==
    LET claimed == {i \in Ids : status[i] \in Alive /\ Up(i)}
        deadRows == {i \in Ids : status[i] \in Alive} \ claimed
        orphans == {i \in Ids : box[i] # "none"} \ claimed
    IN  /\ restarts < MaxRestarts /\ restarts' = restarts + 1
        /\ door' = [d \in Doors |-> At("idle")]
        /\ swept' = {}
        /\ builder' = [i \in Ids |-> "none"]
        /\ status' = [i \in Ids |-> IF i \in deadRows THEN "stopped" ELSE status[i]]
        /\ box' = [i \in Ids |-> IF i \in claimed THEN box[i] ELSE "none"]
        /\ maker' = [i \in Ids |-> NoDoor]
        /\ images' = images \ (deadRows \cup orphans)
        /\ known' = {}
        /\ adopted' = adopted \cup {i \in claimed : status[i] = "building"}
        /\ UNCHANGED <<owner, kept, noted, holds, acts, overlapped>>

----------------------------------------------------------------------------

Request(d) ==
    \/ FindIdle(d) \/ LookForImage(d) \/ ClearName(d) \/ Launch(d) \/ Claim(d)
    \/ HandBack(d) \/ Insert(d)
    \/ ReadRow(d) \/ AskDocker(d) \/ Settle(d) \/ Wipe(d)
    \/ RemoveBox(d) \/ RemoveItsImage(d) \/ ReclaimOne(d)

Task(i) ==
    \/ NoteStack(i) \/ Build(i) \/ BuildFails(i) \/ RunImage(i) \/ CheckBox(i) \/ TearDown(i)
    \/ Fail(i) \/ Report(i)

People == \E d \in Doors : Reclaim(d) \/ \E o \in Owners : Start(d, o) \/ Read(d, o) \/ Stop(d, o)

Next ==
    \/ People
    \/ \E d \in Doors : Request(d)
    \/ SweepIdle \/ SweepBox
    \/ \E i \in Ids : Task(i) \/ BoxDies(i) \/ ImagePruned(i)
    \/ Restart

Spec == Init /\ [][Next]_vars

\* A task that builds goes on.
Fairness == \A i \in Ids : WF_vars(Task(i))
FairSpec == Spec /\ Fairness

----------------------------------------------------------------------------
(* What is asked of it. *)

\* Somebody is about to remove row i's box, or to claim it.
AtWork(i) ==
    \/ builder[i] # "none"
    \/ i \in swept
    \/ \E d \in Doors : door[d].at \in {"claiming", "unboxing"} /\ door[d].row = i

\* A box that is up has a row alive, or somebody at work on it, but for the
\* known ways it is left behind: a stop during the build, a stop of two rows
\* at once, a sweep of a stack, a wake refused by the index, a reader that asks
\* for an older box (stop_which, sweep_idle, wake, by_id, build_and_run).
BoxesAreClaimed ==
    \A i \in Ids : Up(i) => status[i] \in Alive \/ AtWork(i) \/ i \in known

\* The limit is looked at before the row is there: it is kept unless two starts
\* have overlapped, however previews are woken, swept and stopped (start).
CardsAlive == {o \in Cards : \E i \in Ids : owner[i] = o /\ status[i] \in Alive}
LimitNeedsARace == ~overlapped => Cardinality(CardsAlive) <= Limit

\* Every build comes to its end, as a row that runs, has failed or was stopped,
\* but for one thing: a restart that found its box already up (build_and_run,
\* fail, reconcile).
BuildsEnd == <>[](\A i \in Ids : status[i] = "building" => i \in adopted)

\* One container per card (the module's doc).  The code does not keep this.
OneBoxPerCard ==
    \A i, j \in Ids : owner[i] = owner[j] /\ owner[i] \in Cards /\ Up(i) /\ Up(j) => i = j

\* What was stopped for being idle holds no memory (sweep_idle's doc).  The
\* code does not keep this for stacks.
IdleHoldsNothing == \A i \in Ids : status[i] = "idle" /\ ~AtWork(i) => ~Up(i)

\* With nothing to wake, a start falls through to a build or hands back a
\* preview that builds or runs (wake's doc).  The code does not keep this for a
\* base branch whose image is gone: its idle row holds the index.
StartsBuildOrRun ==
    [][\A d \in Doors : HandBack(d) => \E i \in OfOwner(door[d].owner) : status[i] \in Alive]_vars

\* A row stuck at building is cleared by the boot sweep (fail's comment).  The
\* code does not keep this for one whose box is up.
BuildsEndAnyway == <>[](\A i \in Ids : status[i] # "building")
=============================================================================
