------------------------------ MODULE Landing ------------------------------
(***************************************************************************)
(* Cards that wait for other cards: dependencies (landing.rs add_blocker), *)
(* what happens when a card reaches done (landing.rs land, landed), the    *)
(* sweep that catches what no writer reported (settle_landings), and every *)
(* door that writes a card's column around it: Start, a drag, the end of a *)
(* run (routes/tasks.rs, runs/orchestrator.rs).                            *)
(*                                                                         *)
(* Each process awaits between its statements: the doors people come       *)
(* through, the task each completed run leaves, and the sweeper.  A        *)
(* statement, or a transaction, is one step.                               *)
(***************************************************************************)
EXTENDS FiniteSets, Naturals

CONSTANTS
    Cards,          \* the cards of one board
    NoCard,         \* none of them
    InPlace,        \* those of a project without version control
    Eager,          \* those with tasks.start_when_unblocked
    Doors,          \* bound: requests served at once
    Sweeper,        \* the scheduler's tick
    FirstDeps,      \* the dependencies there are at first, in no ring
    MaxActs,        \* bound: what people and agents do
    MaxRestarts     \* bound: restarts of the server

ASSUME CardsAssumption == InPlace \subseteq Cards /\ Eager \subseteq Cards /\ NoCard \notin Cards
ASSUME DepsAssumption ==
    /\ FirstDeps \subseteq Cards \X Cards
    /\ \A S \in SUBSET Cards : S # {} => \E c \in S : \A b \in S : <<c, b>> \notin FirstDeps
ASSUME NamesAssumption == Sweeper \notin Doors \cup Cards /\ Doors \cap Cards = {}
ASSUME BoundsAssumption == MaxActs \in Nat /\ MaxRestarts \in Nat

VARIABLES
    \* The database.
    column,         \* tasks.board_column
    landed,         \* the cards with tasks.landed_at
    note,           \* the cards with tasks.blocked_note
    deps,           \* task_deps: <<task_id, blocked_by>>
    live,           \* the cards with a live run
    \* The process.
    pc,             \* where each process is
    \* History.
    owed,           \* waiting cards that a landing has freed and nobody told
    lost,           \* the same, where the code has no landing left to tell
    stray,          \* cards In Progress with nobody at work, and why is known
    raced,          \* two declarations of a dependency have overlapped
    acts, restarts  \* so far, for the bounds

board == <<column, landed, note>>
history == <<owed, lost, stray>>
counts == <<acts, restarts>>
vars == <<board, deps, live, pc, history, raced, counts>>

Columns == {"backlog", "running", "review", "done"}
Places == {"idle", "landing", "telling", "marking", "queueing", "adding", "reading", "filing",
           "collecting", "sweeping"}
Processes == Doors \cup Cards \cup {Sweeper}

\* A process: where it is, its card, the column it is to write, the blocker it
\* is to add, the cards it has to tell and the cards it has to land.
At(p) == [at |-> p, card |-> NoCard, to |-> "review", other |-> NoCard, rest |-> {}, left |-> {}]
States == [at : Places, card : Cards \cup {NoCard}, to : Columns, other : Cards \cup {NoCard},
           rest : SUBSET Cards, left : SUBSET Cards]

Blockers(c) == {b \in Cards : <<c, b>> \in deps}
Free(c) == \A b \in Blockers(c) : column[b] = "done"

\* Cards that wait for each other: each has a blocker among them.
Knot(S) == S # {} /\ \A c \in S : Blockers(c) \cap S # {}
Acyclic == \A S \in SUBSET Cards : ~Knot(S)

TypeOK ==
    /\ column \in [Cards -> Columns]
    /\ landed \subseteq Cards
    /\ note \subseteq Cards
    /\ deps \subseteq Cards \X Cards
    /\ live \subseteq Cards
    /\ pc \in [Processes -> States]
    /\ \A p \in Processes :
          /\ pc[p].at \notin {"idle", "telling", "collecting", "sweeping"} => pc[p].card \in Cards
          /\ pc[p].at = "telling" => pc[p].rest # {}
    /\ owed \subseteq Cards
    /\ lost \subseteq Cards
    /\ stray \subseteq Cards
    /\ raced \in BOOLEAN
    /\ acts \in 0 .. MaxActs
    /\ restarts \in 0 .. MaxRestarts

Init ==
    /\ column = [c \in Cards |-> "backlog"]
    /\ landed = {} /\ note = {} /\ live = {}
    /\ deps = FirstDeps
    /\ pc = [p \in Processes |-> At("idle")]
    /\ owed = {} /\ lost = {} /\ stray = {} /\ raced = FALSE
    /\ acts = 0 /\ restarts = 0

----------------------------------------------------------------------------
(* Helpers. *)

Go(p, r) == pc' = [pc EXCEPT ![p] = r]
Acts == acts < MaxActs /\ acts' = acts + 1 /\ UNCHANGED restarts

\* What is owed stays so while the card waits and is free; a card is stray
\* while it is In Progress and nobody works on it.
Remember(nowOwed, nowLost, told, nowStray) ==
    /\ owed' = {c \in (owed \cup nowOwed) \ told : column'[c] = "backlog" /\ Free(c)'}
    /\ lost' = {c \in (lost \cup nowLost) \ told : column'[c] = "backlog" /\ Free(c)'}
    /\ stray' = {c \in stray \cup nowStray : column'[c] = "running" /\ c \notin live'}

Write(c, to) == column' = [column EXCEPT ![c] = to]

\* The cards that c's arrival in done leaves with no blocker standing.
Freed(c) ==
    {d \in Cards : /\ column[d] = "backlog" /\ c \in Blockers(d) /\ column[c] # "done"
                   /\ \A b \in Blockers(d) \ {c} : column[b] = "done"}

\* A write of the column, and whom it frees.  A card that still reads landed
\* from before will not be landed again.
Moves(c, to, nowStray) ==
    /\ Write(c, to)
    /\ LET freed == IF to = "done" THEN Freed(c) ELSE {}
       IN  IF c \in landed THEN Remember({}, freed, {}, nowStray)
                           ELSE Remember(freed, {}, {}, nowStray)

\* enqueue_task, which holds the card's row while it looks.
CanStart(c) == c \notin live /\ Free(c)
Enqueue(c) == live' = live \cup {c} /\ note' = note \ {c}

----------------------------------------------------------------------------
(* People. *)

\* Start: the run is queued, and then the column written.
Start(d, c) ==
    /\ pc[d].at = "idle" /\ CanStart(c) /\ Acts
    /\ Enqueue(c)
    /\ Go(d, [At("marking") EXCEPT !.card = c])
    /\ UNCHANGED <<column, landed, deps, raced>>
    /\ Remember({}, {}, {c}, {})

\* A drag from the backlog to In Progress: vetted, the column written, and
\* then the run queued.
DragToStart(d, c) ==
    /\ pc[d].at = "idle" /\ column[c] = "backlog" /\ CanStart(c) /\ Acts
    /\ Go(d, [At("queueing") EXCEPT !.card = c])
    /\ UNCHANGED <<landed, note, deps, live, raced>>
    /\ Moves(c, "running", {})

\* Any other drag but to done.
Drag(c, to) ==
    /\ column[c] # to /\ to # "done" /\ Acts
    /\ c \in live => to = "running"
    /\ column[c] = "backlog" => to # "running"
    /\ UNCHANGED <<landed, note, deps, live, pc, raced>>
    /\ Moves(c, to, {c})

\* A drag to done, a Merge, and a merged pull request.
FileDone(d, c) ==
    /\ pc[d].at = "idle" /\ c \notin live /\ Acts
    /\ Go(d, [At("landing") EXCEPT !.card = c])
    /\ UNCHANGED <<landed, note, deps, live, raced>>
    /\ Moves(c, "done", {})

\* Who takes a blocker away sees what that leaves.
RemoveBlocker(c, b) ==
    /\ <<c, b>> \in deps /\ Acts
    /\ deps' = deps \ {<<c, b>>}
    /\ UNCHANGED <<board, live, pc, raced>>
    /\ Remember({}, {}, {c}, {})

----------------------------------------------------------------------------
(* Declaring a dependency: a person, or the card's agent. *)

\* Mutant of NoLoop: only b's own blockers are looked at.
NoShortLoop(c, b) == c \notin Blockers(b)

\* add_blocker's walk: b's blockers, all the way up, do not come to c.
NoLoop(c, b) ==
    \E S \in SUBSET (Cards \ {c}) : Blockers(b) \subseteq S /\ \A x \in S : Blockers(x) \subseteq S

AddCheck(d, c, b) ==
    /\ pc[d].at = "idle" /\ c # b /\ NoLoop(c, b) /\ Acts
    /\ Go(d, [At("adding") EXCEPT !.card = c, !.other = b])
    /\ raced' = (raced \/ \E p \in Processes : pc[p].at = "adding")
    /\ UNCHANGED <<board, deps, live, history>>

\* An agent's report_blocker leaves its note as well.
AddInsert(d) ==
    /\ pc[d].at = "adding"
    /\ deps' = deps \cup {<<pc[d].card, pc[d].other>>}
    /\ \/ note' = note
       \/ pc[d].card \in live /\ note' = note \cup {pc[d].card}
    /\ Go(d, At("idle"))
    /\ UNCHANGED <<column, landed, live, raced, counts>>
    /\ Remember({}, {}, {}, {})

----------------------------------------------------------------------------
(* Doors that have queued a run, or are about to. *)

\* Where a process goes on: the cards it still has to tell, or to land.
Told(r) ==
    [r EXCEPT !.at = IF r.rest # {} THEN "telling" ELSE IF r.left # {} THEN "sweeping" ELSE "idle"]

\* The column, once the run is queued.
Mark(p) ==
    LET c == pc[p].card
    IN  /\ pc[p].at = "marking"
        /\ Go(p, Told(pc[p]))
        /\ UNCHANGED <<landed, note, deps, live, raced, counts>>
        /\ Moves(c, "running", IF pc[c].at \in {"reading", "filing"} THEN {} ELSE {c})

\* The run, once the column is written: it may be refused.
Queue(d) ==
    LET c == pc[d].card
    IN  /\ pc[d].at = "queueing"
        /\ IF CanStart(c) THEN Enqueue(c) ELSE UNCHANGED <<live, note>>
        /\ Go(d, At("idle"))
        /\ UNCHANGED <<column, landed, deps, raced, counts>>
        /\ Remember({}, {}, {}, {c})

----------------------------------------------------------------------------
(* Runs. *)

\* Mutant of RunFails: the card stays where it was.
RunFailsInPlace(c) ==
    /\ c \in live
    /\ live' = live \ {c}
    /\ UNCHANGED <<board, deps, pc, raced, counts>>
    /\ Remember({}, {}, {}, {})

\* A run ends badly: finish takes the card off In Progress.
RunFails(c) ==
    /\ c \in live
    /\ live' = live \ {c}
    /\ IF column[c] = "running" THEN Write(c, "review") ELSE UNCHANGED column
    /\ UNCHANGED <<landed, note, deps, pc, raced, counts>>
    /\ Remember({}, {}, {}, {})

RunCompletes(c) ==
    /\ c \in live /\ pc[c].at = "idle"
    /\ live' = live \ {c}
    /\ Go(c, [At("reading") EXCEPT !.card = c])
    /\ UNCHANGED <<board, deps, raced, counts>>
    /\ Remember({}, {}, {}, {})

\* Where the card goes: back to the backlog when its agent said what it waits
\* for, and that has not landed.
Read(c) ==
    /\ pc[c].at = "reading"
    /\ Go(c, [pc[c] EXCEPT !.at = "filing",
                           !.to = IF c \in note /\ ~Free(c) THEN "backlog"
                                  ELSE IF c \in InPlace THEN "done" ELSE "review"])
    /\ UNCHANGED <<board, deps, live, history, raced, counts>>

\* What it read may have landed since.
File(c) ==
    /\ pc[c].at = "filing"
    /\ Go(c, [pc[c] EXCEPT !.at = "landing"])
    /\ UNCHANGED <<landed, note, deps, live, raced, counts>>
    /\ IF pc[c].to = "backlog" /\ Free(c)
          THEN Write(c, "backlog") /\ Remember({}, {c}, {}, {})
          ELSE Moves(c, pc[c].to, {})

----------------------------------------------------------------------------
(* Landing. *)

\* Mutant of Ready: only cards that waited for this one alone.
ReadyAlone(b) == {c \in Cards : Blockers(c) = {b} /\ column[c] = "backlog"}

\* The backlog cards b leaves with no blocker standing.
Ready(b) == {c \in Cards : b \in Blockers(c) /\ column[c] = "backlog" /\ Free(c)}

\* land: marked once, with the cards it leaves ready.
Land(p) ==
    LET b == pc[p].card
    IN  /\ pc[p].at = "landing"
        /\ IF column[b] = "done" /\ b \notin landed
              THEN /\ landed' = landed \cup {b}
                   /\ note' = note \ (Ready(b) \cup {b})
                   /\ Go(p, Told([pc[p] EXCEPT !.rest = Ready(b)]))
              ELSE Go(p, Told(pc[p])) /\ UNCHANGED <<landed, note>>
        /\ UNCHANGED <<column, deps, live, history, raced, counts>>

\* landed: one of the cards left is started, or its thread told it can be.
Tell(p) ==
    /\ pc[p].at = "telling"
    /\ \E c \in pc[p].rest :
          LET r == [pc[p] EXCEPT !.rest = @ \ {c}]
          IN  /\ IF c \in Eager /\ CanStart(c)
                    THEN Enqueue(c) /\ Go(p, [r EXCEPT !.at = "marking", !.card = c])
                    ELSE Go(p, Told(r)) /\ UNCHANGED <<live, note>>
              /\ UNCHANGED <<column, landed, deps, raced, counts>>
              /\ Remember({}, {}, {c}, {})

\* settle_landings: forget what was taken back, collect what nobody reported,
\* and land it.
Forget ==
    /\ pc[Sweeper].at = "idle"
    /\ landed' = {c \in landed : column[c] = "done"}
    /\ Go(Sweeper, At("collecting"))
    /\ UNCHANGED <<column, note, deps, live, history, raced, counts>>
Collect ==
    /\ pc[Sweeper].at = "collecting"
    /\ Go(Sweeper, Told([At("idle") EXCEPT !.left = {c \in Cards : column[c] = "done"} \ landed]))
    /\ UNCHANGED <<board, deps, live, history, raced, counts>>
Pick ==
    /\ pc[Sweeper].at = "sweeping"
    /\ \E c \in pc[Sweeper].left :
          Go(Sweeper, [pc[Sweeper] EXCEPT !.at = "landing", !.card = c, !.left = @ \ {c}])
    /\ UNCHANGED <<board, deps, live, history, raced, counts>>

\* The server goes and comes back.  What was working has failed; recover_orphans
\* leaves its card where it was.  Whom a landing had still to tell is forgotten.
Restart ==
    /\ restarts < MaxRestarts /\ restarts' = restarts + 1
    /\ \E working \in SUBSET live :
          /\ live' = live \ working
          /\ pc' = [p \in Processes |-> At("idle")]
          /\ UNCHANGED <<board, deps, raced, acts>>
          /\ LET untold == UNION {pc[p].rest : p \in Processes}
             IN  /\ owed' = owed \ untold
                 /\ lost' = lost \cup (owed \cap untold)
                 /\ stray' = stray \cup {c \in Cards : column[c] = "running" /\ c \notin live'}

----------------------------------------------------------------------------

Step(p) ==
    \/ p \in Doors /\ (AddInsert(p) \/ Queue(p))
    \/ p \in Cards /\ (Read(p) \/ File(p))
    \/ p = Sweeper /\ (Forget \/ Collect \/ Pick)
    \/ Mark(p) \/ Land(p) \/ Tell(p)

People ==
    \/ \E d \in Doors, c \in Cards : Start(d, c) \/ DragToStart(d, c) \/ FileDone(d, c)
    \/ \E c \in Cards, to \in Columns : Drag(c, to)
    \/ \E c, b \in Cards : RemoveBlocker(c, b)
    \/ \E d \in Doors, c, b \in Cards : AddCheck(d, c, b)

Next ==
    \/ People
    \/ \E c \in Cards : RunFails(c) \/ RunCompletes(c)
    \/ \E p \in Processes : Step(p)
    \/ Restart

Spec == Init /\ [][Next]_vars

\* Requests and tasks go on, and the scheduler ticks.
Fairness == \A p \in Processes : WF_vars(Step(p))
FairSpec == Spec /\ Fairness

----------------------------------------------------------------------------
(* What is asked of it. *)

\* Cards come to wait for each other in a ring only when two declarations
\* overlapped (add_blocker's walk and its insert are two statements).
LoopsNeedARace == ~raced => Acyclic

\* A card In Progress is being worked on, is about to be, or is about to be
\* filed, but for the known ways it is left there: a drag, a start refused
\* after the drag, a column written after the run has ended, a restart.
InProgressIsAtWork ==
    \A c \in Cards :
        column[c] = "running" /\ c \notin live /\ pc[c].at \notin {"reading", "filing"} =>
            c \in stray \/ \E p \in Processes : pc[p].at = "queueing" /\ pc[p].card = c

\* Every waiting card that a landing has freed is told, or started, whatever
\* else moves, and across a restart if the landing was not yet marked: when
\* people have stopped, nobody is owed a word (landing.rs).
WaitersAreTold == <>[](owed = {})

\* The same of every card that waits though nothing blocks it any more.  The
\* code does not keep this: a card filed back in the backlog after what it
\* waited for has landed, and a blocker that leaves done and comes back
\* between two ticks.
EveryWaiterIsTold == <>[](owed \cup lost = {})

\* add_blocker refuses every loop (its doc).  The code does not keep this.
NoCardWaitsForItself == Acyclic
=============================================================================
