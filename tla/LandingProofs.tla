--------------------------- MODULE LandingProofs ---------------------------
(***************************************************************************)
(* What Landing keeps for any cards, doors, acts and restarts: its types,  *)
(* that only overlapping declarations make a ring of cards, and that a     *)
(* card In Progress is at work or is known not to be.                      *)
(***************************************************************************)
EXTENDS Landing, TLAPS

\* A process has the card its place is about, someone to tell when it tells,
\* and never files a card in In Progress.
Good(r) ==
    /\ r.at \notin {"idle", "telling", "collecting", "sweeping"} => r.card \in Cards
    /\ r.at = "adding" => r.other \in Cards
    /\ r.at = "telling" => r.rest # {}
    /\ r.to # "running"

PcGood == pc \in [Processes -> States] /\ \A p \in Processes : Good(pc[p])

DataTypes ==
    /\ column \in [Cards -> Columns]
    /\ landed \subseteq Cards
    /\ note \subseteq Cards
    /\ deps \subseteq Cards \X Cards
    /\ live \subseteq Cards
    /\ owed \subseteq Cards /\ lost \subseteq Cards /\ stray \subseteq Cards
    /\ raced \in BOOLEAN
    /\ acts \in 0 .. MaxActs
    /\ restarts \in 0 .. MaxRestarts

LEMMA TypesAre == DataTypes /\ PcGood => TypeOK
  BY DEF TypeOK, DataTypes, PcGood, Good

\* While no declarations have overlapped there is no ring, and the one
\* declaration on its way will not close one.
Declared ==
    ~raced =>
        /\ Acyclic
        /\ \A p, q \in Processes : pc[p].at = "adding" /\ pc[q].at = "adding" => p = q
        /\ \A p \in Processes : pc[p].at = "adding" =>
              pc[p].card # pc[p].other /\ NoLoop(pc[p].card, pc[p].other)

LInv == DataTypes /\ PcGood /\ Declared /\ InProgressIsAtWork

----------------------------------------------------------------------------
(* The helpers. *)

LEMMA PlacesAre ==
    /\ At("idle") \in States /\ Good(At("idle"))
    /\ At("collecting") \in States /\ Good(At("collecting"))
    /\ \A c \in Cards, p \in {"landing", "marking", "queueing", "reading"} :
          [At(p) EXCEPT !.card = c] \in States /\ Good([At(p) EXCEPT !.card = c])
    /\ \A c, b \in Cards :
          LET r == [At("adding") EXCEPT !.card = c, !.other = b]
          IN  r \in States /\ Good(r) /\ r.card = c /\ r.other = b
  BY DEF At, States, Good, Places, Columns

LEMMA ToldIs ==
    ASSUME NEW r \in States, r.to # "running"
    PROVE  /\ Told(r) \in States /\ Good(Told(r))
           /\ Told(r).at \in {"telling", "sweeping", "idle"}
  BY DEF Told, States, Good, Places

LEMMA Goes ==
    ASSUME PcGood, NEW p \in Processes, NEW r \in States, Good(r), Go(p, r)
    PROVE  PcGood' /\ pc'[p] = r /\ \A q \in Processes \ {p} : pc'[q] = pc[q]
  BY DEF PcGood, Go

LEMMA NamesDiffer == \A d \in Doors : d \notin Cards /\ d # Sweeper /\ Sweeper \notin Cards
  BY NamesAssumption

\* What the history remembers.
LEMMA Remembers ==
    ASSUME DataTypes, NEW O \in SUBSET Cards, NEW L \in SUBSET Cards, NEW X \in SUBSET Cards,
           NEW T \in SUBSET Cards, Remember(O, L, X, T)
    PROVE  /\ owed' \subseteq Cards /\ lost' \subseteq Cards /\ stray' \subseteq Cards
           /\ \A c \in stray \cup T : column'[c] = "running" /\ c \notin live' => c \in stray'
  BY DEF Remember, DataTypes

LEMMA MovesIs ==
    ASSUME DataTypes, NEW c \in Cards, NEW to \in Columns, NEW T \in SUBSET Cards,
           Moves(c, to, T)
    PROVE  /\ column' = [column EXCEPT ![c] = to]
           /\ column' \in [Cards -> Columns]
           /\ owed' \subseteq Cards /\ lost' \subseteq Cards /\ stray' \subseteq Cards
           /\ \A d \in stray \cup T : column'[d] = "running" /\ d \notin live' => d \in stray'
<1> DEFINE F == IF to = "done" THEN Freed(c) ELSE {}
<1>1. F \in SUBSET Cards /\ {} \in SUBSET Cards
  BY DEF Freed
<1>2. Remember({}, F, {}, T) \/ Remember(F, {}, {}, T)
  BY DEF Moves
<1>3. column' = [column EXCEPT ![c] = to]
  BY DEF Moves, Write
<1>4. column' \in [Cards -> Columns]
  BY <1>3 DEF DataTypes
<1> HIDE DEF F
<1>5. QED
  BY <1>1, <1>2, <1>3, <1>4, Remembers

----------------------------------------------------------------------------
(* Rings. *)

LEMMA FewerDeps ==
    ASSUME deps' \subseteq deps
    PROVE  /\ Acyclic => Acyclic'
           /\ \A c, b \in Cards : NoLoop(c, b) => NoLoop(c, b)'
<1>1. \A c \in Cards : Blockers(c)' \subseteq Blockers(c)
  BY DEF Blockers
<1>2. Acyclic => Acyclic'
  BY <1>1 DEF Acyclic, Knot
<1>3. \A c, b \in Cards : NoLoop(c, b) => NoLoop(c, b)'
  BY <1>1 DEF NoLoop
<1>4. QED
  BY <1>2, <1>3

\* The walk is enough: a dependency that closes no loop ties no knot.
LEMMA OneMoreDep ==
    ASSUME NEW c \in Cards, NEW b \in Cards, c # b, Acyclic, NoLoop(c, b),
           deps' = deps \cup {<<c, b>>}
    PROVE  Acyclic'
<1>1. SUFFICES ASSUME NEW T \in SUBSET Cards, Knot(T)'
               PROVE  FALSE
  BY DEF Acyclic
<1>2. PICK S \in SUBSET (Cards \ {c}) :
          Blockers(b) \subseteq S /\ \A x \in S : Blockers(x) \subseteq S
  BY DEF NoLoop
<1>3. /\ \A x \in Cards \ {c} : Blockers(x)' = Blockers(x)
      /\ Blockers(c)' = Blockers(c) \cup {b}
  BY DEF Blockers
<1>4. T # {} /\ \A x \in T : Blockers(x)' \cap T # {}
  BY <1>1 DEF Knot
<1>5. b \in T
  <2>1. SUFFICES ASSUME b \notin T PROVE FALSE
    OBVIOUS
  <2>2. \A x \in T : Blockers(x) \cap T # {}
    BY <1>3, <1>4, <2>1
  <2>3. QED
    BY <1>4, <2>2 DEF Acyclic, Knot
<1>6. \A x \in T \ {c} : Blockers(x) \cap T # {}
  BY <1>3, <1>4
<1>7. T \cap S # {}
  BY <1>2, <1>5, <1>6
<1>8. \A x \in T \cap S : Blockers(x) \cap (T \cap S) # {}
  BY <1>2, <1>6
<1>9. QED
  BY <1>7, <1>8 DEF Acyclic, Knot
----------------------------------------------------------------------------
(* Types. *)

USE DEF board, history, counts

LEMMA ActsIs == DataTypes /\ Acts => acts' \in 0 .. MaxActs /\ restarts' \in 0 .. MaxRestarts
  BY BoundsAssumption DEF DataTypes, Acts

LEMMA EnqueueIs ==
    ASSUME DataTypes, NEW c \in Cards, Enqueue(c)
    PROVE  live' \subseteq Cards /\ note' \subseteq Cards /\ live \subseteq live' /\ c \in live'
  BY DEF DataTypes, Enqueue

LEMMA PeopleTypes ==
    ASSUME DataTypes, PcGood, People
    PROVE  DataTypes' /\ PcGood'
<1>s. {} \in SUBSET Cards /\ \A c \in Cards : {c} \in SUBSET Cards
  OBVIOUS
<1>1. ASSUME NEW d \in Doors, NEW c \in Cards, Start(d, c)
      PROVE  DataTypes' /\ PcGood'
  <2>1. PcGood'
    BY <1>1, Goes, PlacesAre DEF Start, Processes
  <2>2. live' \subseteq Cards /\ note' \subseteq Cards
    BY <1>1, EnqueueIs DEF Start
  <2>3. owed' \subseteq Cards /\ lost' \subseteq Cards /\ stray' \subseteq Cards
    BY <1>1, <1>s, Remembers DEF Start
  <2>4. QED
    BY <1>1, <2>1, <2>2, <2>3, ActsIs DEF Start, DataTypes
<1>2. ASSUME NEW d \in Doors, NEW c \in Cards, DragToStart(d, c)
      PROVE  DataTypes' /\ PcGood'
  <2>1. PcGood'
    BY <1>2, Goes, PlacesAre DEF DragToStart, Processes
  <2>2. Moves(c, "running", {}) /\ "running" \in Columns
    BY <1>2 DEF DragToStart, Columns
  <2>3. QED
    BY <1>2, <1>s, <2>1, <2>2, MovesIs, ActsIs DEF DragToStart, DataTypes
<1>3. ASSUME NEW c \in Cards, NEW to \in Columns, Drag(c, to)
      PROVE  DataTypes' /\ PcGood'
  <2>1. PcGood'
    BY <1>3 DEF Drag, PcGood
  <2>2. QED
    BY <1>3, <1>s, <2>1, MovesIs, ActsIs DEF Drag, DataTypes
<1>4. ASSUME NEW d \in Doors, NEW c \in Cards, FileDone(d, c)
      PROVE  DataTypes' /\ PcGood'
  <2>1. PcGood'
    BY <1>4, Goes, PlacesAre DEF FileDone, Processes
  <2>2. Moves(c, "done", {}) /\ "done" \in Columns
    BY <1>4 DEF FileDone, Columns
  <2>3. QED
    BY <1>4, <1>s, <2>1, <2>2, MovesIs, ActsIs DEF FileDone, DataTypes
<1>5. ASSUME NEW c \in Cards, NEW b \in Cards, RemoveBlocker(c, b)
      PROVE  DataTypes' /\ PcGood'
  <2>1. PcGood'
    BY <1>5 DEF RemoveBlocker, PcGood
  <2>2. owed' \subseteq Cards /\ lost' \subseteq Cards /\ stray' \subseteq Cards
    BY <1>5, <1>s, Remembers DEF RemoveBlocker
  <2>3. QED
    BY <1>5, <2>1, <2>2, ActsIs DEF RemoveBlocker, DataTypes
<1>6. ASSUME NEW d \in Doors, NEW c \in Cards, NEW b \in Cards, AddCheck(d, c, b)
      PROVE  DataTypes' /\ PcGood'
  <2>1. PcGood'
    BY <1>6, Goes, PlacesAre DEF AddCheck, Processes
  <2>2. QED
    BY <1>6, <2>1, ActsIs DEF AddCheck, DataTypes
<1>7. QED
  BY <1>1, <1>2, <1>3, <1>4, <1>5, <1>6 DEF People

LEMMA RunTypes ==
    ASSUME DataTypes, PcGood, NEW c \in Cards, RunFails(c) \/ RunCompletes(c)
    PROVE  DataTypes' /\ PcGood'
<1>s. {} \in SUBSET Cards
  OBVIOUS
<1>1. CASE RunFails(c)
  <2>1. PcGood'
    BY <1>1 DEF RunFails, PcGood
  <2>2. owed' \subseteq Cards /\ lost' \subseteq Cards /\ stray' \subseteq Cards
    BY <1>1, <1>s, Remembers DEF RunFails
  <2>3. column' \in [Cards -> Columns]
    BY <1>1 DEF RunFails, Write, DataTypes, Columns
  <2>4. QED
    BY <1>1, <2>1, <2>2, <2>3 DEF RunFails, DataTypes
<1>2. CASE RunCompletes(c)
  <2>1. PcGood'
    BY <1>2, Goes, PlacesAre DEF RunCompletes, Processes
  <2>2. owed' \subseteq Cards /\ lost' \subseteq Cards /\ stray' \subseteq Cards
    BY <1>2, <1>s, Remembers DEF RunCompletes
  <2>3. QED
    BY <1>2, <2>1, <2>2 DEF RunCompletes, DataTypes
<1>3. QED
  BY <1>1, <1>2

\* Where a process goes on when it takes a step of its own.
LEMMA StepGoes ==
    ASSUME PcGood, NEW p \in Processes, Step(p), ~AddInsert(p)
    PROVE  /\ UNCHANGED <<deps, raced>>
           /\ \E r \in States : Good(r) /\ r.at # "adding" /\ Go(p, r)
<1>1. /\ pc[p] \in States /\ Good(pc[p])
      /\ pc[p].rest \subseteq Cards /\ pc[p].left \subseteq Cards
  BY DEF PcGood, States
<1>2. CASE Queue(p)
  BY <1>2, PlacesAre DEF Queue, At
<1>3. CASE Read(p)
  <2>1. PICK to \in {"backlog", "done", "review"} :
            Go(p, [pc[p] EXCEPT !.at = "filing", !.to = to])
    BY <1>3 DEF Read
  <2>2. [pc[p] EXCEPT !.at = "filing", !.to = to] \in States
        /\ Good([pc[p] EXCEPT !.at = "filing", !.to = to])
        /\ [pc[p] EXCEPT !.at = "filing", !.to = to].at # "adding"
    BY <1>3, <1>1 DEF Read, States, Good, Places, Columns
  <2>3. QED
    BY <1>3, <2>1, <2>2 DEF Read
<1>4. CASE File(p)
  <2>1. [pc[p] EXCEPT !.at = "landing"] \in States /\ Good([pc[p] EXCEPT !.at = "landing"])
        /\ [pc[p] EXCEPT !.at = "landing"].at # "adding"
    BY <1>4, <1>1 DEF File, States, Good, Places
  <2>2. QED
    BY <1>4, <2>1 DEF File
<1>5. CASE p = Sweeper /\ Forget
  BY <1>5, PlacesAre DEF Forget, At
<1>6. CASE p = Sweeper /\ Collect
  <2>1. [At("idle") EXCEPT !.left = {c \in Cards : column[c] = "done"} \ landed] \in States
        /\ [At("idle") EXCEPT !.left = {c \in Cards : column[c] = "done"} \ landed].to # "running"
    BY DEF At, States, Places, Columns
  <2>2. QED
    BY <1>6, <2>1, ToldIs DEF Collect
<1>7. CASE p = Sweeper /\ Pick
  <2>1. PICK c \in pc[p].left :
            Go(p, [pc[p] EXCEPT !.at = "landing", !.card = c, !.left = @ \ {c}])
    BY <1>7 DEF Pick
  <2>2. [pc[p] EXCEPT !.at = "landing", !.card = c, !.left = @ \ {c}] \in States
        /\ Good([pc[p] EXCEPT !.at = "landing", !.card = c, !.left = @ \ {c}])
        /\ [pc[p] EXCEPT !.at = "landing", !.card = c, !.left = @ \ {c}].at # "adding"
    BY <1>1, <2>1 DEF States, Good, Places
  <2>3. QED
    BY <1>7, <2>1, <2>2 DEF Pick
<1>8. CASE Mark(p)
  BY <1>8, <1>1, ToldIs DEF Mark, Good
<1>9. CASE Land(p)
  <2>1. [pc[p] EXCEPT !.rest = Ready(pc[p].card)] \in States
        /\ [pc[p] EXCEPT !.rest = Ready(pc[p].card)].to # "running"
    BY <1>1 DEF States, Good, Ready
  <2>2. QED
    BY <1>9, <1>1, <2>1, ToldIs DEF Land, Good
<1>10. CASE Tell(p)
  <2>1. PICK c \in pc[p].rest :
          \/ Go(p, [[pc[p] EXCEPT !.rest = @ \ {c}] EXCEPT !.at = "marking", !.card = c])
          \/ Go(p, Told([pc[p] EXCEPT !.rest = @ \ {c}]))
    BY <1>10 DEF Tell
  <2> DEFINE r == [pc[p] EXCEPT !.rest = @ \ {c}]
  <2>2. c \in Cards /\ r \in States /\ r.to # "running"
    BY <1>1 DEF States, Good
  <2>3. [r EXCEPT !.at = "marking", !.card = c] \in States
        /\ Good([r EXCEPT !.at = "marking", !.card = c])
        /\ [r EXCEPT !.at = "marking", !.card = c].at # "adding"
    BY <2>2 DEF States, Good, Places
  <2>4. Told(r) \in States /\ Good(Told(r)) /\ Told(r).at # "adding"
    <3> HIDE DEF r
    <3>1. QED
      BY <2>2, ToldIs
  <2>5. QED
    BY <1>10, <2>1, <2>3, <2>4 DEF Tell
<1>11. QED
  BY <1>2, <1>3, <1>4, <1>5, <1>6, <1>7, <1>8, <1>9, <1>10 DEF Step

LEMMA StepTypes ==
    ASSUME DataTypes, PcGood, NEW p \in Processes, Step(p)
    PROVE  DataTypes' /\ PcGood'
<1>s. {} \in SUBSET Cards /\ \A c \in Cards : {c} \in SUBSET Cards
  OBVIOUS
<1>p. /\ pc[p] \in States /\ Good(pc[p])
      /\ pc[p].card \in Cards \cup {NoCard} /\ pc[p].to \in Columns
      /\ pc[p].rest \subseteq Cards
  BY DEF PcGood, States
<1>g. PcGood'
  <2>1. CASE AddInsert(p)
    BY <2>1, Goes, PlacesAre DEF AddInsert
  <2>2. CASE ~AddInsert(p)
    BY <2>2, StepGoes, Goes
  <2>3. QED
    BY <2>1, <2>2
<1>1. CASE AddInsert(p)
  <2>1. pc[p].card \in Cards /\ pc[p].other \in Cards
    BY <1>1, <1>p DEF AddInsert, Good
  <2>2. owed' \subseteq Cards /\ lost' \subseteq Cards /\ stray' \subseteq Cards
    BY <1>1, <1>s, Remembers DEF AddInsert
  <2>3. QED
    BY <1>1, <1>g, <2>1, <2>2 DEF AddInsert, DataTypes
<1>2. CASE Queue(p)
  <2>1. pc[p].card \in Cards
    BY <1>2, <1>p DEF Queue, Good
  <2>2. live' \subseteq Cards /\ note' \subseteq Cards
    BY <1>2, <2>1, EnqueueIs DEF Queue, DataTypes
  <2>3. owed' \subseteq Cards /\ lost' \subseteq Cards /\ stray' \subseteq Cards
    BY <1>2, <2>1, <1>s, Remembers DEF Queue
  <2>4. QED
    BY <1>2, <1>g, <2>2, <2>3 DEF Queue, DataTypes
<1>3. CASE Read(p)
  BY <1>3, <1>g DEF Read, DataTypes
<1>4. CASE p \in Cards /\ File(p)
  <2>1. /\ column' \in [Cards -> Columns]
        /\ owed' \subseteq Cards /\ lost' \subseteq Cards /\ stray' \subseteq Cards
    <3>1. CASE Write(p, "backlog") /\ Remember({}, {p}, {}, {})
      BY <1>4, <3>1, <1>s, Remembers DEF Write, DataTypes, Columns
    <3>2. CASE Moves(p, pc[p].to, {})
      BY <1>4, <3>2, <1>s, <1>p, MovesIs
    <3>3. QED
      BY <1>4, <3>1, <3>2 DEF File
  <2>2. QED
    BY <1>4, <1>g, <2>1 DEF File, DataTypes
<1>5. CASE Forget \/ Collect \/ Pick
  BY <1>5, <1>g DEF Forget, Collect, Pick, DataTypes
<1>6. CASE Mark(p)
  <2>1. pc[p].card \in Cards /\ "running" \in Columns
    BY <1>6, <1>p DEF Mark, Good, Columns
  <2>2. PICK T \in SUBSET Cards : Moves(pc[p].card, "running", T)
    BY <1>6, <1>s, <2>1 DEF Mark
  <2>3. QED
    BY <1>6, <1>g, <2>1, <2>2, MovesIs DEF Mark, DataTypes
<1>7. CASE Land(p)
  <2>1. pc[p].card \in Cards
    BY <1>7, <1>p DEF Land, Good
  <2>2. QED
    BY <1>7, <1>g, <2>1 DEF Land, DataTypes
<1>8. CASE Tell(p)
  <2>1. PICK c \in pc[p].rest : /\ Enqueue(c) \/ UNCHANGED <<live, note>>
                                /\ Remember({}, {}, {c}, {})
    BY <1>8 DEF Tell
  <2>2. c \in Cards
    BY <1>p
  <2>3. live' \subseteq Cards /\ note' \subseteq Cards
    BY <2>1, <2>2, EnqueueIs DEF DataTypes
  <2>4. owed' \subseteq Cards /\ lost' \subseteq Cards /\ stray' \subseteq Cards
    BY <2>1, <2>2, <1>s, Remembers
  <2>5. QED
    BY <1>8, <1>g, <2>3, <2>4 DEF Tell, DataTypes
<1>9. QED
  BY <1>1, <1>2, <1>3, <1>4, <1>5, <1>6, <1>7, <1>8 DEF Step

LEMMA RestartTypes ==
    ASSUME DataTypes, PcGood, Restart
    PROVE  DataTypes' /\ PcGood'
<1>1. PICK working \in SUBSET live :
        /\ live' = live \ working
        /\ pc' = [p \in Processes |-> At("idle")]
        /\ UNCHANGED <<board, deps, raced, acts>>
        /\ owed' = owed \ UNION {pc[p].rest : p \in Processes}
        /\ lost' = lost \cup (owed \cap UNION {pc[p].rest : p \in Processes})
        /\ stray' = stray \cup {c \in Cards : column[c] = "running" /\ c \notin live'}
  BY DEF Restart
<1>2. PcGood'
  BY <1>1, PlacesAre DEF PcGood
<1>3. restarts' \in 0 .. MaxRestarts
  BY BoundsAssumption DEF Restart, DataTypes
<1>4. QED
  BY <1>1, <1>2, <1>3 DEF DataTypes

LEMMA TypesStay ==
    ASSUME DataTypes, PcGood, [Next]_vars
    PROVE  DataTypes' /\ PcGood'
<1>1. CASE UNCHANGED vars
  BY <1>1 DEF vars, DataTypes, PcGood
<1>2. QED
  BY <1>1, PeopleTypes, RunTypes, StepTypes, RestartTypes DEF Next

----------------------------------------------------------------------------
(* Rings need a race. *)

\* A step that adds no dependency and lets nobody begin to.
LEMMA NothingDeclared ==
    ASSUME Declared, deps' \subseteq deps, raced' = raced, PcGood,
           \A p \in Processes : pc'[p].at = "adding" => pc'[p] = pc[p]
    PROVE  Declared'
<1>1. Acyclic => Acyclic'
  BY FewerDeps
<1>2. ASSUME NEW p \in Processes, pc'[p].at = "adding", NoLoop(pc[p].card, pc[p].other)
      PROVE  NoLoop(pc[p].card, pc[p].other)'
  <2>1. pc'[p] = pc[p] /\ pc[p].card \in Cards /\ pc[p].other \in Cards
    BY <1>2 DEF PcGood, Good
  <2>2. \A x \in Cards : Blockers(x)' \subseteq Blockers(x)
    BY DEF Blockers
  <2>3. Blockers(pc[p].other)' \subseteq Blockers(pc[p].other)
    BY <2>1 DEF Blockers
  <2>4. PICK S \in SUBSET (Cards \ {pc[p].card}) :
            Blockers(pc[p].other) \subseteq S /\ \A x \in S : Blockers(x) \subseteq S
    BY <1>2 DEF NoLoop
  <2>5. S \in SUBSET (Cards \ {pc'[p].card}) /\ \A x \in S : Blockers(x)' \subseteq S
    BY <2>1, <2>2, <2>4
  <2>6. QED
    BY <2>3, <2>4, <2>5 DEF NoLoop
<1>3. QED
  BY <1>1, <1>2 DEF Declared

\* The same of a process that goes on to r.
LEMMA GoesOn ==
    ASSUME PcGood, Declared, deps' \subseteq deps, raced' = raced,
           NEW p \in Processes, NEW r \in States, Good(r), r.at # "adding", Go(p, r)
    PROVE  Declared'
  BY Goes, NothingDeclared

LEMMA DeclaredStays ==
    ASSUME DataTypes, PcGood, Declared, [Next]_vars
    PROVE  Declared'
<1>a. \A c \in Cards, p \in {"landing", "marking", "queueing", "reading"} :
          [At(p) EXCEPT !.card = c].at # "adding"
  BY DEF At
<1>b. At("idle").at # "adding" /\ At("collecting").at # "adding"
  BY DEF At
<1>1. ASSUME NEW d \in Doors, NEW c \in Cards, Start(d, c) \/ DragToStart(d, c) \/ FileDone(d, c)
      PROVE  Declared'
  BY <1>1, <1>a, GoesOn, PlacesAre DEF Start, DragToStart, FileDone, Processes
<1>2. ASSUME NEW c \in Cards, NEW to \in Columns, Drag(c, to)
      PROVE  Declared'
  BY <1>2, NothingDeclared DEF Drag
<1>3. ASSUME NEW c \in Cards, NEW b \in Cards, RemoveBlocker(c, b)
      PROVE  Declared'
  BY <1>3, NothingDeclared DEF RemoveBlocker
<1>4. ASSUME NEW d \in Doors, NEW c \in Cards, NEW b \in Cards, AddCheck(d, c, b)
      PROVE  Declared'
  <2>1. SUFFICES ASSUME ~raced' PROVE Declared'
    BY DEF Declared
  <2>2. ~raced /\ \A p \in Processes : pc[p].at # "adding"
    BY <1>4, <2>1 DEF AddCheck
  <2>3. /\ pc'[d].card = c /\ pc'[d].other = b
        /\ \A p \in Processes \ {d} : pc'[p] = pc[p]
    <3>1. PICK r \in States : Go(d, r) /\ Good(r) /\ r.card = c /\ r.other = b
      BY <1>4, PlacesAre DEF AddCheck
    <3>2. QED
      BY <3>1, Goes DEF Processes
  <2>4. \A p \in Processes : pc'[p].at = "adding" => p = d
    BY <2>2, <2>3
  <2>5. Acyclic'
    BY <1>4, <2>2, FewerDeps DEF Declared, AddCheck
  <2>6. c # b /\ NoLoop(c, b)'
    BY <1>4, FewerDeps DEF AddCheck
  <2>7. NoLoop(pc[d].card, pc[d].other)'
    BY <2>3, <2>6 DEF NoLoop
  <2>8. QED
    BY <2>3, <2>4, <2>5, <2>6, <2>7 DEF Declared
<1>5. ASSUME NEW c \in Cards, RunFails(c) \/ RunCompletes(c)
      PROVE  Declared'
  <2>1. CASE RunFails(c)
    BY <2>1, NothingDeclared DEF RunFails
  <2>2. CASE RunCompletes(c)
    BY <2>2, <1>a, GoesOn, PlacesAre DEF RunCompletes, Processes
  <2>3. QED
    BY <1>5, <2>1, <2>2
<1>6. ASSUME NEW p \in Processes, Step(p)
      PROVE  Declared'
  <2>1. CASE AddInsert(p)
    <3>1. SUFFICES ASSUME ~raced' PROVE Declared'
      BY DEF Declared
    <3>2. /\ ~raced /\ pc[p].card \in Cards /\ pc[p].other \in Cards
          /\ pc[p].card # pc[p].other /\ NoLoop(pc[p].card, pc[p].other) /\ Acyclic
          /\ \A q \in Processes : pc[q].at = "adding" => q = p
      BY <2>1, <3>1 DEF AddInsert, Declared, PcGood, Good
    <3>3. Acyclic'
      BY <2>1, <3>2, OneMoreDep DEF AddInsert
    <3>4. pc'[p] = At("idle") /\ \A q \in Processes \ {p} : pc'[q] = pc[q]
      BY <2>1, Goes, PlacesAre DEF AddInsert
    <3>5. \A q \in Processes : pc'[q].at # "adding"
      BY <1>b, <3>2, <3>4
    <3>6. QED
      BY <3>3, <3>5 DEF Declared
  <2>2. CASE ~AddInsert(p)
    BY <1>6, <2>2, StepGoes, GoesOn
  <2>3. QED
    BY <2>1, <2>2
<1>7. CASE Restart
  BY <1>7, <1>b, NothingDeclared DEF Restart
<1>8. CASE UNCHANGED vars
  BY <1>8, NothingDeclared DEF vars
<1>9. QED
  BY <1>1, <1>2, <1>3, <1>4, <1>5, <1>6, <1>7, <1>8 DEF Next, People

----------------------------------------------------------------------------
(* A card In Progress is at work. *)

AtWork(c) == pc[c].at \in {"reading", "filing"}
Awaited(c) == \E p \in Processes : pc[p].at = "queueing" /\ pc[p].card = c

\* No card but those of X comes to stand In Progress with nobody at work, and
\* what excused one still does.
LEMMA Calm ==
    ASSUME InProgressIsAtWork, NEW X \in SUBSET Cards,
           \A c \in Cards \ X : column'[c] = "running" /\ c \notin live' =>
              column[c] = "running" /\ c \notin live /\ (AtWork(c) => AtWork(c)'),
           \A c \in stray : column'[c] = "running" /\ c \notin live' => c \in stray',
           \A p \in Processes : pc[p].at = "queueing" => pc'[p] = pc[p] \/ pc[p].card \in X,
           \A c \in X : column'[c] = "running" => c \in live' \cup stray' \/ Awaited(c)'
    PROVE  InProgressIsAtWork'
<1>1. SUFFICES ASSUME NEW c \in Cards,
                      column'[c] = "running", c \notin live', ~AtWork(c)', c \notin X
               PROVE  c \in stray' \/ Awaited(c)'
  BY DEF InProgressIsAtWork, AtWork, Awaited
<1>2. c \in stray \/ Awaited(c)
  BY <1>1 DEF InProgressIsAtWork, AtWork, Awaited
<1>3. CASE c \in stray
  BY <1>1, <1>3
<1>4. CASE Awaited(c)
  BY <1>1, <1>4 DEF Awaited
<1>5. QED
  BY <1>2, <1>3, <1>4

LEMMA PeopleCalm ==
    ASSUME DataTypes, PcGood, InProgressIsAtWork, People
    PROVE  InProgressIsAtWork'
<1>s. {} \in SUBSET Cards /\ \A c \in Cards : {c} \in SUBSET Cards
  OBVIOUS
<1>d. \A d \in Doors, r \in States, c \in Cards :
          Good(r) /\ Go(d, r) =>
              AtWork(c)' = AtWork(c) /\ \A p \in Processes \ {d} : pc'[p] = pc[p]
  BY Goes, NamesDiffer DEF AtWork, Processes
<1>i. \A c \in Cards : [At("queueing") EXCEPT !.card = c].at = "queueing"
                       /\ [At("queueing") EXCEPT !.card = c].card = c
  BY DEF At
<1>1. ASSUME NEW d \in Doors, NEW c \in Cards, Start(d, c)
      PROVE  InProgressIsAtWork'
  <2>1. PICK r \in States : Good(r) /\ Go(d, r)
    BY <1>1, PlacesAre DEF Start
  <2>2. live \subseteq live' /\ column' = column
    BY <1>1, EnqueueIs DEF Start
  <2>3. \A e \in stray : column'[e] = "running" /\ e \notin live' => e \in stray'
    BY <1>1, <1>s, Remembers DEF Start
  <2>4. QED
    BY <1>1, <1>s, <1>d, <2>1, <2>2, <2>3, Calm DEF Start
<1>2. ASSUME NEW d \in Doors, NEW c \in Cards, DragToStart(d, c)
      PROVE  InProgressIsAtWork'
  <2>1. PICK r \in States : Good(r) /\ Go(d, r) /\ r.at = "queueing" /\ r.card = c
    BY <1>2, <1>i, PlacesAre DEF DragToStart
  <2>2. Awaited(c)'
    BY <2>1, Goes DEF Awaited, Processes
  <2>3. /\ column' = [column EXCEPT ![c] = "running"]
        /\ \A e \in stray : column'[e] = "running" /\ e \notin live' => e \in stray'
    BY <1>2, <1>s, MovesIs DEF DragToStart, Columns
  <2>4. live' = live /\ \A e \in Cards \ {c} : column'[e] = column[e]
    BY <1>2, <2>3 DEF DragToStart, DataTypes
  <2>5. \A e \in Cards : AtWork(e)' = AtWork(e)
    BY <1>d, <2>1
  <2>6. \A p \in Processes : pc[p].at = "queueing" => pc'[p] = pc[p]
    BY <1>2, <1>d, <2>1 DEF DragToStart
  <2>7. QED
    BY <1>s, <2>2, <2>3, <2>4, <2>5, <2>6, Calm
<1>3. ASSUME NEW c \in Cards, NEW to \in Columns, Drag(c, to)
      PROVE  InProgressIsAtWork'
  <2>1. /\ column' = [column EXCEPT ![c] = to]
        /\ \A e \in stray \cup {c} : column'[e] = "running" /\ e \notin live' => e \in stray'
    BY <1>3, <1>s, MovesIs DEF Drag
  <2>2. pc' = pc /\ live' = live
    BY <1>3 DEF Drag
  <2>3. \A e \in Cards : AtWork(e)' = AtWork(e)
    BY <2>2 DEF AtWork
  <2>4. \A e \in Cards \ {c} : column'[e] = column[e]
    BY <2>1 DEF DataTypes
  <2>5. QED
    BY <1>s, <2>1, <2>2, <2>3, <2>4, Calm
<1>4. ASSUME NEW d \in Doors, NEW c \in Cards, FileDone(d, c)
      PROVE  InProgressIsAtWork'
  <2>1. PICK r \in States : Good(r) /\ Go(d, r)
    BY <1>4, PlacesAre DEF FileDone
  <2>2. /\ column' = [column EXCEPT ![c] = "done"]
        /\ \A e \in stray : column'[e] = "running" /\ e \notin live' => e \in stray'
    BY <1>4, <1>s, MovesIs DEF FileDone, Columns
  <2>3. \A e \in Cards : column'[e] = "running" => column[e] = "running"
    BY <2>2 DEF DataTypes
  <2>4. QED
    BY <1>4, <1>s, <1>d, <2>1, <2>2, <2>3, Calm DEF FileDone
<1>5. ASSUME NEW c \in Cards, NEW b \in Cards, RemoveBlocker(c, b)
      PROVE  InProgressIsAtWork'
  <2>1. pc' = pc /\ live' = live /\ column' = column
    BY <1>5 DEF RemoveBlocker
  <2>2. \A e \in stray : column'[e] = "running" /\ e \notin live' => e \in stray'
    BY <1>5, <1>s, Remembers DEF RemoveBlocker
  <2>3. \A e \in Cards : AtWork(e)' = AtWork(e)
    BY <2>1 DEF AtWork
  <2>4. QED
    BY <1>s, <2>1, <2>2, <2>3, Calm
<1>6. ASSUME NEW d \in Doors, NEW c \in Cards, NEW b \in Cards, AddCheck(d, c, b)
      PROVE  InProgressIsAtWork'
  <2>1. PICK r \in States : Good(r) /\ Go(d, r)
    BY <1>6, PlacesAre DEF AddCheck
  <2>2. QED
    BY <1>6, <1>s, <1>d, <2>1, Calm DEF AddCheck
<1>7. QED
  BY <1>1, <1>2, <1>3, <1>4, <1>5, <1>6 DEF People

LEMMA RunsCalm ==
    ASSUME DataTypes, PcGood, InProgressIsAtWork, NEW c \in Cards, RunFails(c) \/ RunCompletes(c)
    PROVE  InProgressIsAtWork'
<1>s. {} \in SUBSET Cards /\ {c} \in SUBSET Cards
  OBVIOUS
<1>1. CASE RunFails(c)
  <2>1. pc' = pc /\ live' = live \ {c}
    BY <1>1 DEF RunFails
  <2>2. \A e \in stray : column'[e] = "running" /\ e \notin live' => e \in stray'
    BY <1>1, <1>s, Remembers DEF RunFails
  <2>3. /\ column'[c] # "running"
        /\ \A e \in Cards \ {c} : column'[e] = column[e]
    BY <1>1 DEF RunFails, Write, DataTypes
  <2>4. \A e \in Cards : AtWork(e)' = AtWork(e)
    BY <2>1 DEF AtWork
  <2>5. QED
    BY <1>s, <2>1, <2>2, <2>3, <2>4, Calm
<1>2. CASE RunCompletes(c)
  <2>1. PICK r \in States : Good(r) /\ Go(c, r) /\ r.at = "reading"
    <3>1. [At("reading") EXCEPT !.card = c].at = "reading"
      BY DEF At
    <3>2. QED
      BY <1>2, <3>1, PlacesAre DEF RunCompletes
  <2>2. pc'[c] = r /\ \A p \in Processes \ {c} : pc'[p] = pc[p]
    BY <2>1, Goes DEF Processes
  <2>3. \A e \in stray : column'[e] = "running" /\ e \notin live' => e \in stray'
    BY <1>2, <1>s, Remembers DEF RunCompletes
  <2>4. live' = live \ {c} /\ column' = column /\ pc[c].at = "idle"
    BY <1>2 DEF RunCompletes
  <2>5. SUFFICES ASSUME NEW e \in Cards, column[e] = "running", e \notin live', ~AtWork(e)'
                 PROVE  e \in stray' \/ Awaited(e)'
    BY <2>4 DEF InProgressIsAtWork, AtWork, Awaited
  <2>6. e # c /\ e \notin live /\ ~AtWork(e)
    BY <2>1, <2>2, <2>4, <2>5 DEF AtWork, Processes
  <2>7. e \in stray \/ Awaited(e)
    BY <2>5, <2>6 DEF InProgressIsAtWork, AtWork, Awaited
  <2>8. Awaited(e) => Awaited(e)'
    BY <2>2, <2>4 DEF Awaited
  <2>9. QED
    BY <2>3, <2>4, <2>5, <2>7, <2>8
<1>3. QED
  BY <1>1, <1>2

LEMMA StepCalm ==
    ASSUME DataTypes, PcGood, InProgressIsAtWork, NEW p \in Processes, Step(p)
    PROVE  InProgressIsAtWork'
<1>s. {} \in SUBSET Cards /\ \A c \in Cards : {c} \in SUBSET Cards
  OBVIOUS
<1>p. /\ pc[p] \in States /\ Good(pc[p])
      /\ pc[p].to \in Columns /\ pc[p].rest \subseteq Cards
  BY DEF PcGood, States
<1>g. \A q \in Processes \ {p} : pc'[q] = pc[q]
  <2>1. CASE AddInsert(p)
    BY <2>1, Goes, PlacesAre DEF AddInsert
  <2>2. CASE ~AddInsert(p)
    BY <2>2, StepGoes, Goes
  <2>3. QED
    BY <2>1, <2>2
<1>a. ASSUME pc[p].at \notin {"reading", "filing", "queueing"}
      PROVE  /\ \A c \in Cards : AtWork(c) => AtWork(c)'
             /\ \A q \in Processes : pc[q].at = "queueing" => pc'[q] = pc[q]
  BY <1>a, <1>g DEF AtWork, Processes
<1>1. CASE AddInsert(p)
  <2>1. column' = column /\ live' = live
    BY <1>1 DEF AddInsert
  <2>2. \A c \in stray : column'[c] = "running" /\ c \notin live' => c \in stray'
    BY <1>1, <1>s, Remembers DEF AddInsert
  <2>3. QED
    BY <1>1, <1>s, <1>a, <2>1, <2>2, Calm DEF AddInsert
<1>2. CASE Queue(p)
  <2>1. pc[p].card \in Cards
    BY <1>2, <1>p DEF Queue, Good
  <2>2. column' = column /\ live \subseteq live'
    BY <1>2, <2>1, EnqueueIs DEF Queue
  <2>3. \A c \in stray \cup {pc[p].card} :
            column'[c] = "running" /\ c \notin live' => c \in stray'
    BY <1>2, <1>s, <2>1, Remembers DEF Queue
  <2>4. \A c \in Cards : AtWork(c) => AtWork(c)'
    BY <1>2, <1>g DEF Queue, AtWork, Processes
  <2>5. \A q \in Processes : pc[q].at = "queueing" => pc'[q] = pc[q] \/ pc[q].card = pc[p].card
    BY <1>g
  <2>6. QED
    BY <1>s, <2>1, <2>2, <2>3, <2>4, <2>5, Calm
<1>3. CASE p \in Cards /\ Read(p)
  <2>1. UNCHANGED <<board, live, history>>
    BY <1>3 DEF Read
  <2>2. \A c \in Cards : AtWork(c) => AtWork(c)'
    <3>1. pc'[p].at = "filing"
      BY <1>3, <1>p DEF Read, Go, PcGood, States
    <3>2. QED
      BY <1>g, <3>1 DEF AtWork, Processes
  <2>3. \A q \in Processes : pc[q].at = "queueing" => pc'[q] = pc[q]
    BY <1>3, <1>g DEF Read
  <2>4. QED
    BY <1>s, <2>1, <2>2, <2>3, Calm
<1>4. CASE p \in Cards /\ File(p)
  <2>1. /\ column'[p] # "running"
        /\ \A c \in Cards \ {p} : column'[c] = column[c]
        /\ \A c \in stray : column'[c] = "running" /\ c \notin live' => c \in stray'
    <3>1. CASE Write(p, "backlog") /\ Remember({}, {p}, {}, {})
      BY <1>4, <3>1, <1>s, Remembers DEF Write, DataTypes
    <3>2. CASE Moves(p, pc[p].to, {})
      BY <1>4, <3>2, <1>s, <1>p, MovesIs DEF Good, DataTypes
    <3>3. QED
      BY <1>4, <3>1, <3>2 DEF File
  <2>2. live' = live
    BY <1>4 DEF File
  <2>3. \A c \in Cards \ {p} : AtWork(c) => AtWork(c)'
    BY <1>g DEF AtWork, Processes
  <2>4. \A q \in Processes : pc[q].at = "queueing" => pc'[q] = pc[q]
    BY <1>4, <1>g DEF File
  <2>5. QED
    BY <1>4, <1>s, <2>1, <2>2, <2>3, <2>4, Calm
<1>5. CASE p = Sweeper /\ (Forget \/ Collect \/ Pick)
  <2>1. column' = column /\ UNCHANGED <<live, history>>
    BY <1>5 DEF Forget, Collect, Pick
  <2>2. pc[p].at \notin {"reading", "filing", "queueing"}
    BY <1>5 DEF Forget, Collect, Pick
  <2>3. QED
    BY <1>s, <1>a, <2>1, <2>2, Calm
<1>6. CASE Mark(p)
  <2>1. pc[p].card \in Cards /\ "running" \in Columns
    BY <1>6, <1>p DEF Mark, Good, Columns
  <2> DEFINE c == pc[p].card
             T == IF pc[c].at \in {"reading", "filing"} THEN {} ELSE {c}
  <2>2. T \in SUBSET Cards /\ Moves(c, "running", T)
    BY <1>6, <2>1 DEF Mark
  <2>3. /\ column' = [column EXCEPT ![c] = "running"]
        /\ \A e \in stray \cup T : column'[e] = "running" /\ e \notin live' => e \in stray'
    <3> HIDE DEF T, c
    <3>1. QED
      BY <2>1, <2>2, MovesIs DEF c
  <2>4. live' = live /\ \A e \in Cards \ {c} : column'[e] = column[e]
    BY <1>6, <2>3 DEF Mark, DataTypes
  <2>5. /\ \A e \in Cards : AtWork(e) => AtWork(e)'
        /\ \A q \in Processes : pc[q].at = "queueing" => pc'[q] = pc[q]
    BY <1>6, <1>a DEF Mark
  <2>6. CASE AtWork(c)
    <3>1. SUFFICES ASSUME NEW e \in Cards, column'[e] = "running", e \notin live', ~AtWork(e)'
                   PROVE  e \in stray' \/ Awaited(e)'
      BY DEF InProgressIsAtWork, AtWork, Awaited
    <3>2. e # c /\ ~AtWork(e)
      BY <2>5, <2>6, <3>1
    <3>3. e \in stray \/ Awaited(e)
      BY <2>4, <3>1, <3>2 DEF InProgressIsAtWork, AtWork, Awaited
    <3>4. Awaited(e) => Awaited(e)'
      BY <2>5 DEF Awaited
    <3>5. QED
      BY <2>3, <3>1, <3>3, <3>4
  <2>7. CASE ~AtWork(c)
    <3>1. T = {c}
      BY <2>7 DEF AtWork
    <3> HIDE DEF T, c
    <3>2. \A e \in {c} : column'[e] = "running" => e \in live' \cup stray'
      BY <2>3, <3>1
    <3>3. c \in Cards
      BY <2>1 DEF c
    <3>4. QED
      BY <1>s, <2>3, <2>4, <2>5, <3>2, <3>3, Calm
  <2>8. QED
    BY <2>6, <2>7
<1>7. CASE Land(p)
  <2>1. column' = column /\ UNCHANGED <<live, history>>
    BY <1>7 DEF Land
  <2>2. QED
    BY <1>7, <1>s, <1>a, <2>1, Calm DEF Land
<1>8. CASE Tell(p)
  <2>1. PICK c \in pc[p].rest : /\ Enqueue(c) \/ UNCHANGED <<live, note>>
                                /\ Remember({}, {}, {c}, {})
    BY <1>8 DEF Tell
  <2>2. c \in Cards
    BY <1>p
  <2>3. live \subseteq live' /\ column' = column
    BY <1>8, <2>1, <2>2, EnqueueIs DEF Tell
  <2>4. \A e \in stray : column'[e] = "running" /\ e \notin live' => e \in stray'
    BY <2>1, <2>2, <1>s, Remembers
  <2>5. pc[p].at \notin {"reading", "filing", "queueing"}
    BY <1>8 DEF Tell
  <2>6. QED
    BY <1>s, <1>a, <2>3, <2>4, <2>5, Calm
<1>9. QED
  BY <1>1, <1>2, <1>3, <1>4, <1>5, <1>6, <1>7, <1>8 DEF Step

LEMMA AtWorkStays ==
    ASSUME DataTypes, PcGood, InProgressIsAtWork, [Next]_vars
    PROVE  InProgressIsAtWork'
<1>1. CASE Restart
  BY <1>1 DEF Restart, InProgressIsAtWork
<1>2. CASE UNCHANGED vars
  BY <1>2 DEF vars, InProgressIsAtWork
<1>3. QED
  BY <1>1, <1>2, PeopleCalm, RunsCalm, StepCalm DEF Next

----------------------------------------------------------------------------
(* The theorems. *)

LEMMA LInvFirst == Init => LInv
<1>1. SUFFICES ASSUME Init PROVE LInv
  OBVIOUS
<1>2. DataTypes
  <2>1. column \in [Cards -> Columns]
    BY <1>1 DEF Init, Columns
  <2>2. 0 \in 0 .. MaxActs /\ 0 \in 0 .. MaxRestarts
    BY BoundsAssumption
  <2>3. deps \subseteq Cards \X Cards
    BY <1>1, DepsAssumption DEF Init
  <2>4. QED
    BY <1>1, <2>1, <2>2, <2>3 DEF Init, DataTypes
<1>3. PcGood
  BY <1>1, PlacesAre DEF Init, PcGood
<1>4. Declared
  <2>1. Acyclic
    BY <1>1, DepsAssumption DEF Init, Acyclic, Knot, Blockers
  <2>2. \A p \in Processes : pc[p].at # "adding"
    BY <1>1 DEF Init, At
  <2>3. QED
    BY <2>1, <2>2 DEF Declared
<1>5. InProgressIsAtWork
  BY <1>1 DEF Init, InProgressIsAtWork
<1>6. QED
  BY <1>2, <1>3, <1>4, <1>5 DEF LInv

LEMMA LInvStays == LInv /\ [Next]_vars => LInv'
  BY TypesStay, DeclaredStays, AtWorkStays DEF LInv

LEMMA LInvHolds == Spec => []LInv
  BY LInvFirst, LInvStays, PTL DEF Spec

\* Every variable keeps its type, and every process its card.
THEOREM TypeCorrect == Spec => []TypeOK
  BY LInvHolds, TypesAre, PTL DEF LInv

\* add_blocker's walk is enough for one declaration at a time: however many
\* cards, people and restarts, no ring of waiting cards is ever tied unless
\* two declarations overlapped.
THEOREM RingsNeedARace == Spec => []LoopsNeedARace
<1>1. LInv => LoopsNeedARace
  BY DEF LInv, Declared, LoopsNeedARace
<1>2. QED
  BY <1>1, LInvHolds, PTL

\* A card In Progress has a live run, is about to be filed or about to be
\* queued, unless it was left there in one of the known ways.
THEOREM InProgressMeansWork == Spec => []InProgressIsAtWork
<1>1. LInv => InProgressIsAtWork
  BY DEF LInv
<1>2. QED
  BY <1>1, LInvHolds, PTL
=============================================================================
