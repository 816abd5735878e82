--------------------------- MODULE ManagerProofs ---------------------------
(***************************************************************************)
(* What Manager keeps for any cards, people, calls, caps and acts: its     *)
(* types, the cap of a pass whose calls did not overlap, and that what     *)
(* reads as read was read.                                                 *)
(***************************************************************************)
EXTENDS Manager, FiniteSetTheorems, TLAPS

\* The parts of TypeOK.
BoardTypes ==
    /\ card \in [Cards -> {"none", "backlog", "live", "review"}]
    /\ news \in [Cards -> [open : BOOLEAN, row : Nat, n : Nat]]
    /\ \A c \in Cards : news[c].row <= news[c].n /\ (news[c].open => news[c].row > 0)
    /\ able \in BOOLEAN /\ cooled \in BOOLEAN
    /\ early \in 0 .. MaxEarly
    /\ tick \in {"drain", "beat", "cron"}
    /\ carried \in [Cards -> Nat]
    /\ overtaken \subseteq Cards
    /\ acts \in 0 .. MaxActs

DoorTypes ==
    /\ door \in [Doors -> Message]
    /\ \A d \in Doors :
          door[d].at \in {"linking", "consuming"} => door[d].turn \in DOMAIN turns

CallTypes ==
    /\ call \in [Calls -> Started]
    /\ \A k \in Calls :
          /\ call[k].at # "idle" => call[k].turn \in DOMAIN turns
          /\ call[k].pass \in DOMAIN turns \cup {0}
          /\ call[k].at = "recording" => call[k].pass # 0
          /\ call[k].at \in {"recording", "starting"} => call[k].card \in Cards

\* Only the tick is due, and the day's count had room when it asked.
DueInTime ==
    /\ \A d \in People : door[d].at # "due"
    /\ door[Tick].at = "due" => early < MaxEarly

TInv == BoardTypes /\ turns \in Seq(Turn) /\ DoorTypes /\ CallTypes /\ DueInTime

LEMMA TypesAre == TInv => TypeOK
  BY DEF TInv, BoardTypes, DoorTypes, CallTypes, TypeOK

----------------------------------------------------------------------------
(* The turns: every step keeps those there are. *)

LEMMA TurnsAreKept ==
    ASSUME NEW T \in Seq(Turn), NEW F, F = [t \in DOMAIN T |-> F[t]],
           \A t \in DOMAIN T : F[t] \in Turn
    PROVE  F \in Seq(Turn) /\ DOMAIN F = DOMAIN T
<1>1. PICK n \in Nat : T \in [1 .. n -> Turn]
  OBVIOUS
<1>2. F \in [1 .. n -> Turn]
  BY <1>1
<1>3. QED
  BY <1>1, <1>2

LEMMA TurnIs ==
    ASSUME turns \in Seq(Turn), NEW t \in DOMAIN turns
    PROVE  turns[t] \in Turn /\ t \in Nat \ {0}
<1>1. DOMAIN turns = 1 .. Len(turns) /\ Len(turns) \in Nat
  OBVIOUS
<1>2. QED
  BY <1>1

LEMMA NewTurnIs == \A p \in BOOLEAN : NewTurn(p) \in Turn /\ ~NewTurn(p).excused
                      /\ NewTurn(p).recorded = 0 /\ NewTurn(p).started = 0
  BY DEF NewTurn, Turn

\* A turn of the thread is what it was, but for what the step says of it.
Kept(t) == turns'[t].recorded = turns[t].recorded /\ turns'[t].started = turns[t].started
             /\ (turns'[t].excused <=> turns[t].excused)

LEMMA QueueTurns ==
    ASSUME TInv, NEW d \in Doors, QueueTurn(d)
    PROVE  /\ turns' \in Seq(Turn)
           /\ Len(turns) + 1 \in DOMAIN turns' /\ DOMAIN turns \subseteq DOMAIN turns'
           /\ DOMAIN turns' = DOMAIN turns \cup {Len(turns) + 1}
           /\ Len(turns) + 1 \notin DOMAIN turns
           /\ \A t \in DOMAIN turns : turns'[t] = turns[t]
           /\ turns'[Len(turns) + 1] = NewTurn(door[d].pass)
<1>1. turns \in Seq(Turn) /\ NewTurn(door[d].pass) \in Turn
  BY NewTurnIs DEF TInv, DoorTypes, Message
<1>2. turns' = Append(turns, NewTurn(door[d].pass))
  BY DEF QueueTurn
<1>3. QED
  BY <1>1, <1>2

LEMMA LinkTurns ==
    ASSUME TInv, NEW d \in Doors, LinkPass(d)
    PROVE  turns' \in Seq(Turn) /\ DOMAIN turns' = DOMAIN turns /\ \A t \in DOMAIN turns : Kept(t)
<1>1. door[d].turn \in DOMAIN turns /\ turns \in Seq(Turn)
  BY DEF TInv, DoorTypes, LinkPass
<1>2. \A t \in DOMAIN turns : turns[t] \in Turn
  BY <1>1, TurnIs
<1>3. turns' = [t \in DOMAIN turns |-> turns'[t]]
      /\ \A t \in DOMAIN turns : turns'[t] \in Turn /\ Kept(t)
  BY <1>1, <1>2 DEF LinkPass, Turn, Kept
<1>4. QED
  BY <1>1, <1>3, TurnsAreKept

LEMMA StatusTurns ==
    ASSUME TInv, NEW t \in DOMAIN turns, Claim(t) \/ End(t)
    PROVE  turns' \in Seq(Turn) /\ DOMAIN turns' = DOMAIN turns /\ \A s \in DOMAIN turns : Kept(s)
<1>1. turns \in Seq(Turn) /\ \A s \in DOMAIN turns : turns[s] \in Turn
  BY TurnIs DEF TInv
<1>2. PICK u \in {"running", "ended"} : turns' = [turns EXCEPT ![t].status = u]
  BY DEF Claim, End
<1>3. turns' = [s \in DOMAIN turns |-> turns'[s]]
      /\ \A s \in DOMAIN turns : turns'[s] \in Turn /\ Kept(s)
  BY <1>1, <1>2 DEF Turn, Kept
<1>4. QED
  BY <1>1, <1>3, TurnsAreKept

LEMMA RestartTurns ==
    ASSUME TInv, Restart
    PROVE  turns' \in Seq(Turn) /\ DOMAIN turns' = DOMAIN turns /\ \A s \in DOMAIN turns : Kept(s)
<1>1. turns \in Seq(Turn) /\ \A s \in DOMAIN turns : turns[s] \in Turn
  BY TurnIs DEF TInv
<1>2. turns' = [s \in DOMAIN turns |->
          IF turns[s].status = "running" THEN [turns[s] EXCEPT !.status = "ended"] ELSE turns[s]]
  BY DEF Restart
<1>3. turns' = [s \in DOMAIN turns |-> turns'[s]]
      /\ \A s \in DOMAIN turns : turns'[s] \in Turn /\ Kept(s)
  BY <1>1, <1>2 DEF Turn, Kept
<1>4. QED
  BY <1>1, <1>3, TurnsAreKept

LEMMA AskTurns ==
    ASSUME TInv, NEW k \in Calls, Ask(k)
    PROVE  /\ turns' \in Seq(Turn) /\ DOMAIN turns' = DOMAIN turns
           /\ \A t \in DOMAIN turns \ {call[k].turn} : turns'[t] = turns[t]
           /\ turns'[call[k].turn].recorded = turns[call[k].turn].recorded
           /\ turns'[call[k].turn].started = turns[call[k].turn].started
           /\ \E p \in DOMAIN turns \cup {0} :
                 /\ call' = [call EXCEPT ![k].at = "counting", ![k].pass = p]
                 /\ turns'[call[k].turn].excused <=>
                       turns[call[k].turn].excused \/ p # call[k].turn
<1>1. turns \in Seq(Turn) /\ \A s \in DOMAIN turns : turns[s] \in Turn
  BY TurnIs DEF TInv
<1>2. call[k].turn \in DOMAIN turns
  BY DEF TInv, CallTypes, Ask
<1>3. PICK p \in DOMAIN turns \cup {0} :
          /\ call' = [call EXCEPT ![k].at = "counting", ![k].pass = p]
          /\ turns' = [turns EXCEPT ![call[k].turn].excused = @ \/ p # call[k].turn]
  BY DEF Ask, Passes
<1>4. turns' = [s \in DOMAIN turns |-> turns'[s]]
      /\ \A s \in DOMAIN turns \ {call[k].turn} : turns'[s] = turns[s]
  BY <1>2, <1>3
<1>5. turns'[call[k].turn] =
          [turns[call[k].turn] EXCEPT !.excused = turns[call[k].turn].excused \/ p # call[k].turn]
  BY <1>2, <1>3
<1>6. \A s \in DOMAIN turns : turns'[s] \in Turn
  <2>1. (turns[call[k].turn].excused \/ p # call[k].turn) \in BOOLEAN
    OBVIOUS
  <2>2. turns'[call[k].turn] \in Turn
    BY <1>1, <1>2, <1>5, <2>1 DEF Turn
  <2>3. QED
    BY <1>1, <1>4, <2>2
<1>7. turns' \in Seq(Turn) /\ DOMAIN turns' = DOMAIN turns
  BY <1>1, <1>4, <1>6, TurnsAreKept
<1>8. /\ turns'[call[k].turn].recorded = turns[call[k].turn].recorded
      /\ turns'[call[k].turn].started = turns[call[k].turn].started
      /\ turns'[call[k].turn].excused <=> turns[call[k].turn].excused \/ p # call[k].turn
  BY <1>1, <1>2, <1>5 DEF Turn
<1>9. QED
  BY <1>3, <1>4, <1>7, <1>8

LEMMA CountTurns ==
    ASSUME TInv, NEW k \in Calls, Count(k)
    PROVE  /\ turns' \in Seq(Turn) /\ DOMAIN turns' = DOMAIN turns
           /\ \A t \in DOMAIN turns :
                 /\ turns'[t].recorded = turns[t].recorded /\ turns'[t].started = turns[t].started
                 /\ turns[t].excused => turns'[t].excused
           /\ \A j \in Calls : call[j].at = "recording" /\ call[j].pass = call[k].pass
                 => turns'[call[k].pass].excused
<1> DEFINE p == call[k].pass
           over == \E j \in Calls : call[j].at = "recording" /\ call[j].pass = p
<1>1. turns \in Seq(Turn) /\ \A s \in DOMAIN turns : turns[s] \in Turn
  BY TurnIs DEF TInv
<1>2. turns' = IF over THEN [turns EXCEPT ![p].excused = TRUE] ELSE turns
  BY DEF Count
<1>3. CASE over
  <2>1. p \in DOMAIN turns
    BY <1>3 DEF TInv, CallTypes
  <2>2. turns' = [turns EXCEPT ![p].excused = TRUE]
    BY <1>2, <1>3
  <2> HIDE DEF p, over
  <2>3. turns' = [s \in DOMAIN turns |-> turns'[s]]
        /\ \A s \in DOMAIN turns : turns'[s] \in Turn
              /\ turns'[s].recorded = turns[s].recorded /\ turns'[s].started = turns[s].started
              /\ (turns[s].excused => turns'[s].excused)
    BY <1>1, <2>1, <2>2 DEF Turn
  <2>4. turns'[p].excused
    BY <1>1, <2>1, <2>2 DEF Turn
  <2>5. QED
    BY <1>1, <2>3, <2>4, TurnsAreKept DEF p
<1>4. CASE ~over
    BY <1>1, <1>2, <1>4
<1>5. QED
    BY <1>3, <1>4

LEMMA RecordTurns ==
    ASSUME TInv, NEW k \in Calls, Record(k)
    PROVE  /\ turns' \in Seq(Turn) /\ DOMAIN turns' = DOMAIN turns
           /\ call[k].pass \in DOMAIN turns
           /\ turns'[call[k].pass].recorded = turns[call[k].pass].recorded + 1
           /\ turns'[call[k].pass].started = turns[call[k].pass].started
           /\ turns'[call[k].pass].excused <=> turns[call[k].pass].excused
           /\ \A t \in DOMAIN turns \ {call[k].pass} : Kept(t)
<1>1. turns \in Seq(Turn) /\ \A s \in DOMAIN turns : turns[s] \in Turn
  BY TurnIs DEF TInv
<1>2. call[k].pass \in DOMAIN turns
  BY DEF TInv, CallTypes, Record
<1>3. turns' = [turns EXCEPT ![call[k].pass].recorded = @ + 1]
  BY DEF Record
<1>4. /\ turns' = [s \in DOMAIN turns |-> turns'[s]]
      /\ \A s \in DOMAIN turns : turns'[s] \in Turn
      /\ \A s \in DOMAIN turns \ {call[k].pass} : Kept(s)
  <2>1. turns' = [s \in DOMAIN turns |-> turns'[s]]
        /\ \A s \in DOMAIN turns \ {call[k].pass} : turns'[s] = turns[s]
    BY <1>1, <1>2, <1>3
  <2>2. turns'[call[k].pass] = [turns[call[k].pass] EXCEPT !.recorded = @ + 1]
    BY <1>1, <1>2, <1>3
  <2>3. turns'[call[k].pass] \in Turn
    <3>1. turns[call[k].pass] \in Turn
      BY <1>1, <1>2
    <3>2. QED
      BY <2>2, <3>1 DEF Turn
  <2>4. QED
    BY <1>1, <2>1, <2>3 DEF Kept
<1>5. /\ turns'[call[k].pass].recorded = turns[call[k].pass].recorded + 1
      /\ turns'[call[k].pass].started = turns[call[k].pass].started
      /\ turns'[call[k].pass].excused <=> turns[call[k].pass].excused
  BY <1>1, <1>2, <1>3 DEF Turn
<1>6. QED
  BY <1>1, <1>2, <1>4, <1>5, TurnsAreKept

LEMMA EnqueueTurns ==
    ASSUME TInv, NEW k \in Calls, Enqueue(k)
    PROVE  /\ turns' \in Seq(Turn) /\ DOMAIN turns' = DOMAIN turns
           /\ call[k].turn \in DOMAIN turns
           /\ turns'[call[k].turn].recorded = turns[call[k].turn].recorded
           /\ turns'[call[k].turn].started = turns[call[k].turn].started + 1
           /\ turns'[call[k].turn].excused <=> turns[call[k].turn].excused
           /\ \A t \in DOMAIN turns \ {call[k].turn} : Kept(t)
<1>1. turns \in Seq(Turn) /\ \A s \in DOMAIN turns : turns[s] \in Turn
  BY TurnIs DEF TInv
<1>2. call[k].turn \in DOMAIN turns
  BY DEF TInv, CallTypes, Enqueue
<1>3. turns' = [turns EXCEPT ![call[k].turn].started = @ + 1]
  BY DEF Enqueue
<1>4. /\ turns' = [s \in DOMAIN turns |-> turns'[s]]
      /\ \A s \in DOMAIN turns : turns'[s] \in Turn
      /\ \A s \in DOMAIN turns \ {call[k].turn} : Kept(s)
  <2>1. turns' = [s \in DOMAIN turns |-> turns'[s]]
        /\ \A s \in DOMAIN turns \ {call[k].turn} : turns'[s] = turns[s]
    BY <1>1, <1>2, <1>3
  <2>2. turns'[call[k].turn] = [turns[call[k].turn] EXCEPT !.started = @ + 1]
    BY <1>1, <1>2, <1>3
  <2>3. turns'[call[k].turn] \in Turn
    <3>1. turns[call[k].turn] \in Turn
      BY <1>1, <1>2
    <3>2. QED
      BY <2>2, <3>1 DEF Turn
  <2>4. QED
    BY <1>1, <2>1, <2>3 DEF Kept
<1>5. /\ turns'[call[k].turn].recorded = turns[call[k].turn].recorded
      /\ turns'[call[k].turn].started = turns[call[k].turn].started + 1
      /\ turns'[call[k].turn].excused <=> turns[call[k].turn].excused
  BY <1>1, <1>2, <1>3 DEF Turn
<1>6. QED
  BY <1>1, <1>2, <1>4, <1>5, TurnsAreKept

\* Every other step leaves the turns alone.
OtherStep ==
    \/ \E c \in Cards : StartCard(c) \/ CardFails(c) \/ CardEnds(c)
    \/ \E d \in People : RunNow(d) \/ Type(d)
    \/ Ticks \/ Time \/ Turnabout
    \/ \E d \in Doors : Vet(d) \/ ReadNews(d) \/ CheckThread(d) \/ TurnRefused(d) \/ Consume(d)
    \/ \E t \in DOMAIN turns, c \in Cards : CallFile(t, c)
    \/ \E k \in Calls : (\E t \in DOMAIN turns, c \in Cards \cup {NoCard} : CallStart(k, t, c))
                          \/ Refuse(k) \/ CallFails(k)

LEMMA OthersLeaveTurns == OtherStep => turns' = turns
  BY DEF OtherStep, StartCard, CardFails, CardEnds, RunNow, Type, Ticks, Time, Turnabout, Vet,
         ReadNews, CheckThread, TurnRefused, Consume, CallFile, CallStart, Refuse, CallFails,
         DrainWakeups,
         Heartbeat, TickRoutine, FireDue, Cool, Midnight, board, clock, history

LEMMA StepsAre ==
    ASSUME Next
    PROVE  \/ OtherStep
           \/ \E d \in Doors : QueueTurn(d) \/ LinkPass(d)
           \/ \E t \in DOMAIN turns : Claim(t) \/ End(t)
           \/ \E k \in Calls : Ask(k) \/ Count(k) \/ Record(k) \/ Enqueue(k)
           \/ Restart
  BY DEF Next, OtherStep, OnItsWay, Calling

LEMMA TurnsStay ==
    ASSUME TInv, Next
    PROVE  turns' \in Seq(Turn) /\ DOMAIN turns \subseteq DOMAIN turns'
<1>1. turns \in Seq(Turn)
  BY DEF TInv
<1>2. QED
  BY <1>1, StepsAre, OthersLeaveTurns, QueueTurns, LinkTurns, StatusTurns, AskTurns, CountTurns,
     RecordTurns, EnqueueTurns, RestartTurns

----------------------------------------------------------------------------
(* Doors. *)

LEMMA MessagesAre ==
    /\ Rest \in Message /\ Rest.at = "idle" /\ \A c \in Cards : Rest.saw[c] = 0
    /\ \A m \in Message, p \in {"due", "reading", "checking", "queueing", "linking", "consuming"} :
          LET r == [m EXCEPT !.at = p]
          IN  r \in Message /\ r.at = p /\ r.saw = m.saw /\ r.turn = m.turn /\ r.pass = m.pass
    /\ LET r == [Rest EXCEPT !.at = "vetting", !.pass = TRUE]
       IN  r \in Message /\ r.at = "vetting"
  BY DEF Rest, Message

\* A door that goes to m, the others where they were.
LEMMA DoorGoes ==
    ASSUME TInv, turns' \in Seq(Turn), DOMAIN turns \subseteq DOMAIN turns',
           NEW d \in Doors, NEW m \in Message,
           m.at \in {"linking", "consuming"} => m.turn \in DOMAIN turns',
           door' = [door EXCEPT ![d] = m]
    PROVE  DoorTypes'
  BY DEF TInv, DoorTypes

LEMMA DoorStays ==
    ASSUME TInv, turns' \in Seq(Turn), DOMAIN turns \subseteq DOMAIN turns', door' = door
    PROVE  DoorTypes'
  BY DEF TInv, DoorTypes

LEMMA TickIsADoor == Tick \in Doors /\ People \subseteq Doors /\ Tick \notin People
  BY NamesAssumption DEF Doors

LEMMA DoorsAreTyped ==
    ASSUME TInv, Next
    PROVE  DoorTypes'
<1>1. turns' \in Seq(Turn) /\ DOMAIN turns \subseteq DOMAIN turns'
  BY TurnsStay
<1>2. door \in [Doors -> Message]
  BY DEF TInv, DoorTypes
<1>3. \A d \in Doors : door[d] \in Message
  BY <1>2
<1>4. ASSUME NEW d \in Doors, NEW m \in Message, m.at \notin {"linking", "consuming"},
             door' = [door EXCEPT ![d] = m]
      PROVE  DoorTypes'
  BY <1>1, <1>4, DoorGoes
<1>5. ASSUME door' = door
      PROVE  DoorTypes'
  BY <1>1, <1>5, DoorStays
<1>6. ASSUME NEW d \in Doors, Fire(d) \/ Leave(d)
      PROVE  DoorTypes'
  <2>1. PICK m \in Message : m.at \in {"vetting", "idle"} /\ door' = [door EXCEPT ![d] = m]
    BY <1>6, MessagesAre DEF Fire, Leave
  <2>2. QED
    BY <1>4, <2>1
<1>7. ASSUME NEW d \in Doors, NEW p \in {"due", "reading", "checking", "queueing"}, Go(d, p)
      PROVE  DoorTypes'
  <2>1. door' = [door EXCEPT ![d] = [door[d] EXCEPT !.at = p]]
    BY <1>2, <1>7 DEF Go
  <2>2. QED
    BY <1>3, <1>4, <2>1, MessagesAre
<1>8. ASSUME NEW d \in People, RunNow(d) \/ Type(d)
      PROVE  DoorTypes'
  BY <1>6, <1>7, <1>8, TickIsADoor DEF RunNow, Type
<1>9. ASSUME Ticks
      PROVE  DoorTypes'
  BY <1>5, <1>6, <1>7, <1>9, TickIsADoor
     DEF Ticks, DrainWakeups, Heartbeat, TickRoutine, FireDue, Due
<1>10. ASSUME NEW d \in Doors, Vet(d) \/ CheckThread(d) \/ TurnRefused(d) \/ Consume(d)
       PROVE  DoorTypes'
  BY <1>6, <1>7, <1>10 DEF Vet, CheckThread, TurnRefused, Consume
<1>11. ASSUME NEW d \in Doors, ReadNews(d)
       PROVE  DoorTypes'
  <2> DEFINE m == [door[d] EXCEPT !.at = "checking",
                      !.saw = [c \in Cards |-> IF news[c].open THEN news[c].n ELSE 0]]
  <2>1. m \in Message /\ m.at = "checking"
    BY <1>3 DEF Message, TInv, BoardTypes
  <2>2. door' = [door EXCEPT ![d] = m]
    BY <1>2, <1>11 DEF ReadNews
  <2>3. QED
    BY <1>4, <2>1, <2>2
<1>12. ASSUME NEW d \in Doors, QueueTurn(d)
       PROVE  DoorTypes'
  <2>1. CASE door[d].pass
    <3> DEFINE m == [door[d] EXCEPT !.at = "linking", !.turn = Len(turns) + 1]
    <3>1. m \in Message /\ m.turn = Len(turns) + 1
      <4>1. Len(turns) \in Nat
        BY DEF TInv
      <4>2. door[d] \in Message /\ Len(turns) + 1 \in Nat
        BY <1>3, <4>1
      <4>3. QED
        BY <4>2 DEF Message
    <3>2. door' = [door EXCEPT ![d] = m]
      BY <1>2, <1>12, <2>1 DEF QueueTurn
    <3>3. m.turn \in DOMAIN turns'
      BY <1>12, <3>1, QueueTurns
    <3>4. QED
      BY <1>1, <3>1, <3>2, <3>3, DoorGoes
  <2>2. CASE ~door[d].pass
    BY <1>6, <1>12, <2>2 DEF QueueTurn
  <2>3. QED
    BY <2>1, <2>2
<1>13. ASSUME NEW d \in Doors, LinkPass(d)
       PROVE  DoorTypes'
  <2>1. door' = [door EXCEPT ![d] = [door[d] EXCEPT !.at = "consuming"]]
    BY <1>2, <1>13 DEF LinkPass, Go
  <2>2. door[d].turn \in DOMAIN turns'
    BY <1>1, <1>13 DEF LinkPass, TInv, DoorTypes
  <2>3. [door[d] EXCEPT !.at = "consuming"] \in Message
        /\ [door[d] EXCEPT !.at = "consuming"].turn = door[d].turn
    BY <1>3 DEF Message
  <2>4. QED
    BY <1>1, <2>1, <2>2, <2>3, DoorGoes
<1>14. ASSUME Restart
       PROVE  DoorTypes'
  BY <1>14, MessagesAre DEF Restart, DoorTypes
<1>15. QED
  <2>1. CASE \E c \in Cards : StartCard(c) \/ CardFails(c) \/ CardEnds(c)
    BY <1>5, <2>1 DEF StartCard, CardFails, CardEnds
  <2>2. CASE Time \/ Turnabout
    BY <1>5, <2>2 DEF Time, Cool, Midnight, Turnabout
  <2>3. CASE \E t \in DOMAIN turns : Claim(t) \/ End(t) \/ \E c \in Cards : CallFile(t, c)
    BY <1>5, <2>3 DEF Claim, End, CallFile
  <2>4. CASE \E k \in Calls : Calling(k)
    BY <1>5, <2>4 DEF Calling, CallStart, Ask, Refuse, Count, Record, Enqueue, CallFails
  <2>5. QED
    BY <1>8, <1>9, <1>10, <1>11, <1>12, <1>13, <1>14, <2>1, <2>2, <2>3, <2>4 DEF Next, OnItsWay

LEMMA DueStaysInTime ==
    ASSUME TInv, Next
    PROVE  DueInTime'
<1>1. /\ door \in [Doors -> Message] /\ early \in 0 .. MaxEarly /\ MaxEarly \in Nat \ {0}
      /\ Tick \in Doors /\ People \subseteq Doors /\ Tick \notin People
  BY TickIsADoor, BoundsAssumption DEF TInv, DoorTypes, BoardTypes
<1>2. DueInTime /\ \A d \in Doors : door[d] \in Message
  BY <1>1 DEF TInv
<1>3. ASSUME NEW d \in Doors, NEW m \in Message, m.at # "due", door' = [door EXCEPT ![d] = m],
             d = Tick \/ early' = early
      PROVE  DueInTime'
  BY <1>1, <1>2, <1>3 DEF DueInTime
<1>4. ASSUME door' = door, early' \in {early, 0}
      PROVE  DueInTime'
  BY <1>1, <1>2, <1>4 DEF DueInTime
<1>5. ASSUME NEW d \in Doors, Fire(d) \/ Leave(d), d = Tick \/ early' = early
      PROVE  DueInTime'
  BY <1>3, <1>5, MessagesAre DEF Fire, Leave
<1>6. ASSUME NEW d \in Doors, NEW p \in {"reading", "checking", "queueing", "linking", "consuming"},
             Go(d, p), early' = early
      PROVE  DueInTime'
  <2>1. door' = [door EXCEPT ![d] = [door[d] EXCEPT !.at = p]]
    BY <1>1, <1>6 DEF Go
  <2>2. QED
    BY <1>2, <1>3, <1>6, <2>1, MessagesAre
<1>7. ASSUME Due, MayWake, early' = early
      PROVE  DueInTime'
  <2>1. door' = [door EXCEPT ![Tick] = [door[Tick] EXCEPT !.at = "due"]] /\ early < MaxEarly
    BY <1>1, <1>7 DEF Due, Go, MayWake
  <2>2. QED
    BY <1>1, <1>2, <1>7, <2>1 DEF DueInTime
<1>8. ASSUME NEW d \in People, RunNow(d) \/ Type(d)
      PROVE  DueInTime'
  BY <1>1, <1>5, <1>6, <1>8 DEF RunNow, Type, clock
<1>9. ASSUME Ticks
      PROVE  DueInTime'
  BY <1>1, <1>4, <1>5, <1>7, <1>9
     DEF Ticks, DrainWakeups, Heartbeat, TickRoutine, FireDue, clock
<1>10. ASSUME NEW d \in Doors, Vet(d) \/ CheckThread(d) \/ TurnRefused(d) \/ Consume(d) \/ LinkPass(d)
       PROVE  DueInTime'
  BY <1>5, <1>6, <1>10 DEF Vet, CheckThread, TurnRefused, Consume, LinkPass, clock
<1>11. ASSUME NEW d \in Doors, ReadNews(d)
       PROVE  DueInTime'
  <2> DEFINE m == [door[d] EXCEPT !.at = "checking",
                      !.saw = [c \in Cards |-> IF news[c].open THEN news[c].n ELSE 0]]
  <2>1. m \in Message /\ m.at = "checking"
    BY <1>2 DEF Message, TInv, BoardTypes
  <2>2. door' = [door EXCEPT ![d] = m] /\ early' = early
    BY <1>1, <1>11 DEF ReadNews, clock
  <2>3. QED
    BY <1>3, <2>1, <2>2
<1>12. ASSUME NEW d \in Doors, QueueTurn(d)
       PROVE  DueInTime'
  <2>1. CASE door[d].pass
    <3> DEFINE m == [door[d] EXCEPT !.at = "linking", !.turn = Len(turns) + 1]
    <3>1. m \in Message /\ m.at = "linking"
      <4>1. Len(turns) \in Nat
        BY DEF TInv
      <4>2. door[d] \in Message /\ Len(turns) + 1 \in Nat
        BY <1>2, <4>1
      <4>3. QED
        BY <4>2 DEF Message
    <3>2. door' = [door EXCEPT ![d] = m] /\ early' = early
      BY <1>1, <1>12, <2>1 DEF QueueTurn, clock
    <3>3. QED
      BY <1>3, <3>1, <3>2
  <2>2. CASE ~door[d].pass
    BY <1>5, <1>12, <2>2 DEF QueueTurn, clock
  <2>3. QED
    BY <2>1, <2>2
<1>13. ASSUME Restart
       PROVE  DueInTime'
  BY <1>1, <1>13, MessagesAre DEF Restart, DueInTime
<1>14. QED
  <2>1. CASE \E c \in Cards : StartCard(c) \/ CardFails(c) \/ CardEnds(c)
    BY <1>4, <2>1 DEF StartCard, CardFails, CardEnds, clock
  <2>2. CASE Time \/ Turnabout
    BY <1>4, <2>2 DEF Time, Cool, Midnight, Turnabout, clock
  <2>3. CASE \E t \in DOMAIN turns : Claim(t) \/ End(t) \/ \E c \in Cards : CallFile(t, c)
    BY <1>4, <2>3 DEF Claim, End, CallFile, clock
  <2>4. CASE \E k \in Calls : Calling(k)
    BY <1>4, <2>4 DEF Calling, CallStart, Ask, Refuse, Count, Record, Enqueue, CallFails, clock
  <2>5. QED
    BY <1>8, <1>9, <1>10, <1>11, <1>12, <1>13, <2>1, <2>2, <2>3, <2>4 DEF Next, OnItsWay

----------------------------------------------------------------------------
(* Calls. *)

LEMMA CallsAreTyped ==
    ASSUME TInv, Next
    PROVE  CallTypes'
<1>1. turns' \in Seq(Turn) /\ DOMAIN turns \subseteq DOMAIN turns'
  BY TurnsStay
<1>2. call \in [Calls -> Started] /\ CallTypes /\ NoCard \notin Cards
  BY CardsAssumption DEF TInv, CallTypes
<1>3. \A k \in Calls : call[k] \in Started
  BY <1>2
<1>4. \A t \in DOMAIN turns : t \in Nat \ {0}
  BY TurnIs DEF TInv
<1>5. ASSUME NEW k \in Calls, NEW m \in Started, call' = [call EXCEPT ![k] = m],
             m.at # "idle" => m.turn \in DOMAIN turns', m.pass \in DOMAIN turns' \cup {0},
             m.at = "recording" => m.pass # 0,
             m.at \in {"recording", "starting"} => m.card \in Cards
      PROVE  CallTypes'
  BY <1>1, <1>2, <1>5 DEF CallTypes
<1>6. ASSUME call' = call
      PROVE  CallTypes'
  BY <1>1, <1>2, <1>6 DEF CallTypes
<1>7. Quiet \in Started /\ Quiet.at = "idle" /\ Quiet.pass = 0
  BY DEF Quiet, Started
<1>8. ASSUME NEW k \in Calls, Quit(k)
      PROVE  CallTypes'
  BY <1>5, <1>7, <1>8 DEF Quit
<1>9. ASSUME NEW k \in Calls, NEW t \in DOMAIN turns, NEW c \in Cards \cup {NoCard},
             CallStart(k, t, c)
      PROVE  CallTypes'
  <2> DEFINE m == [Quiet EXCEPT !.at = "asking", !.turn = t, !.card = c]
  <2>1. m \in Started /\ m.at = "asking" /\ m.turn = t /\ m.pass = 0
    BY <1>4 DEF Quiet, Started
  <2>2. call' = [call EXCEPT ![k] = m]
    BY <1>9 DEF CallStart
  <2> HIDE DEF m
  <2>3. QED
    BY <1>1, <1>5, <2>1, <2>2
<1>10. ASSUME NEW k \in Calls, Ask(k)
       PROVE  CallTypes'
  <2>1. PICK p \in DOMAIN turns \cup {0} :
            call' = [call EXCEPT ![k].at = "counting", ![k].pass = p]
    BY <1>10, AskTurns
  <2> DEFINE m == [call[k] EXCEPT !.at = "counting", !.pass = p]
  <2>2. m \in Started /\ m.at = "counting" /\ m.turn = call[k].turn /\ m.pass = p
    <3>1. p \in Nat
      BY <1>4
    <3>2. QED
      BY <1>3, <3>1 DEF Started
  <2>3. call' = [call EXCEPT ![k] = m]
    BY <1>2, <2>1
  <2>4. call[k].turn \in DOMAIN turns
    BY <1>2, <1>10 DEF Ask, CallTypes
  <2> HIDE DEF m
  <2>5. QED
    BY <1>1, <1>5, <2>2, <2>3, <2>4
<1>11. ASSUME NEW k \in Calls, Count(k)
       PROVE  CallTypes'
  <2>1. PICK c \in Cards :
            call' = [call EXCEPT ![k].at = IF call[k].pass = 0 THEN "starting" ELSE "recording",
                                 ![k].card = c]
    BY <1>11 DEF Count
  <2> DEFINE m == [call[k] EXCEPT !.at = IF call[k].pass = 0 THEN "starting" ELSE "recording",
                                  !.card = c]
  <2>2. /\ m \in Started /\ m.turn = call[k].turn /\ m.pass = call[k].pass /\ m.card = c
        /\ m.at = "recording" => m.pass # 0
    BY <1>3 DEF Started
  <2>3. call' = [call EXCEPT ![k] = m]
    BY <1>2, <2>1
  <2>4. call[k].turn \in DOMAIN turns /\ call[k].pass \in DOMAIN turns \cup {0}
    BY <1>2, <1>11 DEF Count, CallTypes
  <2> HIDE DEF m
  <2>5. QED
    BY <1>1, <1>5, <2>2, <2>3, <2>4
<1>12. ASSUME NEW k \in Calls, Record(k)
       PROVE  CallTypes'
  <2> DEFINE m == [call[k] EXCEPT !.at = "starting"]
  <2>1. /\ m \in Started /\ m.turn = call[k].turn /\ m.pass = call[k].pass /\ m.card = call[k].card
        /\ m.at = "starting"
    BY <1>3 DEF Started
  <2>2. call' = [call EXCEPT ![k] = m]
    BY <1>2, <1>12 DEF Record, Step
  <2>3. /\ call[k].turn \in DOMAIN turns /\ call[k].pass \in DOMAIN turns \cup {0}
        /\ call[k].card \in Cards
    BY <1>2, <1>12 DEF Record, CallTypes
  <2> HIDE DEF m
  <2>4. QED
    BY <1>1, <1>5, <2>1, <2>2, <2>3
<1>13. ASSUME NEW k \in Calls, Refuse(k) \/ Enqueue(k) \/ CallFails(k)
       PROVE  CallTypes'
  BY <1>8, <1>13 DEF Refuse, Enqueue, CallFails
<1>14. ASSUME Restart
       PROVE  CallTypes'
  BY <1>7, <1>14 DEF Restart, CallTypes
<1>15. QED
  <2>1. CASE \E c \in Cards : StartCard(c) \/ CardFails(c) \/ CardEnds(c)
    BY <1>6, <2>1 DEF StartCard, CardFails, CardEnds
  <2>2. CASE Ticks \/ Time \/ Turnabout
    BY <1>6, <2>2 DEF Time, Cool, Midnight, Turnabout, Ticks, DrainWakeups, Heartbeat,
                      TickRoutine, FireDue
  <2>3. CASE \E t \in DOMAIN turns : Claim(t) \/ End(t) \/ \E c \in Cards : CallFile(t, c)
    BY <1>6, <2>3 DEF Claim, End, CallFile
  <2>4. CASE \/ \E d \in People : RunNow(d) \/ Type(d)
             \/ \E d \in Doors : OnItsWay(d)
    BY <1>6, <2>4 DEF RunNow, Type, OnItsWay, Vet, ReadNews, CheckThread, TurnRefused, QueueTurn,
          LinkPass,
                      Consume
  <2>5. QED
    BY <1>9, <1>10, <1>11, <1>12, <1>13, <1>14, <2>1, <2>2, <2>3, <2>4 DEF Next, Calling

----------------------------------------------------------------------------
(* The rest of the types. *)

LEMMA RaiseKeepsTypes ==
    ASSUME TInv, NEW c \in Cards, Raise(c)
    PROVE  /\ news' \in [Cards -> [open : BOOLEAN, row : Nat, n : Nat]]
           /\ \A b \in Cards : news'[b].row <= news'[b].n /\ (news'[b].open => news'[b].row > 0)
           /\ overtaken' \subseteq Cards
           /\ news'[c].open /\ news'[c].n = news[c].n + 1
           /\ news'[c].row = IF news[c].open THEN news[c].row ELSE news[c].n + 1
           /\ \A b \in Cards \ {c} : news'[b] = news[b]
           /\ overtaken \subseteq overtaken'
           /\ (\E d \in Doors : HasRead(d, c)) => c \in overtaken'
<1>1. news \in [Cards -> [open : BOOLEAN, row : Nat, n : Nat]]
      /\ \A b \in Cards : news[b].row <= news[b].n /\ (news[b].open => news[b].row > 0)
      /\ overtaken \subseteq Cards
  BY DEF TInv, BoardTypes
<1>2. news' = [news EXCEPT ![c] = [open |-> TRUE, n |-> news[c].n + 1,
                                   row |-> IF news[c].open THEN news[c].row ELSE news[c].n + 1]]
  BY <1>1 DEF Raise
<1>3. overtaken' = IF \E d \in Doors : HasRead(d, c) THEN overtaken \cup {c} ELSE overtaken
  BY DEF Raise
<1>4. QED
  BY <1>1, <1>2, <1>3

LEMMA BoardIsTyped ==
    ASSUME TInv, Next
    PROVE  BoardTypes'
<1>1. BoardTypes /\ MaxEarly \in Nat \ {0} /\ MaxActs \in Nat
  BY BoundsAssumption DEF TInv
<1>2. ASSUME NEW c \in Cards, StartCard(c) \/ CardEnds(c)
      PROVE  BoardTypes'
  BY <1>1, <1>2 DEF StartCard, CardEnds, Acts, BoardTypes, clock, history
<1>3. ASSUME NEW c \in Cards, CardFails(c)
      PROVE  BoardTypes'
  BY <1>1, <1>3, RaiseKeepsTypes DEF CardFails, BoardTypes, clock
<1>4. ASSUME NEW d \in People, RunNow(d) \/ Type(d)
      PROVE  BoardTypes'
  <2>1. /\ UNCHANGED <<board, early, tick, history>>
        /\ acts' = acts + 1 /\ acts < MaxActs
    BY <1>4 DEF RunNow, Type, Fire, Acts, clock
  <2>2. cooled' = FALSE \/ cooled' = cooled
    BY <1>4 DEF RunNow, Type, Fire, clock
  <2>3. cooled' \in BOOLEAN
    BY <1>1, <2>2, Zenon DEF BoardTypes
  <2>4. QED
    BY <1>1, <2>1, <2>3 DEF BoardTypes, board, history
<1>5. ASSUME DrainWakeups
      PROVE  BoardTypes'
  BY <1>1, <1>5 DEF DrainWakeups, BoardTypes, board, clock, history
<1>6. ASSUME Heartbeat
      PROVE  BoardTypes'
  BY <1>1, <1>6 DEF Heartbeat, Acts, BoardTypes, board, clock, history
<1>7. ASSUME TickRoutine
      PROVE  BoardTypes'
  <2>1. /\ UNCHANGED <<board, early, history>> /\ tick' = "drain"
        /\ acts' = acts \/ (acts' = acts + 1 /\ acts < MaxActs)
    BY <1>7 DEF TickRoutine, Acts
  <2>2. cooled' = FALSE \/ cooled' = cooled
    BY <1>7 DEF TickRoutine, Fire
  <2>3. cooled' \in BOOLEAN
    BY <1>1, <2>2, Zenon DEF BoardTypes
  <2>4. QED
    BY <1>1, <2>1, <2>3 DEF BoardTypes, board, history
<1>8. ASSUME FireDue
      PROVE  BoardTypes'
  <2>1. /\ UNCHANGED <<board, tick, history, acts>>
        /\ early' = early + 1 /\ early < MaxEarly
    BY <1>8 DEF FireDue, TInv, DueInTime
  <2>2. cooled' = FALSE
    BY <1>8 DEF FireDue, Fire
  <2>3. cooled' \in BOOLEAN
    BY <2>2, Zenon
  <2>4. QED
    BY <1>1, <2>1, <2>3 DEF BoardTypes, board, history
<1>9. ASSUME Time \/ Turnabout
      PROVE  BoardTypes'
  <2>1. CASE Time
    <3>1. UNCHANGED <<board, tick, history, acts>> /\ early' \in {early, 0}
      BY <2>1 DEF Time, Cool, Midnight
    <3>2. cooled' = TRUE \/ cooled' = cooled
      BY <2>1 DEF Time, Cool, Midnight
    <3>3. cooled' \in BOOLEAN
      BY <1>1, <3>2, Zenon DEF BoardTypes
    <3>4. QED
      BY <1>1, <3>1, <3>3 DEF BoardTypes, board, history
  <2>2. CASE Turnabout
    <3>1. (~able) \in BOOLEAN
      OBVIOUS
    <3>2. QED
      BY <1>1, <2>2, <3>1 DEF Turnabout, Acts, BoardTypes, clock, history
  <2>3. QED
    BY <1>9, <2>1, <2>2
<1>10. ASSUME NEW d \in Doors, Vet(d) \/ ReadNews(d) \/ CheckThread(d) \/ TurnRefused(d) \/ LinkPass(d)
       PROVE  BoardTypes'
  BY <1>1, <1>10 DEF Vet, ReadNews, CheckThread, TurnRefused, LinkPass, BoardTypes, board, clock,
        history
<1>11. ASSUME NEW d \in Doors, QueueTurn(d)
       PROVE  BoardTypes'
  <2>1. \A c \in Cards : door[d].saw[c] \in Nat
    BY DEF TInv, DoorTypes, Message
  <2>2. QED
    BY <1>1, <1>11, <2>1 DEF QueueTurn, BoardTypes, board, clock
<1>12. ASSUME NEW d \in Doors, Consume(d)
       PROVE  BoardTypes'
  <2>1. \A c \in Cards : (news[c].open /\ ~HasRead(d, c)) \in BOOLEAN
    OBVIOUS
  <2>2. \A c \in Cards : /\ news'[c] \in [open : BOOLEAN, row : Nat, n : Nat]
                         /\ news'[c].row = news[c].row /\ news'[c].n = news[c].n
                         /\ news'[c].open => news[c].open
    BY <1>1, <1>12, <2>1 DEF Consume, BoardTypes
  <2>3. QED
    BY <1>1, <1>12, <2>2 DEF Consume, BoardTypes, clock, history
<1>13. ASSUME NEW t \in DOMAIN turns, Claim(t) \/ End(t) \/ \E c \in Cards : CallFile(t, c)
       PROVE  BoardTypes'
  BY <1>1, <1>13 DEF Claim, End, CallFile, Acts, BoardTypes, board, clock, history
<1>14. ASSUME NEW k \in Calls, NEW t \in DOMAIN turns, NEW c \in Cards \cup {NoCard},
              CallStart(k, t, c)
       PROVE  BoardTypes'
  BY <1>1, <1>14 DEF CallStart, Acts, BoardTypes, board, clock, history
<1>15. ASSUME NEW k \in Calls, Ask(k) \/ Refuse(k) \/ Record(k) \/ CallFails(k)
       PROVE  BoardTypes'
  BY <1>1, <1>15 DEF Ask, Refuse, Record, CallFails, BoardTypes, board, clock, history
<1>16. ASSUME NEW k \in Calls, Count(k)
       PROVE  BoardTypes'
  <2>1. PICK c \in Cards : card' = [card EXCEPT ![c] = IF @ = "none" THEN "backlog" ELSE @]
    BY <1>16 DEF Count
  <2>2. QED
    BY <1>1, <1>16, <2>1 DEF Count, BoardTypes, clock, history
<1>17. ASSUME NEW k \in Calls, Enqueue(k)
       PROVE  BoardTypes'
  BY <1>1, <1>17 DEF Enqueue, BoardTypes, clock, history
<1>18. ASSUME Restart
       PROVE  BoardTypes'
  <2>1. PICK lost \in SUBSET {c \in Cards : card[c] = "live"} :
            card' = [c \in Cards |-> IF c \in lost THEN "review" ELSE card[c]]
    BY <1>18 DEF Restart
  <2>2. QED
    BY <1>1, <1>18, <2>1 DEF Restart, Acts, BoardTypes, clock, history
<1>19. QED
  BY <1>2, <1>3, <1>4, <1>5, <1>6, <1>7, <1>8, <1>9, <1>10, <1>11, <1>12, <1>13, <1>14, <1>15,
     <1>16, <1>17, <1>18 DEF Next, Ticks, OnItsWay, Calling

LEMMA TInvHolds == Spec => []TInv
<1>1. Init => TInv
  <2>1. SUFFICES ASSUME Init PROVE TInv
    OBVIOUS
  <2>2. BoardTypes
    BY <2>1, CardsAssumption, BoundsAssumption DEF Init, BoardTypes
  <2>3. turns \in Seq(Turn) /\ DoorTypes /\ DueInTime
    <3>1. turns = <<>> /\ door = [d \in Doors |-> Rest]
      BY <2>1 DEF Init
    <3>2. turns \in Seq(Turn)
      BY <3>1
    <3>3. DoorTypes /\ DueInTime
      BY <3>1, MessagesAre, TickIsADoor DEF DoorTypes, DueInTime
    <3>4. QED
      BY <3>2, <3>3
  <2>4. CallTypes
    BY <2>1 DEF Init, CallTypes, Quiet, Started
  <2>5. QED
    BY <2>2, <2>3, <2>4 DEF TInv
<1>2. TInv /\ [Next]_vars => TInv'
  <2>1. SUFFICES ASSUME TInv, [Next]_vars PROVE TInv'
    OBVIOUS
  <2>2. CASE Next
    BY <2>1, <2>2, BoardIsTyped, TurnsStay, DoorsAreTyped, CallsAreTyped, DueStaysInTime DEF TInv
  <2>3. CASE UNCHANGED vars
    BY <2>1, <2>3 DEF TInv, BoardTypes, DoorTypes, CallTypes, DueInTime, vars, board, clock, history
  <2>4. QED
    BY <2>1, <2>2, <2>3
<1>3. QED
  BY <1>1, <1>2, PTL DEF Spec

\* Every state is typed; in particular the early passes of a day stay within
\* their bound, although may_wake is asked a statement before the pass's row
\* is written (wake.rs, may_wake).
THEOREM TypeCorrect == Spec => []TypeOK
<1>1. TInv => TypeOK
  BY TypesAre
<1>2. QED
  BY <1>1, TInvHolds, PTL

----------------------------------------------------------------------------
(* The cap.  A pass whose calls keep apart has written down what it starts, *)
(* and what it has written down stays within the cap.                      *)

Starting(t) == {k \in Calls : call[k].at = "starting" /\ call[k].turn = t}
Recording(k, t) == call[k].at = "recording" /\ call[k].pass = t

Within(t) ==
    /\ turns[t].started + Cardinality(Starting(t)) <= turns[t].recorded
    /\ turns[t].recorded <= MaxStarts
    /\ \A k \in Calls : Recording(k, t) =>
          turns[t].recorded < MaxStarts /\ \A j \in Calls : Recording(j, t) => j = k

\* Past the look a call knows its own pass, or its turn is excused.
OwnPass(k) ==
    call[k].at \in {"counting", "recording", "starting"} =>
        turns[call[k].turn].excused \/ call[k].pass = call[k].turn

CapInv ==
    /\ \A k \in Calls : OwnPass(k)
    /\ \A t \in DOMAIN turns : turns[t].excused \/ Within(t)

LEMMA StartingIs ==
    /\ \A t : IsFiniteSet(Starting(t)) /\ Cardinality(Starting(t)) \in Nat
    /\ \A t : IsFiniteSet(Starting(t)') /\ Cardinality(Starting(t)') \in Nat
    /\ \A t : Starting(t)' \subseteq Starting(t)
              => Cardinality(Starting(t)') <= Cardinality(Starting(t))
<1>1. \A t : Starting(t) \subseteq Calls /\ Starting(t)' \subseteq Calls
  BY DEF Starting
<1>2. \A t : IsFiniteSet(Starting(t)) /\ IsFiniteSet(Starting(t)')
  BY <1>1, CallsAssumption, FS_Subset
<1>3. QED
  BY <1>2, FS_CardinalityType, FS_Subset

\* A step that leaves the tallies alone and takes calls back at most.
LEMMA CapStays ==
    ASSUME TInv, CapInv, DOMAIN turns' = DOMAIN turns, \A t \in DOMAIN turns : Kept(t),
           TInv',
           \A k \in Calls : \/ call'[k] = call[k]
                            \/ call'[k].at \in {"idle", "asking"}
    PROVE  CapInv'
<1>1. \A t \in DOMAIN turns : turns[t] \in Turn /\ turns'[t] \in Turn
  BY TurnIs DEF TInv
<1>2. \A t : Starting(t)' \subseteq Starting(t)
  BY DEF Starting
<1>3. \A t : Cardinality(Starting(t)') <= Cardinality(Starting(t))
            /\ Cardinality(Starting(t)') \in Nat /\ Cardinality(Starting(t)) \in Nat
  BY <1>2, StartingIs
<1>4. ASSUME NEW k \in Calls
      PROVE  OwnPass(k)'
  BY DEF CapInv, OwnPass, Kept, TInv, CallTypes
<1>5. ASSUME NEW t \in DOMAIN turns
      PROVE  turns'[t].excused \/ Within(t)'
  <2>1. CASE turns[t].excused
    BY <2>1 DEF Kept
  <2>2. CASE Within(t)
    <3>1. turns'[t].started + Cardinality(Starting(t)') <= turns'[t].recorded
      BY <1>1, <1>3, <2>2 DEF Within, Kept, Turn
    <3>2. \A k \in Calls : Recording(k, t)' => Recording(k, t)
      BY DEF Recording
    <3>3. QED
      BY <2>2, <3>1, <3>2 DEF Within, Kept
  <2>3. QED
    BY <2>1, <2>2 DEF CapInv
<1>6. QED
  BY <1>4, <1>5 DEF CapInv

LEMMA CapQueue ==
    ASSUME TInv, TInv', CapInv, NEW d \in Doors, QueueTurn(d)
    PROVE  CapInv'
<1>1. PICK n \in Nat \ {0} :
          /\ DOMAIN turns' = DOMAIN turns \cup {n} /\ n \notin DOMAIN turns
          /\ \A t \in DOMAIN turns : turns'[t] = turns[t]
          /\ turns'[n].started = 0 /\ turns'[n].recorded = 0
  <2>1. Len(turns) + 1 \in Nat \ {0} /\ door[d].pass \in BOOLEAN
    BY DEF TInv, DoorTypes, Message
  <2>2. NewTurn(door[d].pass).started = 0 /\ NewTurn(door[d].pass).recorded = 0
    BY <2>1, NewTurnIs
  <2>3. QED
    BY <2>1, <2>2, QueueTurns
<1>2. call' = call
  BY DEF QueueTurn
<1>3. \A k \in Calls : call[k].at # "idle" => call[k].turn \in DOMAIN turns
  BY DEF TInv, CallTypes
<1>4. ASSUME NEW k \in Calls
      PROVE  OwnPass(k)'
  BY <1>1, <1>2, <1>3 DEF CapInv, OwnPass
<1>5. \A t : Starting(t)' = Starting(t)
  BY <1>2 DEF Starting
<1>6. ASSUME NEW t \in DOMAIN turns
      PROVE  turns'[t].excused \/ Within(t)'
  BY <1>1, <1>2, <1>5 DEF CapInv, Within, Recording
<1>7. Within(n)'
  <2>1. Starting(n)' = {}
    BY <1>1, <1>2, <1>3 DEF Starting
  <2>2. \A k \in Calls : ~Recording(k, n)'
    BY <1>1, <1>2 DEF Recording, TInv, CallTypes
  <2>3. Cardinality(Starting(n)') = 0
    BY <2>1, FS_EmptySet
  <2>4. QED
    BY <1>1, <2>2, <2>3, BoundsAssumption DEF Within
<1>8. QED
  BY <1>1, <1>4, <1>6, <1>7 DEF CapInv

LEMMA CapAsk ==
    ASSUME TInv, TInv', CapInv, NEW k \in Calls, Ask(k)
    PROVE  CapInv'
<1> DEFINE u == call[k].turn
<1>1. PICK p \in DOMAIN turns \cup {0} :
          /\ call' = [call EXCEPT ![k].at = "counting", ![k].pass = p]
          /\ turns'[u].excused <=> turns[u].excused \/ p # u
  BY AskTurns
<1>2. /\ DOMAIN turns' = DOMAIN turns /\ u \in DOMAIN turns
      /\ \A t \in DOMAIN turns \ {u} : turns'[t] = turns[t]
      /\ turns'[u].recorded = turns[u].recorded /\ turns'[u].started = turns[u].started
  BY AskTurns DEF Ask, TInv, CallTypes
<1>3. /\ call'[k].at = "counting" /\ call'[k].turn = u /\ call'[k].pass = p
      /\ \A j \in Calls \ {k} : call'[j] = call[j]
  BY <1>1 DEF TInv, CallTypes, Started
<1>4. call[k].at = "asking"
  BY DEF Ask
<1> HIDE DEF u
<1>5. turns[u].excused => turns'[u].excused
  BY <1>1
<1>6. ASSUME NEW j \in Calls
      PROVE  OwnPass(j)'
  <2>1. CASE j = k
    BY <1>1, <1>3, <2>1 DEF OwnPass
  <2>2. CASE j # k
    BY <1>2, <1>3, <1>5, <2>2 DEF OwnPass, CapInv, TInv, CallTypes
  <2>3. QED
    BY <2>1, <2>2
<1>7. \A t : Starting(t)' = Starting(t)
  BY <1>3, <1>4 DEF Starting
<1>8. \A j \in Calls : \A t : Recording(j, t)' <=> Recording(j, t)
  BY <1>3, <1>4 DEF Recording
<1>9. ASSUME NEW t \in DOMAIN turns
      PROVE  turns'[t].excused \/ Within(t)'
  <2>1. turns'[t].recorded = turns[t].recorded /\ turns'[t].started = turns[t].started
        /\ (turns[t].excused => turns'[t].excused)
    BY <1>2, <1>5
  <2>2. QED
    BY <1>7, <1>8, <2>1 DEF CapInv, Within
<1>10. QED
  BY <1>2, <1>6, <1>9 DEF CapInv

LEMMA CapCount ==
    ASSUME TInv, TInv', CapInv, NEW k \in Calls, Count(k)
    PROVE  CapInv'
<1> DEFINE p == call[k].pass
           u == call[k].turn
<1>1. /\ DOMAIN turns' = DOMAIN turns
      /\ \A t \in DOMAIN turns :
            /\ turns'[t].recorded = turns[t].recorded /\ turns'[t].started = turns[t].started
            /\ turns[t].excused => turns'[t].excused
      /\ \A j \in Calls : Recording(j, p) => turns'[p].excused
  BY CountTurns DEF Recording
<1>2. PICK c \in Cards :
          call' = [call EXCEPT ![k].at = IF p = 0 THEN "starting" ELSE "recording", ![k].card = c]
  BY DEF Count
<1>3. /\ call'[k].at = IF p = 0 THEN "starting" ELSE "recording"
      /\ call'[k].turn = u /\ call'[k].pass = p
      /\ \A j \in Calls \ {k} : call'[j] = call[j]
  BY <1>2 DEF TInv, CallTypes, Started
<1>4. call[k].at = "counting" /\ (p # 0 => turns[p].recorded < MaxStarts) /\ u \in DOMAIN turns
  BY DEF Count, Room, TInv, CallTypes
<1>5. u # 0
  BY <1>4, TurnIs DEF TInv
<1>6. \A t \in DOMAIN turns : turns[t] \in Turn
  BY TurnIs DEF TInv
<1>7. turns[u].excused \/ p = u
  BY <1>4 DEF CapInv, OwnPass
<1> HIDE DEF p, u
<1>8. ASSUME NEW j \in Calls
      PROVE  OwnPass(j)'
  <2>1. CASE j = k
    BY <1>1, <1>3, <1>4, <1>7, <2>1 DEF OwnPass
  <2>2. CASE j # k
    BY <1>1, <1>3, <2>2 DEF OwnPass, CapInv, TInv, CallTypes
  <2>3. QED
    BY <2>1, <2>2
<1>9. ASSUME NEW t \in DOMAIN turns
      PROVE  turns'[t].excused \/ Within(t)'
  <2>1. SUFFICES ASSUME ~turns'[t].excused PROVE Within(t)'
    OBVIOUS
  <2>2. ~turns[t].excused /\ Within(t)
    BY <1>1, <2>1 DEF CapInv
  <2>3. ~(p = 0 /\ u = t)
    BY <1>5, <1>7, <2>2
  <2>4. Starting(t)' = Starting(t)
    BY <1>3, <1>4, <2>3 DEF Starting
  <2>5. ASSUME NEW j \in Calls, Recording(j, t)'
        PROVE  turns'[t].recorded < MaxStarts /\ \A i \in Calls : Recording(i, t)' => i = j
    <3>1. CASE \E i \in Calls : Recording(i, t)
      <4>1. p # t
        BY <1>1, <2>1, <3>1
      <4>2. \A i \in Calls : Recording(i, t)' => Recording(i, t)
        BY <1>3, <4>1 DEF Recording
      <4>3. QED
        BY <1>1, <2>2, <2>5, <4>2 DEF Within
    <3>2. CASE \A i \in Calls : ~Recording(i, t)
      <4>1. \A i \in Calls : Recording(i, t)' => i = k
        BY <1>3, <3>2 DEF Recording
      <4>2. j = k /\ p = t /\ p # 0
        BY <1>3, <2>5, <4>1 DEF Recording
      <4>3. QED
        BY <1>1, <1>4, <4>1, <4>2
    <3>3. QED
      BY <3>1, <3>2
  <2>6. QED
    BY <1>1, <2>2, <2>4, <2>5 DEF Within
<1>10. QED
  BY <1>1, <1>8, <1>9 DEF CapInv

LEMMA CapRecord ==
    ASSUME TInv, TInv', CapInv, NEW k \in Calls, Record(k)
    PROVE  CapInv'
<1> DEFINE p == call[k].pass
           u == call[k].turn
<1>1. /\ DOMAIN turns' = DOMAIN turns /\ p \in DOMAIN turns
      /\ turns'[p].recorded = turns[p].recorded + 1 /\ turns'[p].started = turns[p].started
      /\ turns'[p].excused <=> turns[p].excused
      /\ \A t \in DOMAIN turns \ {p} : Kept(t)
  BY RecordTurns
<1>2. /\ call'[k].at = "starting" /\ call'[k].turn = u /\ call'[k].pass = p
      /\ \A j \in Calls \ {k} : call'[j] = call[j]
  BY DEF Record, Step, TInv, CallTypes, Started
<1>3. call[k].at = "recording" /\ u \in DOMAIN turns
  BY DEF Record, TInv, CallTypes
<1>4. \A t \in DOMAIN turns : turns[t] \in Turn /\ turns'[t] \in Turn
  BY <1>1, TurnIs DEF TInv
<1>5. turns[u].excused \/ p = u
  BY <1>3 DEF CapInv, OwnPass
<1>6. Recording(k, p)
  BY <1>3 DEF Recording
<1> HIDE DEF p, u
<1>7. \A t \in DOMAIN turns : turns'[t].excused <=> turns[t].excused
  BY <1>1 DEF Kept
<1>8. ASSUME NEW j \in Calls
      PROVE  OwnPass(j)'
  <2>1. CASE j = k
    BY <1>2, <1>3, <1>5, <1>7, <2>1 DEF OwnPass
  <2>2. CASE j # k
    BY <1>2, <1>7, <2>2 DEF OwnPass, CapInv, TInv, CallTypes
  <2>3. QED
    BY <2>1, <2>2
<1>9. ASSUME NEW t \in DOMAIN turns
      PROVE  turns'[t].excused \/ Within(t)'
  <2>1. SUFFICES ASSUME ~turns'[t].excused PROVE Within(t)'
    OBVIOUS
  <2>2. ~turns[t].excused /\ Within(t)
    BY <1>7, <2>1 DEF CapInv
  <2>3. CASE t = p
    <3>1. turns[t].recorded < MaxStarts /\ \A j \in Calls : Recording(j, t) => j = k
      BY <1>6, <2>2, <2>3 DEF Within
    <3>2. \A j \in Calls : ~Recording(j, t)'
      BY <1>2, <3>1 DEF Recording
    <3>3. Starting(t)' \subseteq Starting(t) \cup {k}
      BY <1>2 DEF Starting
    <3>4. Cardinality(Starting(t)') <= Cardinality(Starting(t)) + 1
      <4>1. IsFiniteSet(Starting(t)) /\ IsFiniteSet(Starting(t) \cup {k})
        BY StartingIs, FS_AddElement
      <4>2. Cardinality(Starting(t)') <= Cardinality(Starting(t) \cup {k})
        BY <3>3, <4>1, FS_Subset
      <4>3. Cardinality(Starting(t) \cup {k}) \in
                {Cardinality(Starting(t)), Cardinality(Starting(t)) + 1}
        BY <4>1, FS_AddElement
      <4>4. QED
        BY <4>1, <4>2, <4>3, StartingIs
    <3>5. turns'[t].started + Cardinality(Starting(t)') <= turns'[t].recorded
      <4>1. /\ turns'[t].recorded = turns[t].recorded + 1 /\ turns'[t].started = turns[t].started
            /\ turns[t].recorded \in Nat /\ turns[t].started \in Nat
        BY <1>1, <1>4, <2>3 DEF Turn
      <4>2. QED
        BY <2>2, <3>4, <4>1, StartingIs DEF Within
    <3>6. turns'[t].recorded <= MaxStarts
      <4>1. turns'[t].recorded = turns[t].recorded + 1 /\ turns[t].recorded \in Nat
        BY <1>1, <1>4, <2>3 DEF Turn
      <4>2. QED
        BY <3>1, <4>1, BoundsAssumption
    <3>7. QED
      BY <3>2, <3>5, <3>6 DEF Within
  <2>4. CASE t # p
    <3>1. Starting(t)' = Starting(t)
      <4>1. u # t
        BY <1>5, <2>2, <2>4
      <4>2. QED
        BY <1>2, <1>3, <4>1 DEF Starting
    <3>2. \A j \in Calls : Recording(j, t)' => Recording(j, t)
      BY <1>2 DEF Recording
    <3>3. Kept(t)
      BY <1>1, <2>4
    <3>4. QED
      BY <2>2, <3>1, <3>2, <3>3 DEF Within, Kept
  <2>5. QED
    BY <2>3, <2>4
<1>10. QED
  BY <1>1, <1>8, <1>9 DEF CapInv

LEMMA CapEnqueue ==
    ASSUME TInv, TInv', CapInv, NEW k \in Calls, Enqueue(k)
    PROVE  CapInv'
<1> DEFINE u == call[k].turn
<1>1. /\ DOMAIN turns' = DOMAIN turns /\ u \in DOMAIN turns
      /\ turns'[u].recorded = turns[u].recorded /\ turns'[u].started = turns[u].started + 1
      /\ turns'[u].excused <=> turns[u].excused
      /\ \A t \in DOMAIN turns \ {u} : Kept(t)
  BY EnqueueTurns
<1>2. call'[k] = Quiet /\ \A j \in Calls \ {k} : call'[j] = call[j]
  BY DEF Enqueue, Quit, TInv, CallTypes
<1>3. Quiet.at = "idle"
  BY DEF Quiet
<1>4. k \in Starting(u)
  BY DEF Enqueue, Starting
<1>5. \A t \in DOMAIN turns : turns[t] \in Turn
  BY TurnIs DEF TInv
<1> HIDE DEF u
<1>6. \A t \in DOMAIN turns : turns'[t].excused <=> turns[t].excused
  BY <1>1 DEF Kept
<1>7. ASSUME NEW j \in Calls
      PROVE  OwnPass(j)'
  BY <1>2, <1>3, <1>6 DEF OwnPass, CapInv, TInv, CallTypes
<1>8. \A j \in Calls : \A t : Recording(j, t)' => Recording(j, t)
  BY <1>2, <1>3 DEF Recording
<1>9. ASSUME NEW t \in DOMAIN turns
      PROVE  turns'[t].excused \/ Within(t)'
  <2>1. SUFFICES ASSUME ~turns'[t].excused PROVE Within(t)'
    OBVIOUS
  <2>2. Within(t)
    BY <1>6, <2>1 DEF CapInv
  <2>3. CASE t = u
    <3>1. Starting(t)' = Starting(t) \ {k} /\ k \in Starting(t)
      BY <1>2, <1>3, <1>4, <2>3 DEF Starting
    <3>2. Cardinality(Starting(t)') = Cardinality(Starting(t)) - 1
      BY <3>1, StartingIs, FS_RemoveElement
    <3>3. /\ turns'[t].recorded = turns[t].recorded /\ turns'[t].started = turns[t].started + 1
          /\ turns[t].recorded \in Nat /\ turns[t].started \in Nat
      BY <1>1, <1>5, <2>3 DEF Turn
    <3>4. turns'[t].started + Cardinality(Starting(t)') <= turns'[t].recorded
      BY <2>2, <3>2, <3>3, StartingIs DEF Within
    <3>5. QED
      BY <1>8, <2>2, <3>3, <3>4 DEF Within
  <2>4. CASE t # u
    <3>1. Starting(t)' = Starting(t)
      BY <1>2, <1>3, <1>4, <2>4 DEF Starting
    <3>2. Kept(t)
      BY <1>1, <2>4
    <3>3. QED
      BY <1>8, <2>2, <3>1, <3>2 DEF Within, Kept
  <2>5. QED
    BY <2>3, <2>4
<1>10. QED
  BY <1>1, <1>7, <1>9 DEF CapInv

LEMMA CapOthers ==
    ASSUME TInv, TInv', CapInv, OtherStep
    PROVE  CapInv'
<1>1. turns' = turns
  BY OthersLeaveTurns
<1>2. DOMAIN turns' = DOMAIN turns /\ \A t \in DOMAIN turns : Kept(t)
  BY <1>1 DEF Kept
<1>3. ASSUME call' = call PROVE CapInv'
  BY <1>2, <1>3, CapStays
<1>4. ASSUME NEW k \in Calls, call'[k].at \in {"idle", "asking"},
             \A j \in Calls \ {k} : call'[j] = call[j]
      PROVE  CapInv'
  <2>1. \A j \in Calls : call'[j] = call[j] \/ call'[j].at \in {"idle", "asking"}
    BY <1>4
  <2>2. QED
    BY <1>2, <2>1, CapStays
<1>5. ASSUME NEW k \in Calls, Refuse(k) \/ CallFails(k) PROVE CapInv'
  <2>1. call' = [call EXCEPT ![k] = Quiet]
    BY <1>5 DEF Refuse, CallFails, Quit
  <2>2. call'[k] = Quiet /\ \A j \in Calls \ {k} : call'[j] = call[j]
    BY <2>1 DEF TInv, CallTypes
  <2>3. QED
    BY <1>4, <2>2 DEF Quiet
<1>6. ASSUME NEW k \in Calls, NEW t \in DOMAIN turns, NEW c \in Cards \cup {NoCard},
             CallStart(k, t, c)
      PROVE  CapInv'
  <2>1. /\ call'[k] = [Quiet EXCEPT !.at = "asking", !.turn = t, !.card = c]
        /\ \A j \in Calls \ {k} : call'[j] = call[j]
    BY <1>6 DEF CallStart, TInv, CallTypes
  <2>2. call'[k].at = "asking"
    BY <2>1 DEF Quiet
  <2>3. QED
    BY <1>4, <2>1, <2>2
<1>7. CASE \/ \E c \in Cards : StartCard(c) \/ CardFails(c) \/ CardEnds(c)
           \/ \E d \in People : RunNow(d) \/ Type(d)
           \/ \E t \in DOMAIN turns, c \in Cards : CallFile(t, c)
  BY <1>3, <1>7 DEF StartCard, CardFails, CardEnds, RunNow, Type, CallFile
<1>8. CASE Ticks \/ Time \/ Turnabout
  BY <1>3, <1>8 DEF Ticks, DrainWakeups, Heartbeat, TickRoutine, FireDue, Time, Cool, Midnight,
                    Turnabout
<1>9. CASE \E d \in Doors : Vet(d) \/ ReadNews(d) \/ CheckThread(d) \/ TurnRefused(d) \/ Consume(d)
  BY <1>3, <1>9 DEF Vet, ReadNews, CheckThread, TurnRefused, Consume
<1>10. QED
  BY <1>5, <1>6, <1>7, <1>8, <1>9 DEF OtherStep

LEMMA CapInvHolds == Spec => []CapInv
<1>1. Init => CapInv
  BY DEF Init, CapInv, OwnPass, Quiet
<1>2. TInv /\ TInv' /\ CapInv /\ [Next]_vars => CapInv'
  <2>1. SUFFICES ASSUME TInv, TInv', CapInv, [Next]_vars PROVE CapInv'
    OBVIOUS
  <2>2. CASE OtherStep
    BY <2>1, <2>2, CapOthers
  <2>3. CASE \E d \in Doors : QueueTurn(d)
    BY <2>1, <2>3, CapQueue
  <2>4. CASE \E d \in Doors : LinkPass(d)
    BY <2>1, <2>4, CapStays, LinkTurns DEF LinkPass
  <2>5. CASE \E t \in DOMAIN turns : Claim(t) \/ End(t)
    BY <2>1, <2>5, CapStays, StatusTurns DEF Claim, End
  <2>6. CASE \E k \in Calls : Ask(k) \/ Count(k) \/ Record(k) \/ Enqueue(k)
    BY <2>1, <2>6, CapAsk, CapCount, CapRecord, CapEnqueue
  <2>7. CASE Restart
    <3>1. \A k \in Calls : call'[k].at = "idle"
      BY <2>7 DEF Restart, Quiet
    <3>2. QED
      BY <2>1, <2>7, <3>1, CapStays, RestartTurns
  <2>8. CASE UNCHANGED vars
    <3>1. call' = call /\ turns' = turns
      BY <2>8 DEF vars
    <3>2. QED
      BY <2>1, <3>1, CapStays DEF Kept
  <2>9. CASE Next
    BY <2>2, <2>3, <2>4, <2>5, <2>6, <2>7, <2>9, StepsAre
  <2>10. QED
    BY <2>1, <2>8, <2>9
<1>3. QED
  BY <1>1, <1>2, TInvHolds, PTL DEF Spec

\* A pass whose calls keep apart starts no more cards than its cap, whatever
\* else goes on in the thread: what a turn has started it has recorded, and
\* what it has recorded had room (vet_manager_start, record_start).
THEOREM CapsAreKept == Spec => []CapKept
<1>1. TInv /\ CapInv => CapKept
  <2>1. SUFFICES ASSUME TInv, CapInv, NEW t \in DOMAIN turns, ~turns[t].excused
                 PROVE  turns[t].started <= MaxStarts
    BY DEF CapKept
  <2>2. turns[t] \in Turn
    BY <2>1, TurnIs DEF TInv
  <2>3. Within(t) /\ turns[t].started \in Nat /\ turns[t].recorded \in Nat
    BY <2>1, <2>2 DEF CapInv, Turn
  <2>4. QED
    BY <2>3, StartingIs, BoundsAssumption DEF Within
<1>2. QED
  BY <1>1, TInvHolds, CapInvHolds, PTL

----------------------------------------------------------------------------
(* The news.  What a door has read is what it will carry, or was raised     *)
(* since; what it has carried it may close.                                *)

NewsInv ==
    /\ NewsIsRead
    /\ \A c \in Cards : carried[c] <= news[c].n
    /\ \A d \in Doors, c \in Cards :
          /\ door[d].saw[c] <= news[c].n
          /\ door[d].at \in {"idle", "due", "vetting", "reading"} => door[d].saw[c] = 0
          /\ HasRead(d, c) =>
                \/ c \in overtaken
                \/ carried[c] = news[c].n
                \/ door[d].at \in {"checking", "queueing"} /\ door[d].saw[c] = news[c].n

\* A step that leaves the news and what has been carried alone, of doors that
\* stay as they are, come to rest, or go on from where nothing has been read.
LEMMA NewsStays ==
    ASSUME TInv, TInv', NewsInv, UNCHANGED <<news, carried, overtaken>>,
           \A d \in Doors :
              \/ door'[d] = door[d]
              \/ door'[d].at \in {"idle", "due", "vetting", "reading", "checking"}
                 /\ \A c \in Cards : door'[d].saw[c] = 0
              \/ door'[d].at = "queueing" /\ door[d].at = "checking" /\ door'[d].saw = door[d].saw
              \/ door'[d].at = "consuming" /\ door[d].at = "linking" /\ door'[d].saw = door[d].saw
    PROVE  NewsInv'
<1>1. NewsIsRead' /\ \A c \in Cards : carried'[c] <= news'[c].n
  BY DEF NewsInv, NewsIsRead
<1>2. \A c \in Cards : news[c].n \in Nat /\ news[c].row \in Nat /\ (news[c].open => news[c].row > 0)
  BY DEF TInv, BoardTypes
<1>3. ASSUME NEW d \in Doors, NEW c \in Cards
      PROVE  /\ door'[d].saw[c] <= news'[c].n
             /\ door'[d].at \in {"idle", "due", "vetting", "reading"} => door'[d].saw[c] = 0
             /\ HasRead(d, c)' =>
                   \/ c \in overtaken'
                   \/ carried'[c] = news'[c].n
                   \/ door'[d].at \in {"checking", "queueing"} /\ door'[d].saw[c] = news'[c].n
  <2>1. CASE door'[d] = door[d]
    BY <2>1 DEF NewsInv, HasRead
  <2>2. CASE door'[d].at \in {"idle", "due", "vetting", "reading", "checking"}
             /\ door'[d].saw[c] = 0
    BY <1>2, <2>2 DEF HasRead
  <2>3. CASE door'[d].at = "queueing" /\ door[d].at = "checking" /\ door'[d].saw = door[d].saw
    BY <2>3 DEF NewsInv, HasRead
  <2>4. CASE door'[d].at = "consuming" /\ door[d].at = "linking" /\ door'[d].saw = door[d].saw
    BY <2>4 DEF NewsInv, HasRead
  <2>5. QED
    BY <2>1, <2>2, <2>3, <2>4
<1>4. QED
  BY <1>1, <1>3 DEF NewsInv

\* What DoorGoes and its like need of one door that moves.
LEMMA NewsGo ==
    ASSUME TInv, TInv', NewsInv, UNCHANGED <<news, carried, overtaken>>,
           NEW d \in Doors, NEW m \in Message, door' = [door EXCEPT ![d] = m],
           \/ m.at \in {"idle", "due", "vetting", "reading", "checking"}
              /\ \A c \in Cards : m.saw[c] = 0
           \/ m.at = "queueing" /\ door[d].at = "checking" /\ m.saw = door[d].saw
           \/ m.at = "consuming" /\ door[d].at = "linking" /\ m.saw = door[d].saw
    PROVE  NewsInv'
<1>1. door'[d] = m /\ \A e \in Doors \ {d} : door'[e] = door[e]
  BY DEF TInv, DoorTypes
<1>2. QED
  BY <1>1, NewsStays

LEMMA NewsOfDoors ==
    ASSUME TInv, TInv', NewsInv, UNCHANGED <<news, carried, overtaken>>, NEW d \in Doors,
           \/ Fire(d) \/ Leave(d)
           \/ Go(d, "due") /\ door[d].at = "idle"
           \/ Go(d, "checking") /\ door[d].at = "idle"
           \/ Go(d, "reading") /\ door[d].at = "vetting"
           \/ Go(d, "queueing") /\ door[d].at = "checking"
           \/ Go(d, "consuming") /\ door[d].at = "linking"
    PROVE  NewsInv'
<1>1. door \in [Doors -> Message] /\ door[d] \in Message
  BY DEF TInv, DoorTypes
<1>2. CASE Fire(d) \/ Leave(d)
  <2>1. PICK m \in Message : /\ m.at \in {"idle", "vetting"} /\ door' = [door EXCEPT ![d] = m]
                             /\ \A c \in Cards : m.saw[c] = 0
    <3>1. Rest \in Message /\ Rest.at = "idle" /\ \A c \in Cards : Rest.saw[c] = 0
      BY MessagesAre
    <3>2. /\ [Rest EXCEPT !.at = "vetting", !.pass = TRUE] \in Message
          /\ [Rest EXCEPT !.at = "vetting", !.pass = TRUE].at = "vetting"
          /\ [Rest EXCEPT !.at = "vetting", !.pass = TRUE].saw = Rest.saw
      BY DEF Rest, Message
    <3>3. QED
      BY <1>2, <3>1, <3>2 DEF Fire, Leave
  <2>2. QED
    BY <2>1, NewsGo
<1>3. ASSUME NEW p \in {"due", "reading", "checking", "queueing", "linking", "consuming"}, Go(d, p)
      PROVE  \E m \in Message : /\ m.at = p /\ m.saw = door[d].saw
                                /\ door' = [door EXCEPT ![d] = m]
  <2>1. door' = [door EXCEPT ![d] = [door[d] EXCEPT !.at = p]]
    BY <1>1, <1>3 DEF Go
  <2>2. /\ [door[d] EXCEPT !.at = p] \in Message /\ [door[d] EXCEPT !.at = p].at = p
        /\ [door[d] EXCEPT !.at = p].saw = door[d].saw
    BY <1>1 DEF Message
  <2>3. QED
    BY <2>1, <2>2
<1>4. door[d].at \in {"idle", "vetting"} => \A c \in Cards : door[d].saw[c] = 0
  BY DEF NewsInv
<1>5. QED
  BY <1>2, <1>3, <1>4, NewsGo

LEMMA NewsRaised ==
    ASSUME TInv, TInv', NewsInv, NEW b \in Cards, CardFails(b)
    PROVE  NewsInv'
<1>1. Raise(b) /\ UNCHANGED <<carried, door>>
  BY DEF CardFails
<1>2. /\ news'[b].open /\ news'[b].n = news[b].n + 1
      /\ news'[b].row = IF news[b].open THEN news[b].row ELSE news[b].n + 1
      /\ \A c \in Cards \ {b} : news'[c] = news[c]
      /\ overtaken \subseteq overtaken'
      /\ (\E d \in Doors : HasRead(d, b)) => b \in overtaken'
  BY <1>1, RaiseKeepsTypes
<1>3. \A c \in Cards : news[c].n \in Nat /\ news[c].row \in Nat /\ carried[c] \in Nat
  BY DEF TInv, BoardTypes
<1>4. \A d \in Doors, c \in Cards : door[d].saw[c] \in Nat
  BY DEF TInv, DoorTypes, Message
<1>5. NewsIsRead' /\ \A c \in Cards : carried'[c] <= news'[c].n
  BY <1>1, <1>2, <1>3 DEF NewsInv, NewsIsRead
<1>6. ASSUME NEW d \in Doors, NEW c \in Cards
      PROVE  /\ door'[d].saw[c] <= news'[c].n
             /\ door'[d].at \in {"idle", "due", "vetting", "reading"} => door'[d].saw[c] = 0
             /\ HasRead(d, c)' =>
                   \/ c \in overtaken'
                   \/ carried'[c] = news'[c].n
                   \/ door'[d].at \in {"checking", "queueing"} /\ door'[d].saw[c] = news'[c].n
  <2>1. CASE c = b
    <3>1. door[d].saw[b] <= news[b].n /\ door'[d] = door[d]
      BY <1>1 DEF NewsInv
    <3>2. HasRead(d, b)' => HasRead(d, b)
      BY <1>2, <1>3, <1>4, <3>1 DEF HasRead
    <3>3. QED
      BY <1>2, <1>3, <1>4, <2>1, <3>1, <3>2 DEF NewsInv
  <2>2. CASE c # b
    BY <1>1, <1>2, <2>2 DEF NewsInv, HasRead
  <2>3. QED
    BY <2>1, <2>2
<1>7. QED
  BY <1>5, <1>6 DEF NewsInv

LEMMA NewsReads ==
    ASSUME TInv, TInv', NewsInv, NEW e \in Doors, ReadNews(e)
    PROVE  NewsInv'
<1>1. /\ door'[e].at = "checking"
      /\ \A c \in Cards : door'[e].saw[c] = IF news[c].open THEN news[c].n ELSE 0
      /\ \A d \in Doors \ {e} : door'[d] = door[d]
  BY DEF ReadNews, TInv, DoorTypes, Message
<1>2. UNCHANGED <<news, carried, overtaken>>
  BY DEF ReadNews, board, history
<1>3. \A c \in Cards : news[c].n \in Nat /\ news[c].row \in Nat /\ (news[c].open => news[c].row > 0)
  BY DEF TInv, BoardTypes
<1>4. NewsIsRead' /\ \A c \in Cards : carried'[c] <= news'[c].n
  BY <1>2 DEF NewsInv, NewsIsRead
<1>5. ASSUME NEW d \in Doors, NEW c \in Cards
      PROVE  /\ door'[d].saw[c] <= news'[c].n
             /\ door'[d].at \in {"idle", "due", "vetting", "reading"} => door'[d].saw[c] = 0
             /\ HasRead(d, c)' =>
                   \/ c \in overtaken'
                   \/ carried'[c] = news'[c].n
                   \/ door'[d].at \in {"checking", "queueing"} /\ door'[d].saw[c] = news'[c].n
  <2>1. CASE d = e
    BY <1>1, <1>2, <1>3, <2>1 DEF HasRead
  <2>2. CASE d # e
    BY <1>1, <1>2, <2>2 DEF NewsInv, HasRead
  <2>3. QED
    BY <2>1, <2>2
<1>6. QED
  BY <1>4, <1>5 DEF NewsInv

LEMMA NewsQueues ==
    ASSUME TInv, TInv', NewsInv, NEW e \in Doors, QueueTurn(e)
    PROVE  NewsInv'
<1>1. /\ news' = news
      /\ \A d \in Doors \ {e} : door'[d] = door[d]
      /\ door[e].at = "queueing"
      /\ \/ door'[e].at = "linking" /\ door'[e].saw = door[e].saw
         \/ door'[e] = Rest
  BY DEF QueueTurn, Leave, board, TInv, DoorTypes, Message
<1>2. \A c \in Cards :
          /\ carried'[c] = IF carried[c] < door[e].saw[c] THEN door[e].saw[c] ELSE carried[c]
          /\ c \in overtaken' <=> c \in overtaken /\ door[e].saw[c] # news[c].n
  BY DEF QueueTurn, TInv, BoardTypes
<1>3. \A c \in Cards : /\ news[c].n \in Nat /\ news[c].row \in Nat /\ carried[c] \in Nat
                       /\ news[c].open => news[c].row > 0
  BY DEF TInv, BoardTypes
<1>4. \A d \in Doors, c \in Cards : door[d].saw[c] \in Nat /\ door[d].saw[c] <= news[c].n
  BY DEF TInv, DoorTypes, Message, NewsInv
<1>5. ASSUME NEW c \in Cards
      PROVE  /\ carried'[c] <= news[c].n
             /\ carried[c] = news[c].n => carried'[c] = news[c].n
             /\ door[e].saw[c] = news[c].n => carried'[c] = news[c].n
             /\ c \in overtaken => c \in overtaken' \/ carried'[c] = news[c].n
  <2>1. carried[c] <= news[c].n
    BY DEF NewsInv
  <2>2. /\ carried'[c] <= news[c].n
        /\ carried[c] = news[c].n => carried'[c] = news[c].n
        /\ door[e].saw[c] = news[c].n => carried'[c] = news[c].n
    BY <1>2, <1>3, <1>4, <2>1
  <2>3. CASE door[e].saw[c] = news[c].n
    BY <2>2, <2>3
  <2>4. CASE door[e].saw[c] # news[c].n
    BY <1>2, <2>2, <2>4
  <2>5. QED
    BY <2>3, <2>4
<1>6. NewsIsRead' /\ \A c \in Cards : carried'[c] <= news'[c].n
  BY <1>1, <1>5 DEF NewsInv, NewsIsRead
<1>7. Rest.at = "idle" /\ \A c \in Cards : Rest.saw[c] = 0
  BY MessagesAre
<1>8. ASSUME NEW d \in Doors, NEW c \in Cards
      PROVE  /\ door'[d].saw[c] <= news'[c].n
             /\ door'[d].at \in {"idle", "due", "vetting", "reading"} => door'[d].saw[c] = 0
             /\ HasRead(d, c)' =>
                   \/ c \in overtaken'
                   \/ carried'[c] = news'[c].n
                   \/ door'[d].at \in {"checking", "queueing"} /\ door'[d].saw[c] = news'[c].n
  <2>1. CASE d # e
    BY <1>1, <1>5, <2>1 DEF NewsInv, HasRead
  <2>2. CASE d = e /\ door'[e] = Rest
    <3>1. door'[d].at = "idle" /\ door'[d].saw[c] = 0 /\ news'[c] = news[c] /\ news[c].n \in Nat
      BY <1>1, <1>3, <1>7, <2>2
    <3>2. ~HasRead(d, c)'
      BY <3>1 DEF HasRead
    <3>3. QED
      BY <3>1, <3>2
  <2>3. CASE d = e /\ door'[e].at = "linking" /\ door'[e].saw = door[e].saw
    BY <1>1, <1>4, <1>5, <2>3 DEF NewsInv, HasRead
  <2>4. QED
    BY <1>1, <2>1, <2>2, <2>3
<1>9. QED
  BY <1>6, <1>8 DEF NewsInv

LEMMA NewsConsumed ==
    ASSUME TInv, TInv', NewsInv, NEW e \in Doors, Consume(e)
    PROVE  NewsInv'
<1>1. /\ UNCHANGED <<carried, overtaken>>
      /\ door[e].at = "consuming"
      /\ \A d \in Doors \ {e} : door'[d] = door[d]
      /\ door'[e] = Rest
  BY DEF Consume, Leave, history, TInv, DoorTypes
<1>2. \A c \in Cards : /\ news'[c].n = news[c].n /\ news'[c].row = news[c].row
                       /\ news'[c].open => news[c].open
                       /\ news[c].open /\ ~HasRead(e, c) => news'[c].open
  BY DEF Consume, TInv, BoardTypes
<1>3. \A c \in Cards : HasRead(e, c) => c \in overtaken \/ carried[c] = news[c].n
  BY <1>1 DEF NewsInv
<1>4. NewsIsRead' /\ \A c \in Cards : carried'[c] <= news'[c].n
  <2>1. ASSUME NEW c \in Cards
        PROVE  news'[c].open \/ carried[c] = news[c].n \/ c \in overtaken
    <3>1. CASE HasRead(e, c)
      BY <1>3, <3>1
    <3>2. CASE ~HasRead(e, c)
      BY <1>2, <3>2 DEF NewsInv, NewsIsRead
    <3>3. QED
      BY <3>1, <3>2
  <2>2. \A c \in Cards : news'[c].n = news[c].n /\ carried[c] <= news[c].n
    BY <1>2 DEF NewsInv
  <2>3. QED
    BY <1>1, <2>1, <2>2 DEF NewsIsRead
<1>5. Rest.at = "idle" /\ \A c \in Cards : Rest.saw[c] = 0 /\ news[c].n \in Nat
  BY MessagesAre DEF TInv, BoardTypes
<1>6. ASSUME NEW d \in Doors, NEW c \in Cards
      PROVE  /\ door'[d].saw[c] <= news'[c].n
             /\ door'[d].at \in {"idle", "due", "vetting", "reading"} => door'[d].saw[c] = 0
             /\ HasRead(d, c)' =>
                   \/ c \in overtaken'
                   \/ carried'[c] = news'[c].n
                   \/ door'[d].at \in {"checking", "queueing"} /\ door'[d].saw[c] = news'[c].n
  <2>1. CASE d # e
    <3>1. /\ door'[d] = door[d] /\ news'[c].n = news[c].n /\ news'[c].row = news[c].row
          /\ news'[c].open => news[c].open
      BY <1>1, <1>2, <2>1
    <3>2. HasRead(d, c)' => HasRead(d, c)
      BY <3>1 DEF HasRead
    <3>3. QED
      BY <1>1, <3>1, <3>2 DEF NewsInv
  <2>2. CASE d = e
    <3>1. /\ door'[d].at = "idle" /\ door'[d].saw[c] = 0
          /\ news'[c].n = news[c].n /\ news[c].n \in Nat
      BY <1>1, <1>2, <1>5, <2>2
    <3>2. ~HasRead(d, c)'
      BY <3>1 DEF HasRead
    <3>3. QED
      BY <3>1, <3>2
  <2>3. QED
    BY <2>1, <2>2
<1>7. QED
  BY <1>4, <1>6 DEF NewsInv

LEMMA NewsInvHolds == Spec => []NewsInv
<1>1. Init => NewsInv
  <2>1. SUFFICES ASSUME Init PROVE NewsInv
    OBVIOUS
  <2>2. \A c \in Cards : ~news[c].open /\ news[c].n = 0 /\ carried[c] = 0
    BY <2>1 DEF Init
  <2>3. \A d \in Doors, c \in Cards : door[d].saw[c] = 0
    BY <2>1, MessagesAre DEF Init
  <2>4. QED
    BY <2>2, <2>3 DEF NewsInv, NewsIsRead, HasRead
<1>2. TInv /\ TInv' /\ NewsInv /\ [Next]_vars => NewsInv'
  <2>1. SUFFICES ASSUME TInv, TInv', NewsInv, [Next]_vars PROVE NewsInv'
    OBVIOUS
  <2>2. ASSUME UNCHANGED <<news, carried, overtaken>>, door' = door PROVE NewsInv'
    BY <2>1, <2>2, NewsStays
  <2>3. CASE \E c \in Cards : StartCard(c) \/ CardEnds(c)
    BY <2>2, <2>3 DEF StartCard, CardEnds, history
  <2>4. CASE \E c \in Cards : CardFails(c)
    BY <2>1, <2>4, NewsRaised
  <2>5. CASE \E d \in People : RunNow(d) \/ Type(d)
    <3>1. PICK d \in Doors : UNCHANGED <<news, carried, overtaken>>
                               /\ (Fire(d) \/ (Go(d, "checking") /\ door[d].at = "idle"))
      BY <2>5, TickIsADoor DEF RunNow, Type, board, history
    <3>2. QED
      BY <2>1, <3>1, NewsOfDoors
  <2>6. CASE Ticks
    <3>1. UNCHANGED <<news, carried, overtaken>>
      BY <2>6 DEF Ticks, DrainWakeups, Heartbeat, TickRoutine, FireDue, board, history
    <3>2. door' = door \/ Fire(Tick) \/ (Go(Tick, "due") /\ door[Tick].at = "idle")
      BY <2>6 DEF Ticks, DrainWakeups, Heartbeat, TickRoutine, FireDue, Due
    <3>3. QED
      BY <2>1, <2>2, <3>1, <3>2, NewsOfDoors, TickIsADoor
  <2>7. CASE Time \/ Turnabout
    BY <2>2, <2>7 DEF Time, Cool, Midnight, Turnabout, board, history
  <2>8. CASE \E d \in Doors : Vet(d) \/ CheckThread(d) \/ TurnRefused(d) \/ LinkPass(d)
    BY <2>1, <2>8, NewsOfDoors DEF Vet, CheckThread, TurnRefused, LinkPass, board, history
  <2>9. CASE \E d \in Doors : ReadNews(d) \/ QueueTurn(d) \/ Consume(d)
    BY <2>1, <2>9, NewsReads, NewsQueues, NewsConsumed
  <2>10. CASE \E t \in DOMAIN turns : Claim(t) \/ End(t) \/ \E c \in Cards : CallFile(t, c)
    BY <2>2, <2>10 DEF Claim, End, CallFile, board, history
  <2>11. CASE \E k \in Calls : Calling(k)
    BY <2>2, <2>11 DEF Calling, CallStart, Ask, Refuse, Count, Record, Enqueue, CallFails, board,
                      history
  <2>12. CASE Restart
    <3>1. UNCHANGED <<news, carried, overtaken>> /\ \A d \in Doors : door'[d] = Rest
      BY <2>12 DEF Restart, history
    <3>2. QED
      BY <2>1, <3>1, NewsStays, MessagesAre
  <2>13. CASE UNCHANGED vars
    BY <2>2, <2>13 DEF vars, board, history
  <2>14. QED
    BY <2>1, <2>3, <2>4, <2>5, <2>6, <2>7, <2>8, <2>9, <2>10, <2>11, <2>12, <2>13
       DEF Next, OnItsWay
<1>3. QED
  BY <1>1, <1>2, TInvHolds, PTL DEF Spec

\* A row that reads as read was in the prompt of a turn that was queued, to its
\* last raise, unless it was raised after the pass that took it had read it: a
\* pass that is refused, or a crash at any point, marks nothing read (dispatch).
THEOREM NewsAreRead == Spec => []NewsIsRead
<1>1. NewsInv => NewsIsRead
  BY DEF NewsInv
<1>2. QED
  BY <1>1, NewsInvHolds, PTL
=============================================================================
