------------------------------ MODULE Manager ------------------------------
(***************************************************************************)
(* The project manager: a chat turn that nobody watches.  News of its      *)
(* cards is written down (wake.rs); the scheduler's tick, a person or the  *)
(* cron fires a pass (scheduler.rs, heartbeat.rs, routines.rs fire,        *)
(* dispatch, fire_chat), which reads the news, queues a turn in the        *)
(* manager's thread and marks the news read; and the turn's tool calls     *)
(* start cards, up to the pass's cap (manager.rs, mcp/chat_tools.rs).      *)
(*                                                                         *)
(* A statement is one step.  News is of one kind (each kind has rows of    *)
(* its own), which the manager asked to be woken for.  An agent that       *)
(* manages nothing, and how its heartbeat picks its next card, is left     *)
(* out, and so is the order of two live passes.                            *)
(***************************************************************************)
EXTENDS FiniteSets, Sequences, Integers

CONSTANTS
    Cards,          \* the cards of the project, those not made yet included
    FirstCards,     \* those there are at first, in the backlog
    NoCard,         \* none of them
    People,         \* bound: requests served at once
    Tick,           \* the scheduler's tick
    Calls,          \* bound: tool calls served at once
    MaxStarts,      \* routines.max_starts, clamped
    MaxEarly,       \* routines.max_passes_per_day
    MaxActs         \* bound: what people, agents and timers do, and restarts

ASSUME CardsAssumption == FirstCards \subseteq Cards /\ NoCard \notin Cards
ASSUME NamesAssumption == Tick \notin People
ASSUME CallsAssumption == IsFiniteSet(Calls)
ASSUME BoundsAssumption ==
    MaxStarts \in Nat /\ MaxEarly \in Nat \ {0} /\ MaxActs \in Nat

VARIABLES
    \* The database.
    card,           \* each card: not there, in the backlog, at work or in review
    news,           \* wakeups, by card: is a row unread, which raise inserted it,
                    \* and how many raises there have been
    able,           \* the manager's agent, engine and budget allow a pass
    cooled,         \* the cooldown since the last pass is over
    early,          \* passes fired early since midnight
    turns,          \* the runs of the thread, by age
    \* The process.
    door,           \* where each fire or typed message is
    tick,           \* what the tick does next
    call,           \* where each tool call is
    \* History.
    carried,        \* the last raise that the prompt of a queued turn carried
    overtaken,      \* cards raised again after a pass read them
    acts            \* so far, for the bound

board == <<card, news, able>>
clock == <<cooled, early>>
history == <<carried, overtaken>>
vars == <<board, clock, turns, door, tick, call, history, acts>>

Doors == People \cup {Tick}

\* A run of the thread.  pass, linked: it is a firing's, and routine_runs says
\* so; recorded: that pass's starts in manager_actions.  started, excused are
\* history: the cards its own calls started, and whether two calls of the pass
\* have been past the count at once or one was not known as the pass's.
Turn == [status : {"queued", "running", "ended"}, pass : BOOLEAN, linked : BOOLEAN,
         recorded : Nat, started : Nat, excused : BOOLEAN]

\* A message on its way to the thread: a pass's or a person's, the raise of each
\* row the pass has read (0: none), and its turn.
Message == [at : {"idle", "due", "vetting", "reading", "checking", "queueing", "linking",
                  "consuming"},
            pass : BOOLEAN, saw : [Cards -> Nat], turn : Nat]
Rest == [at |-> "idle", pass |-> FALSE, saw |-> [c \in Cards |-> 0], turn |-> 0]

\* A tool call that starts a card: whose it is, the pass it takes itself for
\* (0: none) and the card (NoCard: still to be made).
Started == [at : {"idle", "asking", "counting", "recording", "starting"},
            turn : Nat, pass : Nat, card : Cards \cup {NoCard}]
Quiet == [at |-> "idle", turn |-> 0, pass |-> 0, card |-> NoCard]

Live(t) == turns[t].status # "ended"
Busy == \E t \in DOMAIN turns : Live(t)

TypeOK ==
    /\ card \in [Cards -> {"none", "backlog", "live", "review"}]
    /\ news \in [Cards -> [open : BOOLEAN, row : Nat, n : Nat]]
    /\ \A c \in Cards : news[c].row <= news[c].n /\ (news[c].open => news[c].row > 0)
    /\ able \in BOOLEAN /\ cooled \in BOOLEAN
    /\ early \in 0 .. MaxEarly
    /\ turns \in Seq(Turn)
    /\ door \in [Doors -> Message]
    /\ \A d \in Doors :
          door[d].at \in {"linking", "consuming"} => door[d].turn \in DOMAIN turns
    /\ tick \in {"drain", "beat", "cron"}
    /\ call \in [Calls -> Started]
    /\ \A k \in Calls :
          /\ call[k].at # "idle" => call[k].turn \in DOMAIN turns
          /\ call[k].pass \in DOMAIN turns \cup {0}
          /\ call[k].at = "recording" => call[k].pass # 0
          /\ call[k].at \in {"recording", "starting"} => call[k].card \in Cards
    /\ carried \in [Cards -> Nat]
    /\ overtaken \subseteq Cards
    /\ acts \in 0 .. MaxActs

Init ==
    /\ card = [c \in Cards |-> IF c \in FirstCards THEN "backlog" ELSE "none"]
    /\ news = [c \in Cards |-> [open |-> FALSE, row |-> 0, n |-> 0]]
    /\ able = TRUE /\ cooled = TRUE /\ early = 0
    /\ turns = <<>>
    /\ door = [d \in Doors |-> Rest]
    /\ tick = "drain"
    /\ call = [k \in Calls |-> Quiet]
    /\ carried = [c \in Cards |-> 0]
    /\ overtaken = {}
    /\ acts = 0

----------------------------------------------------------------------------
(* Helpers. *)

Acts == acts < MaxActs /\ acts' = acts + 1
Go(d, p) == door' = [door EXCEPT ![d].at = p]
Leave(d) == door' = [door EXCEPT ![d] = Rest]
Step(k, p) == call' = [call EXCEPT ![k].at = p]
Quit(k) == call' = [call EXCEPT ![k] = Quiet]

\* Door d has read the row of card c that is unread now, and not let go of it.
HasRead(d, c) ==
    /\ door[d].at \in {"checking", "queueing", "linking", "consuming"}
    /\ news[c].open /\ news[c].row <= door[d].saw[c]

\* wake::raise: one unread row for a card, which further news only counts up.
Raise(c) ==
    /\ news' = [news EXCEPT ![c] =
          [open |-> TRUE, n |-> @.n + 1, row |-> IF @.open THEN @.row ELSE @.n + 1]]
    /\ overtaken' = IF \E d \in Doors : HasRead(d, c) THEN overtaken \cup {c} ELSE overtaken

----------------------------------------------------------------------------
(* The cards. *)

\* A start that is no pass's: a person's, or another agent's.
StartCard(c) ==
    /\ card[c] \in {"backlog", "review"} /\ Acts
    /\ card' = [card EXCEPT ![c] = "live"]
    /\ UNCHANGED <<news, able, clock, turns, door, tick, call, history>>

\* A run that fails is news to the manager; one that completes or is canceled
\* is not.
CardFails(c) ==
    /\ card[c] = "live"
    /\ card' = [card EXCEPT ![c] = "review"]
    /\ Raise(c)
    /\ UNCHANGED <<able, clock, turns, door, tick, call, carried, acts>>
CardEnds(c) ==
    /\ card[c] = "live"
    /\ card' = [card EXCEPT ![c] = "review"]
    /\ UNCHANGED <<news, able, clock, turns, door, tick, call, history, acts>>

----------------------------------------------------------------------------
(* What fires a pass. *)

MayWake == ~Busy /\ early < MaxEarly /\ cooled

\* routines::fire begins with the pass's row, which the cooldown and the day's
\* count of early ones go by, whatever becomes of it.
Fire(d) ==
    /\ door' = [door EXCEPT ![d] = [Rest EXCEPT !.at = "vetting", !.pass = TRUE]]
    /\ cooled' = FALSE

RunNow(d) ==
    /\ door[d].at = "idle" /\ Acts
    /\ Fire(d)
    /\ UNCHANGED <<board, early, turns, tick, call, history>>

\* A person's own message: the thread's check, and the turn.
Type(d) ==
    /\ door[d].at = "idle" /\ Acts
    /\ Go(d, "checking")
    /\ UNCHANGED <<board, clock, turns, tick, call, history>>

\* The tick fires one after the other what waits for its wakes, its heartbeat
\* and its cron, and asks may_wake for the first two, a statement earlier.
Due == Go(Tick, "due")

\* Mutant of Waits: a row that has been counted up is passed over.
WaitsOnce == \E c \in Cards : news[c].open /\ news[c].n = news[c].row
Waits == \E c \in Cards : news[c].open

DrainWakeups ==
    /\ tick = "drain" /\ door[Tick].at = "idle"
    /\ tick' = "beat"
    /\ IF Waits /\ MayWake THEN Due ELSE UNCHANGED door
    /\ UNCHANGED <<board, clock, turns, call, history, acts>>

\* The manager's heartbeat is due, and its agent active and not at work on a
\* card; or not.
Heartbeat ==
    /\ tick = "beat" /\ door[Tick].at = "idle"
    /\ tick' = "cron"
    /\ \/ Acts /\ MayWake /\ Due
       \/ UNCHANGED <<door, acts>>
    /\ UNCHANGED <<board, clock, turns, call, history>>

TickRoutine ==
    /\ tick = "cron" /\ door[Tick].at = "idle"
    /\ tick' = "drain"
    /\ \/ Acts /\ Fire(Tick)
       \/ UNCHANGED <<door, cooled, acts>>
    /\ UNCHANGED <<board, early, turns, call, history>>

FireDue ==
    /\ door[Tick].at = "due"
    /\ Fire(Tick)
    /\ early' = early + 1
    /\ UNCHANGED <<board, turns, tick, call, history, acts>>

Cool == /\ ~cooled /\ cooled' = TRUE
        /\ UNCHANGED <<board, early, turns, door, tick, call, history, acts>>
Midnight == /\ early # 0 /\ early' = 0
            /\ UNCHANGED <<board, cooled, turns, door, tick, call, history, acts>>

\* The agent is paused, the engine gone, the budget spent, or no longer.
Turnabout ==
    /\ Acts
    /\ able' = ~able
    /\ UNCHANGED <<card, news, clock, turns, door, tick, call, history>>

----------------------------------------------------------------------------
(* A pass on its way: dispatch and fire_chat. *)

Vet(d) ==
    /\ door[d].at = "vetting"
    /\ IF able THEN Go(d, "reading") ELSE Leave(d)
    /\ UNCHANGED <<board, clock, turns, tick, call, history, acts>>

ReadNews(d) ==
    /\ door[d].at = "reading"
    /\ door' = [door EXCEPT ![d].at = "checking",
          ![d].saw = [c \in Cards |-> IF news[c].open THEN news[c].n ELSE 0]]
    /\ UNCHANGED <<board, clock, turns, tick, call, history, acts>>

CheckThread(d) ==
    /\ door[d].at = "checking"
    /\ IF Busy THEN Leave(d) ELSE Go(d, "queueing")
    /\ UNCHANGED <<board, clock, turns, tick, call, history, acts>>

\* The prompt is in the thread, and the turn is queued.
NewTurn(pass) == [status |-> "queued", pass |-> pass, linked |-> FALSE,
                  recorded |-> 0, started |-> 0, excused |-> FALSE]

QueueTurn(d) ==
    /\ door[d].at = "queueing"
    /\ turns' = Append(turns, NewTurn(door[d].pass))
    /\ IF door[d].pass
       THEN door' = [door EXCEPT ![d].at = "linking", ![d].turn = Len(turns) + 1]
       ELSE Leave(d)
    /\ carried' = [c \in Cards |-> IF carried[c] < door[d].saw[c] THEN door[d].saw[c]
                                                                   ELSE carried[c]]
    /\ overtaken' = {c \in overtaken : door[d].saw[c] # news[c].n}
    /\ UNCHANGED <<board, clock, tick, call, acts>>

\* enqueue_chat_turn vets the thread's agent and engine once more.
TurnRefused(d) ==
    /\ door[d].at = "queueing" /\ ~able
    /\ Leave(d)
    /\ UNCHANGED <<board, clock, turns, tick, call, history, acts>>

LinkPass(d) ==
    /\ door[d].at = "linking"
    /\ turns' = [turns EXCEPT ![door[d].turn].linked = TRUE]
    /\ Go(d, "consuming")
    /\ UNCHANGED <<board, clock, tick, call, history, acts>>

\* Mutant of Consume: whatever is unread, not what was read.
ConsumeAll(d) ==
    /\ door[d].at = "consuming"
    /\ news' = [c \in Cards |-> [news[c] EXCEPT !.open = FALSE]]
    /\ Leave(d)
    /\ UNCHANGED <<card, able, clock, turns, tick, call, history, acts>>

\* The rows that were read, by their ids, whatever they say by now.
Consume(d) ==
    /\ door[d].at = "consuming"
    /\ news' = [c \in Cards |-> [news[c] EXCEPT !.open = @ /\ ~HasRead(d, c)]]
    /\ Leave(d)
    /\ UNCHANGED <<card, able, clock, turns, tick, call, history, acts>>

----------------------------------------------------------------------------
(* The turns, and what they call. *)

Claim(t) ==
    /\ turns[t].status = "queued"
    /\ turns' = [turns EXCEPT ![t].status = "running"]
    /\ UNCHANGED <<board, clock, door, tick, call, history, acts>>
End(t) ==
    /\ Live(t)
    /\ turns' = [turns EXCEPT ![t].status = "ended"]
    /\ UNCHANGED <<board, clock, door, tick, call, history, acts>>

\* start_task on a card there is, or create_task with start (NoCard).
CallStart(k, t, c) ==
    /\ call[k].at = "idle" /\ turns[t].status = "running" /\ Acts
    /\ c # NoCard => card[c] # "none"
    /\ call' = [call EXCEPT ![k] = [Quiet EXCEPT !.at = "asking", !.turn = t, !.card = c]]
    /\ UNCHANGED <<board, clock, turns, door, tick, history>>

\* create_task without start: the cap is not asked.
CallFile(t, c) ==
    /\ turns[t].status = "running" /\ card[c] = "none" /\ Acts
    /\ card' = [card EXCEPT ![c] = "backlog"]
    /\ UNCHANGED <<news, able, clock, turns, door, tick, call, history>>

\* manager::pass_for_chat: a pass of the thread with a live run, the call's or not.
Passes == {t \in DOMAIN turns : Live(t) /\ turns[t].pass /\ turns[t].linked}

Ask(k) ==
    /\ call[k].at = "asking"
    /\ \E p \in IF Passes = {} THEN {0} ELSE Passes :
          /\ call' = [call EXCEPT ![k].at = "counting", ![k].pass = p]
          /\ turns' = [turns EXCEPT ![call[k].turn].excused = @ \/ p # call[k].turn]
    /\ UNCHANGED <<board, clock, door, tick, history, acts>>

\* vet_manager_start, and create_task's card once it has let it through.
\* Mutant of Room: the last start is counted after the look.
RoomForOne(p) == turns[p].recorded <= MaxStarts
Room(p) == turns[p].recorded < MaxStarts
Refuse(k) ==
    /\ call[k].at = "counting" /\ call[k].pass # 0 /\ ~Room(call[k].pass)
    /\ Quit(k)
    /\ UNCHANGED <<board, clock, turns, door, tick, history, acts>>

Count(k) ==
    LET p == call[k].pass
        made == {c \in Cards : IF call[k].card = NoCard THEN card[c] = "none"
                                                        ELSE c = call[k].card}
    IN  /\ call[k].at = "counting" /\ (p # 0 => Room(p))
        /\ \E c \in made :
              /\ card' = [card EXCEPT ![c] = IF @ = "none" THEN "backlog" ELSE @]
              /\ call' = [call EXCEPT ![k].at = IF p = 0 THEN "starting" ELSE "recording",
                                      ![k].card = c]
        /\ turns' = IF \E j \in Calls : call[j].at = "recording" /\ call[j].pass = p
                    THEN [turns EXCEPT ![p].excused = TRUE] ELSE turns
        /\ UNCHANGED <<news, able, clock, door, tick, history, acts>>

\* manager::record_start.
Record(k) ==
    /\ call[k].at = "recording"
    /\ turns' = [turns EXCEPT ![call[k].pass].recorded = @ + 1]
    /\ Step(k, "starting")
    /\ UNCHANGED <<board, clock, door, tick, history, acts>>

Enqueue(k) ==
    /\ call[k].at = "starting" /\ card[call[k].card] # "live"
    /\ card' = [card EXCEPT ![call[k].card] = "live"]
    /\ turns' = [turns EXCEPT ![call[k].turn].started = @ + 1]
    /\ Quit(k)
    /\ UNCHANGED <<news, able, clock, door, tick, history, acts>>

\* The card is refused for what it is, by the pass, by the vet that comes before
\* the record or by enqueue_task; and a handler is dropped with its turn.
CallFails(k) ==
    /\ call[k].at # "idle"
    /\ call[k].at \in {"counting", "recording", "starting"} \/ ~Live(call[k].turn)
    /\ Quit(k)
    /\ UNCHANGED <<board, clock, turns, door, tick, history, acts>>

----------------------------------------------------------------------------

\* The server goes and comes back.  recover_orphans fails what was running and
\* says nothing to the manager; what was queued still is.
Restart ==
    /\ Acts
    /\ door' = [d \in Doors |-> Rest]
    /\ call' = [k \in Calls |-> Quiet]
    /\ tick' = "drain"
    /\ turns' = [t \in DOMAIN turns |->
          IF turns[t].status = "running" THEN [turns[t] EXCEPT !.status = "ended"] ELSE turns[t]]
    /\ \E lost \in SUBSET {c \in Cards : card[c] = "live"} :
          card' = [c \in Cards |-> IF c \in lost THEN "review" ELSE card[c]]
    /\ UNCHANGED <<news, able, clock, history>>

OnItsWay(d) ==
    \/ Vet(d) \/ ReadNews(d) \/ CheckThread(d)
    \/ QueueTurn(d) \/ TurnRefused(d) \/ LinkPass(d) \/ Consume(d)

Time == Cool \/ Midnight
Ticks == DrainWakeups \/ Heartbeat \/ TickRoutine \/ FireDue

Calling(k) ==
    \/ \E t \in DOMAIN turns, c \in Cards \cup {NoCard} : CallStart(k, t, c)
    \/ Ask(k) \/ Refuse(k) \/ Count(k) \/ Record(k) \/ Enqueue(k) \/ CallFails(k)

Next ==
    \/ \E c \in Cards : StartCard(c) \/ CardFails(c) \/ CardEnds(c)
    \/ \E d \in People : RunNow(d) \/ Type(d)
    \/ Ticks \/ Time \/ Turnabout
    \/ \E d \in Doors : OnItsWay(d)
    \/ \E t \in DOMAIN turns : Claim(t) \/ End(t) \/ \E c \in Cards : CallFile(t, c)
    \/ \E k \in Calls : Calling(k)
    \/ Restart

Spec == Init /\ [][Next]_vars

\* The tick comes round and its pass goes on, time passes, and a turn ends.
Fairness ==
    /\ WF_vars(Ticks \/ OnItsWay(Tick))
    /\ WF_vars(Time)
    /\ WF_vars(\E t \in DOMAIN turns : End(t))
FairSpec == Spec /\ Fairness

----------------------------------------------------------------------------
(* What is asked of it. *)

\* A pass starts no more cards than its cap, unless two of its calls were past
\* the count at once, or one looked before the pass was linked, or with another
\* live (vet_manager_start, record_start, pass_for_chat).
CapKept ==
    \A t \in DOMAIN turns : turns[t].pass /\ ~turns[t].excused => turns[t].started <= MaxStarts

\* What reads as read was in the prompt of a turn that was queued, to the last
\* raise, unless it was raised again after the pass that took it had read it
\* (dispatch's comment: read once, consumed only if the turn queued).
NewsIsRead ==
    \A c \in Cards : news[c].open \/ carried[c] = news[c].n \/ c \in overtaken

\* News is not left lying: a manager that may wake comes to it, whatever the
\* thread, the cooldown and the day's count say at first (drain_wakeups).
NewsIsHeard == \A c \in Cards : news[c].open ~> ~news[c].open \/ ~able

\* The thread has one live turn (fire_chat: a second one would race on the chat's
\* session).  The code does not keep this: the look and the queueing are apart.
OneTurn == \A s, t \in DOMAIN turns : Live(s) /\ Live(t) => s = t

\* The cap is a hard limit (manager.rs, pass_prompt).  The code does not keep
\* this: calls in parallel, and calls before the link, are past it.
CapIsHard == \A t \in DOMAIN turns : turns[t].pass => turns[t].started <= MaxStarts

\* News that reads as read was read (dispatch's comment).  The code does not
\* keep this: the row's id does not say how often it has been raised.
EveryWordIsRead == \A c \in Cards : news[c].open \/ carried[c] = news[c].n
=============================================================================
