------------------------------- MODULE Claims -------------------------------
(***************************************************************************)
(* Who leaves the queue, and when: claim_next vets the next run in line    *)
(* against its agent's limits (agents.rs) and the budgets that cover it    *)
(* (budgets.rs), holds it or hands it out; people edit, override and       *)
(* remove budgets, and runs are counted, end, come back from a rate limit  *)
(* or are canceled meanwhile.                                              *)
(*                                                                         *)
(* A statement is one step, but for the three reads of one policy's        *)
(* standing (its window, its usage, its overrides), for the two of         *)
(* hold_rate_limited, which RunLifecycle takes apart, and for the finish   *)
(* of a run that was executing.  A budget caps runs: dollars and tokens,   *)
(* which a run reports as it goes, are compared in the same way and are    *)
(* left out, and so are reads that fail (they let the run through), the    *)
(* warnings, team runs (their members are asked in work_phase), and the    *)
(* slots (see Slots).  Which of the rows that are ready comes first is     *)
(* left open: priorities and ages only order them.                         *)
(***************************************************************************)
EXTENDS FiniteSets, Integers

CONSTANTS
    Runs,           \* the runs there may be
    NoRun,          \* none of them
    Policies,       \* the budgets
    NoPolicy,       \* none of them
    Covers,         \* the budgets whose scope each run is in
    Today,          \* the agents' calendar: every budget has a window of its own
    Limited,        \* the runs of the agent that has limits
    AtOnce,         \* agents.max_concurrent
    MaxDaily,       \* agents.max_daily_runs
    MaxCap,         \* bound: of a budget's cap_runs
    MaxActs         \* bound: what people and engines do, and restarts

ASSUME RunsAssumption == IsFiniteSet(Runs) /\ NoRun \notin Runs
ASSUME PoliciesAssumption ==
    /\ NoPolicy \notin Policies /\ Today \notin Policies
    /\ {"none", "ready", "later"} \cap (Policies \cup {Today}) = {}
ASSUME CoversAssumption == Covers \in [Runs -> SUBSET Policies]
ASSUME AgentLimitsAssumption ==
    Limited \subseteq Runs /\ AtOnce \in Nat \ {0} /\ MaxDaily \in Nat \ {0}
ASSUME BoundsAssumption == MaxCap \in Nat \ {0} /\ MaxActs \in Nat

VARIABLES
    \* The runs and their queue rows.
    status,         \* runs.status, as far as the queue tells it apart
    row,            \* no row, ready, or not before: later, or the end of a window
    held,           \* queue.held_by
    stamped,        \* the runs whose started_at is set
    today,          \* the agent's, those stamped today
    recent,         \* by budget: the stamped runs whose last event is in its window
    rested,         \* the agent's cooldown since its last run is over
    \* The budgets and the agent's limits.
    cap,            \* cap_runs of an enabled policy; 0: it caps nothing
    gone,           \* the policies deleted
    credit,         \* overrides of this window
    limits,         \* the agent has limits
    \* The process.
    loop,           \* where run_loop's claim is
    taken,          \* runs handed out, not executed yet
    closing,        \* runs whose cancel has written them, and waits to commit
    hand,           \* the person's request that changes a budget
    \* History.
    begun,          \* by budget: first claims stamped in its window
    most,           \* and how many there may be
    lost,           \* runs held at a window no release will come for any more
    back,           \* runs claimed while they read rate_limited
    acts            \* so far, for the bound

runRows == <<status, row, held>>
counts == <<stamped, today, recent, rested>>
budgets == <<cap, gone, credit, limits>>
process == <<loop, taken, closing, hand>>
history == <<begun, most, lost, back>>
claimsVars == <<runRows, counts, budgets, process, history, acts>>

Clocks == Policies \cup {Today}
Times == {"ready", "later"} \cup Clocks
None == [p \in Policies |-> 0]

\* The claim: its run, the caps it has read and not asked yet, what it holds
\* the run for and until when, and the windows that have not turned since it
\* began.
Idle == [at |-> "idle", run |-> NoRun, read |-> None, over |-> NoPolicy, until |-> "ready",
         fresh |-> {}]
Nothing == [at |-> "idle", policy |-> NoPolicy]

Loops ==
    [at : {"idle", "heading", "picked", "limiting", "reading", "asking", "holding"},
     run : Runs \cup {NoRun}, read : [Policies -> 0 .. MaxCap],
     over : Policies \cup {NoPolicy}, until : Times, fresh : SUBSET Clocks]

ClaimsTypeOK ==
    /\ status \in [Runs -> {"queued", "starting", "rate_limited", "ended"}]
    /\ row \in [Runs -> {"none"} \cup Times]
    /\ held \in [Runs -> Policies \cup {NoPolicy}]
    /\ \A r \in Runs : held[r] # NoPolicy => row[r] # "none" /\ held[r] \notin gone
    /\ stamped \subseteq Runs /\ today \subseteq Limited /\ rested \in BOOLEAN
    /\ recent \in [Policies -> SUBSET stamped]
    /\ cap \in [Policies -> 0 .. MaxCap]
    /\ gone \subseteq Policies /\ \A p \in gone : cap[p] = 0
    /\ credit \in [Policies -> Nat]
    /\ limits \in BOOLEAN
    /\ loop \in Loops
    /\ loop.at \notin {"idle", "heading"} => loop.run \in Runs /\ row[loop.run] = "ready"
    /\ taken \subseteq Runs
    /\ \A r \in taken : row[r] = "none" /\ status[r] # "starting"
    /\ closing \subseteq Runs
    /\ hand \in [at : {"idle", "releasing", "deleting"}, policy : Policies \cup {NoPolicy}]
    /\ hand.at # "idle" => hand.policy \in Policies
    /\ begun \in [Policies -> Nat] /\ most \in [Policies -> Nat]
    /\ lost \subseteq Runs /\ back \subseteq Runs
    /\ acts \in 0 .. MaxActs

\* All runs are queued; one that comes later is one that is picked later.  The
\* door's own look at the budgets, statements before, only refuses.
ClaimsInit ==
    /\ status = [r \in Runs |-> "queued"]
    /\ row = [r \in Runs |-> "ready"]
    /\ held = [r \in Runs |-> NoPolicy]
    /\ stamped = {} /\ today = {} /\ rested = TRUE
    /\ recent = [p \in Policies |-> {}]
    /\ cap \in [Policies -> 0 .. 1]
    /\ gone = {}
    /\ credit = None
    /\ limits = TRUE
    /\ loop = Idle /\ taken = {} /\ closing = {} /\ hand = Nothing
    /\ begun = None /\ most = cap
    /\ lost = {} /\ back = {}
    /\ acts = 0

----------------------------------------------------------------------------
(* What is counted. *)

Acts == acts < MaxActs /\ acts' = acts + 1
Least(n) == IF n < 0 THEN 0 ELSE n
Greater(m, n) == IF m < n THEN n ELSE m

\* usage: what the window has counted, net of overrides.
Used(p) == Least(Cardinality(recent[p]) - credit[p])

\* check_claim: a run stamped before counts one less.
Standing(p, r) == IF r \in stamped THEN Least(Used(p) - 1) ELSE Used(p)

Spent(p, r) == cap[p] > 0 /\ Standing(p, r) >= cap[p]

\* Mutant of Working: what waits in the queue is thought to be at work.
WorkingOrQueued(r) ==
    {q \in Limited \ {r} : status[q] \in {"starting", "queued"}}

\* Mutant of Working: what was claimed a moment ago is not seen.
WorkingNow(r) == {q \in Limited \ {r} : status[q] = "starting"}

\* load_of: the agent's other runs that execute, or were claimed a moment ago
\* (stamped, without a row and still queued).
Working(r) ==
    {q \in Limited \ {r} : \/ status[q] = "starting"
                           \/ status[q] = "queued" /\ q \in stamped /\ row[q] = "none"}

\* wait_for: how long its agent makes a run wait, "ready" if it does not.
WaitFor(r) ==
    IF ~limits \/ r \notin Limited THEN "ready"
    ELSE IF Cardinality(today \ {r}) >= MaxDaily THEN Today
    ELSE IF Cardinality(Working(r)) >= AtOnce \/ ~rested THEN "later"
    ELSE "ready"

----------------------------------------------------------------------------
(* run_loop's claim. *)

Locked(r) == loop.run = r
Rested == loop' = Idle

\* The fast path's question: is there any budget on, or any limit?
Gate ==
    /\ loop.at = "idle"
    /\ ~limits /\ \A p \in Policies : cap[p] = 0
    /\ loop' = [Idle EXCEPT !.at = "heading"]
    /\ UNCHANGED <<runRows, counts, budgets, taken, closing, hand, history, acts>>

\* A candidate, its row locked; the transaction's now() is this moment.
Pick(r) ==
    /\ loop.at = "idle"
    /\ limits \/ \E p \in Policies : cap[p] > 0
    /\ row[r] = "ready"
    /\ loop' = [Idle EXCEPT !.at = "picked", !.run = r, !.fresh = Clocks]
    /\ lost' = lost \ {r}
    /\ UNCHANGED <<runRows, counts, budgets, taken, closing, hand, begun, most, back, acts>>

\* hold_for_limits.
AskLimits ==
    /\ loop.at = "picked"
    /\ loop' = LET until == WaitFor(loop.run)
               IN [loop EXCEPT !.at = IF until = "ready" THEN "reading" ELSE "limiting",
                               !.until = until]
    /\ UNCHANGED <<runRows, counts, budgets, taken, closing, hand, history, acts>>

\* Over a limit, the run waits its turn.
HoldForLimits ==
    /\ loop.at = "limiting"
    /\ row' = [row EXCEPT ![loop.run] = loop.until]
    /\ held' = [held EXCEPT ![loop.run] = NoPolicy]
    /\ Rested
    /\ UNCHANGED <<status, counts, budgets, taken, closing, hand, history, acts>>

\* policies_for: the enabled budgets that cover the run, as they are now.
ReadPolicies ==
    /\ loop.at = "reading"
    /\ loop' = [loop EXCEPT !.at = "asking",
          !.read = [p \in Policies |-> IF p \in Covers[loop.run] THEN cap[p] ELSE 0]]
    /\ UNCHANGED <<runRows, counts, budgets, taken, closing, hand, history, acts>>

\* standing and evaluate, one budget at a time; the first that is spent holds
\* the run until its window turns.
AskPolicy(p) ==
    /\ loop.at = "asking" /\ loop.read[p] > 0
    /\ loop' = IF Standing(p, loop.run) >= loop.read[p]
               THEN [loop EXCEPT !.at = "holding", !.over = p, !.until = p, !.read = None]
               ELSE [loop EXCEPT !.read[p] = 0]
    /\ UNCHANGED <<runRows, counts, budgets, taken, closing, hand, history, acts>>

\* The hold, which a budget deleted meanwhile makes fail: held_by refers to it.
Hold ==
    /\ loop.at = "holding"
    /\ IF loop.over \in gone THEN UNCHANGED <<row, held>>
       ELSE /\ row' = [row EXCEPT ![loop.run] = loop.until]
            /\ held' = [held EXCEPT ![loop.run] = loop.over]
    /\ Rested
    /\ UNCHANGED <<status, counts, budgets, taken, closing, hand, history, acts>>

\* The row goes and the run is handed out, whatever it reads.
TakeRow(r) ==
    /\ row' = [row EXCEPT ![r] = "none"]
    /\ held' = [held EXCEPT ![r] = NoPolicy]
    /\ taken' = taken \cup {r}
    /\ back' = IF status[r] = "rate_limited" THEN back \cup {r} ELSE back
    /\ lost' = lost \ {r}
    /\ Rested

\* Mutant of Stamp: only the process that starts is counted.
StampNothing(r, at) ==
    /\ begun' = [p \in Policies |->
          begun[p] + IF status[r] = "queued" /\ r \notin stamped /\ p \in at \cap Covers[r]
                     THEN 1 ELSE 0]
    /\ UNCHANGED <<stamped, today, recent>>

\* started_at = COALESCE(started_at, now()) of a run still queued, where now()
\* falls in the windows "at".
Stamp(r, at) ==
    IF status[r] = "queued" /\ r \notin stamped
    THEN /\ stamped' = stamped \cup {r}
         /\ today' = IF Today \in at /\ r \in Limited THEN today \cup {r} ELSE today
         /\ recent' = [p \in Policies |->
               IF p \in at \cap Covers[r] THEN recent[p] \cup {r} ELSE recent[p]]
         /\ begun' = [p \in Policies |->
               IF p \in at \cap Covers[r] THEN begun[p] + 1 ELSE begun[p]]
    ELSE UNCHANGED <<stamped, today, recent, begun>>

\* A cancel has written the run, and its transaction is open: the stamp waits
\* for it, and it waits for the row.
Contended(r) == r \in closing /\ status[r] = "queued"

\* Mutant of Claim: the row stays until the run ends.
ClaimKeepsRow ==
    /\ loop.at = "asking" /\ loop.read = None
    /\ ~Contended(loop.run)
    /\ taken' = taken \cup {loop.run}
    /\ back' = IF status[loop.run] = "rate_limited" THEN back \cup {loop.run} ELSE back
    /\ Stamp(loop.run, loop.fresh) /\ Rested
    /\ UNCHANGED <<runRows, rested, budgets, closing, hand, most, lost, acts>>

\* Every budget has room.
Claim ==
    /\ loop.at = "asking" /\ loop.read = None
    /\ ~Contended(loop.run)
    /\ TakeRow(loop.run) /\ Stamp(loop.run, loop.fresh)
    /\ UNCHANGED <<status, rested, budgets, closing, hand, most, acts>>

\* claim_head: nothing to vet; the row goes and the run is stamped in one
\* statement.
ClaimHead(r) ==
    /\ loop.at = "heading"
    /\ row[r] = "ready" /\ ~Contended(r)
    /\ TakeRow(r) /\ Stamp(r, Clocks)
    /\ UNCHANGED <<status, rested, budgets, closing, hand, most, acts>>

HeadEmpty ==
    /\ loop.at = "heading"
    /\ \A r \in Runs : row[r] # "ready"
    /\ Rested
    /\ UNCHANGED <<runRows, counts, budgets, taken, closing, hand, history, acts>>

\* The two wait for each other, and Postgres aborts one of them.
Deadlock(r, cancelFails) ==
    /\ Contended(r)
    /\ \/ loop.at = "heading" /\ row[r] = "ready"
       \/ loop.at = "asking" /\ loop.read = None /\ loop.run = r
    /\ IF cancelFails THEN closing' = closing \ {r} /\ UNCHANGED loop
                      ELSE Rested /\ UNCHANGED closing
    /\ UNCHANGED <<runRows, counts, budgets, taken, hand, history, acts>>

----------------------------------------------------------------------------
(* The runs. *)

\* execute: the check is the write, and it waits for a cancel.
Execute(r) ==
    /\ r \in taken \ closing
    /\ taken' = taken \ {r}
    /\ status' = [status EXCEPT ![r] = IF @ \in {"queued", "rate_limited"} THEN "starting" ELSE @]
    /\ UNCHANGED <<row, held, counts, budgets, loop, closing, hand, history, acts>>

\* finish: the ending, and the row goes with it.
Ends(r) ==
    /\ status' = [status EXCEPT ![r] = "ended"]
    /\ row' = [row EXCEPT ![r] = "none"]
    /\ held' = [held EXCEPT ![r] = NoPolicy]
    /\ recent' = [p \in Policies |->
          IF r \in stamped /\ p \in Covers[r] THEN recent[p] \cup {r} ELSE recent[p]]
    /\ rested' = (rested /\ r \notin Limited)
    /\ lost' = lost \ {r} /\ back' = back \ {r}
    /\ UNCHANGED <<stamped, today>>

FinishRun(r) ==
    /\ status[r] = "starting"
    /\ Ends(r)
    /\ UNCHANGED <<budgets, process, begun, most, acts>>

\* hold_rate_limited: the run comes back.
RateLimited(r) ==
    /\ status[r] = "starting" /\ Acts
    /\ status' = [status EXCEPT ![r] = "rate_limited"]
    /\ row' = [row EXCEPT ![r] = "later"]
    /\ UNCHANGED <<held, counts, budgets, process, history>>

\* A cancel of a run that nothing executes: finish writes the run ...
Cancel(r) ==
    /\ status[r] \in {"queued", "rate_limited"} /\ r \notin closing /\ Acts
    /\ closing' = closing \cup {r}
    /\ UNCHANGED <<runRows, counts, budgets, loop, taken, hand, history>>

\* ... and then the row, which a claim may hold; a run that execute has moved
\* on is left to it.
CancelEnds(r) ==
    /\ r \in closing /\ ~Locked(r)
    /\ closing' = closing \ {r}
    /\ Ends(r)
    /\ UNCHANGED <<budgets, loop, taken, hand, begun, most, acts>>

\* A backoff, half a minute or a rest has passed.
Ripen(r) ==
    /\ row[r] = "later"
    /\ row' = [row EXCEPT ![r] = "ready"]
    /\ UNCHANGED <<status, held, counts, budgets, process, history, acts>>

Recovers ==
    /\ ~rested
    /\ rested' = TRUE
    /\ UNCHANGED <<runRows, stamped, today, recent, budgets, process, history, acts>>

\* A window turns, or the day: what waited for it is ready, its count and its
\* overrides are another window's.
Turn(k) ==
    /\ row' = [r \in Runs |-> IF row[r] = k THEN "ready" ELSE row[r]]
    /\ loop' = [loop EXCEPT !.fresh = @ \ {k}, !.until = IF @ = k THEN "ready" ELSE @]
    /\ today' = IF k = Today THEN {} ELSE today
    /\ recent' = [p \in Policies |-> IF p = k THEN {} ELSE recent[p]]
    /\ credit' = [p \in Policies |-> IF p = k THEN 0 ELSE credit[p]]
    /\ begun' = [p \in Policies |-> IF p = k THEN 0 ELSE begun[p]]
    /\ most' = [p \in Policies |-> IF p = k THEN cap[p] ELSE most[p]]
    /\ UNCHANGED <<status, held, stamped, rested, cap, gone, limits, taken, closing, hand, lost,
                   back, acts>>

----------------------------------------------------------------------------
(* The person who changes a budget. *)

\* A claim that has passed its reads, or needs none, may still be handed out.
Underway == IF loop.at \in {"heading", "asking"} THEN 1 ELSE 0

\* Mutant of Edit: what the budget held goes on waiting.
EditReleasesNothing(p, c) ==
    /\ hand.at = "idle" /\ p \notin gone /\ c # cap[p] /\ Acts
    /\ cap' = [cap EXCEPT ![p] = c]
    /\ most' = [most EXCEPT ![p] = IF c = 0 THEN 0 ELSE Greater(begun[p] + Underway, c + credit[p])]
    /\ UNCHANGED <<runRows, counts, gone, credit, limits, process, begun, lost, back>>

\* update, set_daily_cap: another cap, on or off; and create, which has
\* nothing to release.
Edit(p, c) ==
    /\ hand.at = "idle" /\ p \notin gone /\ c # cap[p] /\ Acts
    /\ cap' = [cap EXCEPT ![p] = c]
    /\ hand' = [at |-> "releasing", policy |-> p]
    /\ most' = [most EXCEPT ![p] = IF c = 0 THEN 0 ELSE Greater(begun[p] + Underway, c + credit[p])]
    /\ UNCHANGED <<runRows, counts, gone, credit, limits, loop, taken, closing, begun, lost, back>>

\* override_budget: more room for this window only.
Override(p) ==
    /\ hand.at = "idle" /\ p \notin gone /\ Acts
    /\ credit' = [credit EXCEPT ![p] = @ + 1]
    /\ hand' = [at |-> "releasing", policy |-> p]
    /\ most' = [most EXCEPT ![p] = IF cap[p] = 0 THEN 0 ELSE Greater(@, cap[p] + credit[p] + 1)]
    /\ UNCHANGED <<runRows, counts, cap, gone, limits, loop, taken, closing, begun, lost, back>>

\* The claim has judged its run by what policy p was before.
Overtakes(p) ==
    \/ loop.at = "asking" /\ loop.read[p] > 0
    \/ loop.at = "holding" /\ loop.over = p

\* release_held lets go of what the policy holds; a row that is held again at
\* this moment is locked, and one that is held for the first time not found.
Released(p) ==
    /\ \A r \in Runs : held[r] = p => ~Locked(r)
    /\ row' = [r \in Runs |-> IF held[r] = p THEN "ready" ELSE row[r]]
    /\ held' = [r \in Runs |-> IF held[r] = p THEN NoPolicy ELSE held[r]]
    /\ lost' = IF Overtakes(p) THEN lost \cup {loop.run} ELSE lost

Release ==
    /\ hand.at = "releasing"
    /\ Released(hand.policy)
    /\ hand' = Nothing
    /\ UNCHANGED <<status, counts, budgets, loop, taken, closing, begun, most, back, acts>>

\* remove, set_daily_cap(None): release first ...
Remove(p) ==
    /\ hand.at = "idle" /\ p \notin gone /\ Acts
    /\ Released(p)
    /\ hand' = [at |-> "deleting", policy |-> p]
    /\ UNCHANGED <<status, counts, budgets, loop, taken, closing, begun, most, back>>

\* ... and delete after.  What has been held again since keeps its time, and
\* nobody's name.
Delete ==
    /\ hand.at = "deleting"
    /\ \A r \in Runs : held[r] = hand.policy => ~Locked(r)
    /\ gone' = gone \cup {hand.policy}
    /\ cap' = [cap EXCEPT ![hand.policy] = 0]
    /\ credit' = [credit EXCEPT ![hand.policy] = 0]
    /\ held' = [r \in Runs |-> IF held[r] = hand.policy THEN NoPolicy ELSE held[r]]
    /\ lost' = lost \cup {r \in Runs : held[r] = hand.policy}
    /\ hand' = Nothing
    /\ UNCHANGED <<status, row, counts, limits, loop, taken, closing, begun, most, back, acts>>

\* The agent's limits are taken off; nothing is released.
Lift ==
    /\ limits /\ Acts
    /\ limits' = FALSE
    /\ UNCHANGED <<runRows, counts, cap, gone, credit, process, history>>

\* The server goes and comes back.  Open transactions are undone, a release
\* not yet made is forgotten, and recover_orphans fails what was working and
\* queues again what was handed out.
ClaimsRestart ==
    /\ Acts
    /\ loop' = Idle /\ taken' = {} /\ closing' = {} /\ hand' = Nothing
    /\ status' = [r \in Runs |-> IF status[r] = "starting" THEN "ended" ELSE status[r]]
    /\ row' = [r \in Runs |-> IF r \notin taken THEN row[r]
                              ELSE CASE status[r] = "queued" -> "ready"
                                     [] status[r] = "rate_limited" -> "later"
                                     [] OTHER -> "none"]
    /\ recent' = [p \in Policies |-> recent[p] \cup
                     {r \in stamped : status[r] = "starting" /\ p \in Covers[r]}]
    /\ rested' = (rested /\ \A r \in Limited : status[r] # "starting")
    /\ lost' = IF hand.at = "releasing" THEN lost \cup {r \in Runs : held[r] = hand.policy}
               ELSE lost
    /\ back' = {r \in back : status[r] # "starting"}
    /\ UNCHANGED <<held, stamped, today, budgets, begun, most>>

----------------------------------------------------------------------------

ClaimStep ==
    \/ Gate \/ AskLimits \/ HoldForLimits \/ ReadPolicies \/ Hold \/ Claim \/ HeadEmpty
    \/ \E p \in Policies : AskPolicy(p)
    \/ \E r \in Runs : ClaimHead(r)
    \/ \E r \in Runs, cancelFails \in BOOLEAN : Deadlock(r, cancelFails)

RunStep(r) == Execute(r) \/ FinishRun(r) \/ Ripen(r)

ClaimsNext ==
    \/ ClaimStep
    \/ \E r \in Runs : Pick(r)
    \/ \E r \in Runs : RunStep(r)
    \/ \E r \in Runs : RateLimited(r) \/ Cancel(r) \/ CancelEnds(r)
    \/ Recovers
    \/ \E k \in Clocks : Turn(k)
    \/ \E p \in Policies : (\E c \in 0 .. MaxCap : Edit(p, c)) \/ Override(p) \/ Remove(p)
    \/ Release \/ Delete
    \/ Lift
    \/ ClaimsRestart

ClaimsSpec == ClaimsInit /\ [][ClaimsNext]_claimsVars

\* Time passes, runs end, statements return, and a lock goes to who waits for
\* it.  A pass asks up to eight candidates, each held or handed out before the
\* next: with fewer runs none that is ready is passed over for ever.  Of people
\* nothing is expected, not even the second half of what they asked for.
ClaimsFairness ==
    /\ WF_claimsVars(ClaimStep)
    /\ \A r \in Runs : SF_claimsVars(Pick(r)) /\ SF_claimsVars(CancelEnds(r))
    /\ \A r \in Runs : WF_claimsVars(RunStep(r))
    /\ WF_claimsVars(Recovers)
    /\ \A k \in Clocks : WF_claimsVars(Turn(k))

ClaimsFairSpec == ClaimsSpec /\ ClaimsFairness

----------------------------------------------------------------------------

(* What is asked of it. *)

\* A budget of so many runs lets no more begin in its window than it has had
\* room for, overrides included, whatever is edited, canceled or restarted
\* between the claim's look and its stamp (claim_next: "Counted from this
\* moment, not from when its process starts").
CapKept == \A p \in Policies : cap[p] > 0 => begun[p] <= most[p]

\* A run waits for a window's end only while the budget is spent, or its
\* release is still to come (release_held, check_claim).  `lost` excepts what
\* the code never releases: a run whose budget was released or went between
\* the claim's look and its hold, and one held when a restart came between an
\* edit and the release that follows it.  Every other edit, override, cancel,
\* deletion and turn of the window lets go of what it held.
HeldIsSpent ==
    \A r \in Runs : row[r] \in Policies =>
        \/ Spent(row[r], r)
        \/ r \in lost
        \/ hand.at = "releasing" /\ hand.policy = row[r]

\* The same whatever overtakes what: "the queue should ask it again rather
\* than wait out the window" (release_held's comment).  The code does not keep
\* this: a release finds no hold that is about to be written.
ReleaseIsHeard ==
    \A r \in Runs : row[r] \in Policies /\ hand.at = "idle" => Spent(row[r], r)

ActiveRuns ==
    {r \in Limited \ back : status[r] = "starting" \/ (r \in taken /\ status[r] = "queued")}

\* The agent's limits: as many runs a day as it may begin, and at once no more
\* than it may do, except runs back from a rate limit, which nobody sees
\* between their claim and their start (agents.rs load_of).
LimitsKept == limits => Cardinality(today) <= MaxDaily /\ Cardinality(ActiveRuns) <= AtOnce

\* Without the exception.  The code does not keep this.
AtOnceKept ==
    limits => Cardinality({r \in Limited : status[r] = "starting"}) <= AtOnce

\* A row leaves the queue in the end, its run handed out or canceled, however
\* its holds follow on one another (claim_next, recover_orphans).
EveryRowLeaves == \A r \in Runs : []<>(row[r] = "none")
=============================================================================
