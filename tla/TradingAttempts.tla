-------------------------- MODULE TradingAttempts --------------------------
(***************************************************************************)
(* Positions and attempts of the paper plane under the trading coordinator  *)
(* (trading_coordinator.py, paper_plane.py, paper_shadow_commands.py), in   *)
(* SHADOW mode.  An attempt is committed before its request is sent and is  *)
(* never sent again: what a dead tick leaves open is settled from the       *)
(* captured answer or from a result file of the operator.  Ticks are serial *)
(* (single_writer); operator commands are not: each is one transaction, at  *)
(* any time.                                                                *)
(*                                                                          *)
(* State OPEN stands for OPEN and PARTIAL, WATCHED for the states before an *)
(* attempt, RECONCILED for CLOSED and RECONCILED.  Quantities are units;    *)
(* whether an input is fresh is a free choice; prices, fees, the limit on   *)
(* cost, policies, grants and the restore fence are left out.               *)
(***************************************************************************)
EXTENDS Integers, FiniteSets, Sequences, FiniteSetsExt

CONSTANTS
    Positions,       \* the positions signals may open: naturals, in their order
    LastEpoch,       \* activation epochs 1 .. LastEpoch, one switch apart
    Size,            \* the quantity an entry fills
    MaxLeg,          \* max_exit_input_raw, in the profile of each epoch
    MaxOutstanding,  \* max_outstanding_positions
    MaxFaults,       \* crashes, refusals, exits that fill nothing and unclear
                     \* answers, together (a bound)
    MaxCommands      \* operator commands and result files, together (a bound)

ASSUME TradingAssumption ==
    /\ Positions \subseteq Nat /\ IsFiniteSet(Positions)
    /\ LastEpoch \in Nat \ {0} /\ Size \in Nat \ {0}
    /\ MaxLeg \in [1 .. LastEpoch -> Nat \ {0}]
    /\ MaxOutstanding \in Nat
    /\ MaxFaults \in Nat /\ MaxCommands \in Nat

Epochs == 1 .. LastEpoch
States == {"ABSENT", "WATCHED", "ATTEMPTING", "UNKNOWN", "OPEN", "EXIT_REQUIRED",
           "EXITING", "UNRESOLVED", "RECONCILED", "CANCELLED"}
Settled == {"ABSENT", "RECONCILED", "CANCELLED"}
Results == {"FILL", "NONFILL", "UNKNOWN"}

VARIABLES
    cur,      \* ordinary_state: the current epoch
    bot,      \* one bot per epoch: its status and whether its entries are paused
    pos,      \* positions: state, epoch of origin, quantity entered and left
    att,      \* the attempts of each position, in order
    tick,     \* the running tick
    faults, commands

vars == <<cur, bot, pos, att, tick, faults, commands>>

\* An attempt: "left" is the quantity its request was made for, "done" what the
\* request really did (auxiliary), "cap" the captured answer, "seen" that this
\* answer was accepted, "inbox" that a result file is there, "final" the
\* definitive result.  A final attempt keeps only its side, effect and result.
Attempt(side, left, done) ==
    [side |-> side, left |-> left, done |-> done, cap |-> "NONE", seen |-> FALSE,
     inbox |-> FALSE, final |-> "NONE"]

\* "phase" is the loop that the step in "pc" returns to.
Idle == [pc |-> "idle", phase |-> "none", epoch |-> 0, healthy |-> TRUE, allows |-> FALSE,
         blocked |-> FALSE, todo |-> {}, known |-> [p \in Positions |-> "ABSENT"],
         tries |-> [p \in Positions |-> 0], on |-> {}, amt |-> 0, left |-> 0,
         res |-> "none", src |-> "none"]

Init ==
    /\ cur = 1
    /\ bot = [e \in Epochs |-> [status |-> IF e = 1 THEN "RUNNING" ELSE "NONE", paused |-> FALSE]]
    /\ pos = [p \in Positions |-> [state |-> "ABSENT", origin |-> 0, entered |-> 0, left |-> 0]]
    /\ att = [p \in Positions |-> <<>>]
    /\ tick = Idle
    /\ faults = 0 /\ commands = 0

-----------------------------------------------------------------------------
(* What the transactions read.                                             *)

Open(p) == {i \in DOMAIN att[p] : att[p][i].final = "NONE"}
HasOpen(p) == Open(p) # {}
Tries(p, side) == {i \in DOMAIN att[p] : att[p][i].side = side}

\* obligation_positions
Obligations == {p \in Positions : pos[p].state \notin Settled \/ HasOpen(p)}

\* Mutant: an unknown outcome keeps its headroom, but does not stop others.
EnvelopeCounts(p) == Cardinality(Obligations \ {p}) < MaxOutstanding

\* enforce_operating_envelope, without the position itself
EnvelopeAllows(p) ==
    /\ \A q \in Obligations \ {p} :
          ~HasOpen(q) /\ pos[q].state \notin {"ATTEMPTING", "UNKNOWN"}
    /\ Cardinality(Obligations \ {p}) < MaxOutstanding

\* _resume_block, for a signal that is not stale
Enters(e) == bot[e].status = "RUNNING" /\ ~bot[e].paused

\* begin_modeled_attempt for an EXIT
MayExit(p) ==
    LET exits == Tries(p, "EXIT")
        last  == att[p][Max(exits)].final
    IN  /\ pos[p].state \in {"EXIT_REQUIRED", "EXITING", "UNRESOLVED"}
        /\ pos[p].entered > 0
        /\ exits # {} => last = "NONFILL" \/ (last = "FILL" /\ pos[p].left > 0)

Truth(a) == IF a.done > 0 THEN "FILL" ELSE "NONFILL"

\* accept_modeled_result takes the result in the state the position is in.
Applicable(p, a, res) ==
    LET s == pos[p].state IN
    CASE a.side = "ENTRY" /\ res = "FILL" ->
             s \in {"ATTEMPTING", "UNKNOWN"} \/ (s = "EXIT_REQUIRED" /\ pos[p].entered = 0)
      [] a.side = "ENTRY" /\ res = "NONFILL" -> s \in {"ATTEMPTING", "UNKNOWN", "EXIT_REQUIRED"}
      [] a.side = "EXIT" /\ res = "FILL" ->
             s \in {"OPEN", "EXIT_REQUIRED", "EXITING", "UNRESOLVED"} /\ pos[p].left = a.left
      [] a.side = "EXIT" /\ res # "FILL" ->
             s \in {"OPEN", "UNKNOWN", "EXIT_REQUIRED", "EXITING", "UNRESOLVED"}
      [] OTHER -> TRUE

\* The position after an accepted result: apply_paper_entry_fill keeps a
\* pending close, apply_quantity_exit_fill returns a rest to the same exit,
\* apply_paper_exit_fill leaves what is not a fill UNRESOLVED.
After(p, a, res) ==
    LET x == pos[p]
        rest == x.left - a.done
    IN  CASE a.side = "ENTRY" /\ res = "FILL" ->
                 [x EXCEPT !.state = IF @ = "EXIT_REQUIRED" THEN @ ELSE "OPEN",
                           !.entered = a.done, !.left = a.done]
          [] a.side = "ENTRY" /\ res = "NONFILL" -> [x EXCEPT !.state = "CANCELLED"]
          [] a.side = "ENTRY" /\ res = "UNKNOWN" ->
                 [x EXCEPT !.state = IF @ = "ATTEMPTING" THEN "UNKNOWN" ELSE @]
          [] a.side = "EXIT" /\ res = "FILL" ->
                 [x EXCEPT !.left = rest,
                           !.state = IF rest > 0 THEN "EXIT_REQUIRED" ELSE "RECONCILED"]
          [] OTHER -> [x EXCEPT !.state = "UNRESOLVED"]

\* The attempt after it.
Answered(a, res, captured) ==
    IF res = "UNKNOWN" THEN [a EXCEPT !.seen = @ \/ captured]
    ELSE [Attempt(a.side, 0, a.done) EXCEPT !.final = res]

\* accept_modeled_result, one transaction
Accepts(p, i, res, captured) ==
    /\ att[p][i].final = "NONE"
    /\ Applicable(p, att[p][i], res)
    /\ pos' = [pos EXCEPT ![p] = After(p, att[p][i], res)]
    /\ att' = [att EXCEPT ![p][i] = Answered(@, res, captured)]

\* Mutant: a position that is being unwound no longer counts.
ClearedSoon(e, x) == \A p \in Positions : x[p].origin = e => x[p].state \in Settled \cup {"UNRESOLVED"}

\* _drain_remaining_ids is empty
Cleared(e, x) == \A p \in Positions : x[p].origin = e => x[p].state \in Settled

\* maybe_finish_drain for the bots in E, given the positions x
Finished(E, x) ==
    [e \in Epochs |-> IF e \in E /\ bot[e].status = "DRAINING" /\ Cleared(e, x)
                      THEN [bot[e] EXCEPT !.status = "STOPPED"] ELSE bot[e]]

\* cancel_entry_intent
Cancel(p) == [pos EXCEPT ![p].state = "CANCELLED"]

\* begin_modeled_attempt for an ENTRY of position p: what it does, and whether
\* the caller may send.
EntryBegins(p, done) ==
    /\ cur = pos[p].origin /\ Tries(p, "ENTRY") = {} /\ pos[p].state = "WATCHED"
    /\ Enters(pos[p].origin) /\ EnvelopeAllows(p)
    /\ pos' = [pos EXCEPT ![p].state = "ATTEMPTING"]
    /\ att' = [att EXCEPT ![p] = Append(@, Attempt("ENTRY", 0, done))]

\* It cancels what is stopped, paused, over the limit, or stale: as the age of
\* a signal is a free choice, this may happen to any intent.
EntryCancelled(p) ==
    /\ cur = pos[p].origin /\ Tries(p, "ENTRY") = {} /\ pos[p].state = "WATCHED"
    /\ pos' = Cancel(p)
    /\ UNCHANGED att

\* begin_modeled_attempt for an EXIT of a request made for the quantity left.
ExitBegins(p, left, done) ==
    /\ MayExit(p)
    /\ pos' = [pos EXCEPT ![p].state = IF @ = "EXIT_REQUIRED" THEN "EXITING" ELSE @]
    /\ att' = [att EXCEPT ![p] = Append(@, Attempt("EXIT", left, done))]

-----------------------------------------------------------------------------
(* The tick: recovery, exits, then entries of the current epoch.           *)

\* Loops take their rows in the order of the table.
First(S) == {p \in S : \A q \in S : p <= q}

\* The running loop is done with p and goes on.
GoOn(p, well) ==
    tick' = [tick EXCEPT !.pc = tick.phase, !.todo = @ \ {p}, !.healthy = @ /\ well,
                         !.known[p] = "ABSENT", !.tries[p] = 0, !.on = {}, !.amt = 0,
                         !.left = 0, !.res = "none", !.src = "none"]

\* What an error does: the loops over attempts and exits note it and go on; in
\* the loop over entries it ends the tick, or is noted when it is one of
\* ENTRY_INPUT_BLOCKERS.
Fails(p, noted) ==
    IF tick.phase # "intents" THEN GoOn(p, FALSE)
    ELSE IF noted THEN GoOn(p, TRUE) ELSE tick' = Idle

\* _tick_owned, and the rows of _recover
StartTick ==
    /\ tick.pc = "idle"
    /\ tick' = [Idle EXCEPT !.pc = "recover", !.phase = "recover", !.epoch = cur,
                            !.todo = {p \in Positions : HasOpen(p)},
                            !.tries = [p \in Positions |-> IF HasOpen(p) THEN Len(att[p]) ELSE 0]]
    /\ UNCHANGED <<cur, bot, pos, att, faults, commands>>

\* _recover_attempt: a result file goes before the captured answer, and
\* without either nothing is sent.
RecoverAttempt ==
    /\ tick.pc = "recover"
    /\ \E p \in First(tick.todo) :
          LET a == att[p][tick.tries[p]] IN
          \/ /\ a.final # "NONE" /\ GoOn(p, TRUE)
          \/ /\ a.final = "NONE" /\ ~a.inbox /\ a.cap = "NONE" /\ GoOn(p, FALSE)
          \/ /\ a.final = "NONE" /\ a.inbox
             /\ tick' = [tick EXCEPT !.pc = "accept", !.on = {p}, !.res = Truth(a), !.src = "inbox"]
          \/ /\ a.final = "NONE" /\ ~a.inbox /\ a.cap # "NONE"
             /\ tick' = [tick EXCEPT !.pc = "accept", !.on = {p}, !.res = a.cap,
                                     !.src = IF a.seen THEN "seen" ELSE "capture"]
    /\ UNCHANGED <<cur, bot, pos, att, faults, commands>>

\* The rows are read once; the loop skips those in other states.
Rows == {p \in Obligations : pos[p].state \in {"OPEN", "EXIT_REQUIRED", "UNRESOLVED"}}

EndRecover ==
    /\ tick.pc = "recover" /\ tick.todo = {}
    /\ tick' = [tick EXCEPT !.pc = "rows", !.phase = "rows", !.todo = Rows,
                            !.known = [p \in Positions |-> IF p \in Rows THEN pos[p].state
                                                           ELSE "ABSENT"]]
    /\ UNCHANGED <<cur, bot, pos, att, faults, commands>>

\* A row in these states gets an attempt.
ExitWanted(state) == state \in {"EXIT_REQUIRED", "UNRESOLVED"}

\* The exit decision of a row read as OPEN (exit, apply_exit_decision), whose
\* exit point may have come; the row is read again after it.
DecideExit(p, isDue) ==
    LET s    == pos[p].state
        asks == tick.known[p] = "OPEN" /\ isDue
        may  == s \in {"OPEN", "UNKNOWN"}
        well == asks => may \/ s = "EXIT_REQUIRED"
        now  == IF asks /\ may THEN "EXIT_REQUIRED" ELSE s
        read == IF tick.known[p] = "OPEN" THEN now ELSE tick.known[p]
    IN  /\ tick.pc = "rows" /\ p \in First(tick.todo)
        /\ pos' = [pos EXCEPT ![p].state = now]
        /\ \/ ~ExitWanted(read) /\ GoOn(p, well)
           \/ /\ ExitWanted(read)
              /\ tick' = [tick EXCEPT !.pc = "exit", !.on = {p}, !.known[p] = read,
                                      !.healthy = @ /\ well]
        /\ UNCHANGED <<cur, bot, att, faults, commands>>

\* An open attempt of an UNRESOLVED row is for recovery to settle.
IsUncertain(p) == tick.known[p] = "UNRESOLVED" /\ HasOpen(p)

SkipExit ==
    /\ tick.pc = "exit"
    /\ \E p \in tick.on : IsUncertain(p) /\ GoOn(p, FALSE)
    /\ UNCHANGED <<cur, bot, pos, att, faults, commands>>

\* _inputs: the request is prepared outside any transaction; an input may be
\* missing.
PrepareExit ==
    /\ tick.pc = "exit"
    /\ \E p \in tick.on :
          /\ ~IsUncertain(p)
          /\ \/ /\ pos[p].left > 0
                /\ tick' = [tick EXCEPT !.pc = "claim", !.amt = Min({pos[p].left, MaxLeg[pos[p].origin]}),
                                        !.left = pos[p].left]
                /\ UNCHANGED faults
             \/ /\ pos[p].left = 0 /\ GoOn(p, FALSE)
                /\ UNCHANGED faults
             \/ /\ pos[p].left > 0 /\ faults < MaxFaults
                /\ faults' = faults + 1
                /\ GoOn(p, FALSE)
    /\ UNCHANGED <<cur, bot, pos, att, commands>>

\* Mutant: the prepared request is not compared with the inventory.
StillHolds1(p) == TRUE

\* _dispatch, in the transaction of the claim
StillHolds(p) == tick.left = pos[p].left

\* The attempt that was begun is sent next.
Claimed(p) == tick' = [tick EXCEPT !.pc = "send", !.on = {p}, !.tries[p] = Len(att[p]) + 1]

ClaimExit ==
    /\ tick.pc = "claim"
    /\ \E p \in tick.on :
          \/ StillHolds(p) /\ ExitBegins(p, tick.left, 0) /\ Claimed(p)
          \/ /\ ~(StillHolds(p) /\ MayExit(p)) /\ GoOn(p, FALSE)
             /\ UNCHANGED <<pos, att>>
    /\ UNCHANGED <<cur, bot, faults, commands>>

\* Mutant: drains are finished when a result is accepted, and only then.
EndRows1 ==
    /\ tick.pc = "rows" /\ tick.todo = {}
    /\ tick' = [tick EXCEPT !.pc = "gate"]
    /\ UNCHANGED <<cur, bot, pos, att, faults, commands>>

\* The drains whose last exit is settled end.
EndRows ==
    /\ tick.pc = "rows" /\ tick.todo = {}
    /\ bot' = Finished(Epochs, pos)
    /\ tick' = [tick EXCEPT !.pc = "gate"]
    /\ UNCHANGED <<cur, pos, att, faults, commands>>

\* allows_entries; the source may be stale or unavailable.
Gate ==
    /\ tick.pc = "gate"
    /\ \E available \in BOOLEAN :
          LET e == tick.epoch
              allows == available /\ tick.healthy /\ cur = e /\ Enters(e)
          IN  tick' = [tick EXCEPT !.pc = "works", !.phase = "works", !.healthy = TRUE,
                                   !.allows = allows, !.blocked = ~Enters(e)]
    /\ UNCHANGED <<cur, bot, pos, att, faults, commands>>

\* episode: accept_signal_decision_outcome admits the intent of the next
\* signal, unless it is refused.
Admit ==
    /\ tick.pc = "works" /\ tick.allows
    /\ \E p \in First({q \in Positions : pos[q].state = "ABSENT"}) :
          /\ cur = tick.epoch /\ Enters(tick.epoch) /\ EnvelopeAllows(p)
          /\ pos' = [pos EXCEPT ![p].state = "WATCHED", ![p].origin = tick.epoch]
    /\ UNCHANGED <<cur, bot, att, tick, faults, commands>>

EndWorks ==
    /\ tick.pc = "works"
    /\ tick' = [tick EXCEPT !.pc = "intents", !.phase = "intents",
                            !.todo = {p \in Positions : /\ pos[p].state = "WATCHED"
                                                        /\ pos[p].origin = tick.epoch}]
    /\ UNCHANGED <<cur, bot, pos, att, faults, commands>>

\* An intent that may not enter is cancelled when the gate saw its bot stopped
\* or paused, and waits otherwise; one that was attempted meanwhile ends the tick.
HoldIntent ==
    /\ tick.pc = "intents" /\ ~tick.allows
    /\ \E p \in First(tick.todo) :
          \/ ~tick.blocked /\ GoOn(p, TRUE) /\ UNCHANGED pos
          \/ /\ tick.blocked
             /\ IF pos[p].state \in {"WATCHED", "CANCELLED"}
                THEN pos' = Cancel(p) /\ GoOn(p, TRUE)
                ELSE tick' = Idle /\ UNCHANGED pos
    /\ UNCHANGED <<cur, bot, att, faults, commands>>

\* _dispatch of an ENTRY: an input is missing or invalid, or the claim's
\* transaction begins the attempt, cancels the intent, or raises because the
\* intent is no longer one.
ClaimEntry ==
    /\ tick.pc = "intents" /\ tick.allows
    /\ \E p \in First(tick.todo) :
          \/ /\ \E noted \in BOOLEAN : Fails(p, noted)
             /\ UNCHANGED <<pos, att>>
          \/ EntryBegins(p, 0) /\ Claimed(p)
          \/ EntryCancelled(p) /\ GoOn(p, TRUE)
          \/ /\ pos[p].state \in {"WATCHED", "CANCELLED"} /\ ~EnvelopeAllows(p)
             /\ pos' = Cancel(p) /\ GoOn(p, TRUE)
             /\ UNCHANGED att
    /\ UNCHANGED <<cur, bot, faults, commands>>

\* The adapter may refuse before the request leaves: the attempt stays open.
SendRefused ==
    /\ tick.pc = "send" /\ faults < MaxFaults
    /\ faults' = faults + 1
    /\ \E p \in tick.on, noted \in BOOLEAN : Fails(p, noted)
    /\ UNCHANGED <<cur, bot, pos, att, commands>>

\* What a request may do: nothing, or what it asks for.
Effects(p) == IF att[p][tick.tries[p]].side = "ENTRY" THEN {0, Size} ELSE {0, tick.amt}

\* Adapter.dispatch: the request leaves, and the answer says what it did,
Send ==
    /\ tick.pc = "send"
    /\ \E p \in tick.on : \E n \in Effects(p) :
          LET i == tick.tries[p]
              a == [att[p][i] EXCEPT !.done = @ + n]
          IN  /\ att' = [att EXCEPT ![p][i] = a]
              /\ tick' = [tick EXCEPT !.pc = "capture", !.res = Truth(a), !.src = "capture"]
              /\ faults' = faults + (IF n = 0 /\ a.side = "EXIT" THEN 1 ELSE 0)
              /\ faults' <= MaxFaults
    /\ UNCHANGED <<cur, bot, pos, commands>>

\* or does not say it (a status, a timeout), or cannot be read and raises.
SendUnknown ==
    /\ tick.pc = "send" /\ faults < MaxFaults
    /\ faults' = faults + 1
    /\ \E p \in tick.on : \E n \in Effects(p) :
          /\ att' = [att EXCEPT ![p][tick.tries[p]].done = @ + n]
          /\ \/ tick' = [tick EXCEPT !.pc = "capture", !.res = "UNKNOWN", !.src = "capture"]
             \/ \E noted \in BOOLEAN : Fails(p, noted)
    /\ UNCHANGED <<cur, bot, pos, commands>>

\* ADAPTER_RESULT_CAPTURED
Capture ==
    /\ tick.pc = "capture"
    /\ \E p \in tick.on : att' = [att EXCEPT ![p][tick.tries[p]].cap = tick.res]
    /\ tick' = [tick EXCEPT !.pc = "accept"]
    /\ UNCHANGED <<cur, bot, pos, faults, commands>>

\* result: an answer that was accepted before is accepted again without effect;
\* one for an attempt that got another definitive result meanwhile is an error.
Accept ==
    /\ tick.pc = "accept"
    /\ \E p \in tick.on :
          LET i == tick.tries[p]
              again == tick.src = "seen"
          IN  \/ /\ again \/ Accepts(p, i, tick.res, tick.src = "capture")
                 /\ again => UNCHANGED <<pos, att>>
                 /\ tick' = [tick EXCEPT !.pc = "drain"]
              \/ /\ ~again
                 /\ att[p][i].final # "NONE" \/ ~Applicable(p, att[p][i], tick.res)
                 /\ Fails(p, FALSE)
                 /\ UNCHANGED <<pos, att>>
    /\ UNCHANGED <<cur, bot, faults, commands>>

\* maybe_finish_drain is a transaction of its own; an attempt that recovery
\* could not make final keeps the tick from being healthy.
DrainAfter ==
    /\ tick.pc = "drain"
    /\ \E p \in tick.on :
          /\ bot' = Finished({pos[p].origin}, pos)
          /\ GoOn(p, tick.phase = "recover" => att[p][tick.tries[p]].final # "NONE")
    /\ UNCHANGED <<cur, pos, att, faults, commands>>

EndTick ==
    /\ tick.pc = "intents" /\ tick.todo = {}
    /\ tick' = Idle
    /\ UNCHANGED <<cur, bot, pos, att, faults, commands>>

TickStep == \/ RecoverAttempt \/ EndRecover \/ SkipExit \/ PrepareExit
            \/ ClaimExit \/ EndRows \/ Gate \/ Admit \/ EndWorks \/ HoldIntent
            \/ ClaimEntry \/ SendRefused \/ Send \/ SendUnknown \/ Capture \/ Accept
            \/ DrainAfter \/ EndTick
            \/ \E p \in Positions, isDue \in BOOLEAN : DecideExit(p, isDue)

-----------------------------------------------------------------------------
(* The operator, and the environment.                                      *)

\* PAUSE_NEW_ENTRIES
Pause(e) ==
    /\ commands < MaxCommands
    /\ commands' = commands + 1
    /\ bot[e].status # "NONE"
    /\ bot' = [bot EXCEPT ![e].paused = TRUE]
    /\ UNCHANGED <<cur, pos, att, tick, faults>>

\* RESUME_NEW_ENTRIES
Resume(e) ==
    /\ commands < MaxCommands
    /\ commands' = commands + 1
    /\ bot[e].status \notin {"NONE", "DRAINING"}
    /\ bot' = [bot EXCEPT ![e].paused = FALSE]
    /\ UNCHANGED <<cur, pos, att, tick, faults>>

\* REQUEST_CLOSE_POSITION and REQUEST_CLOSE_ALL, of one bot or of all.
Closable == {{p} : p \in Positions} \cup {Positions}
                \cup {{p \in Positions : pos[p].origin = e} : e \in Epochs}

Close(S) ==
    /\ commands < MaxCommands
    /\ commands' = commands + 1
    /\ pos' = [p \in Positions |->
                  IF p \in S /\ pos[p].state = "WATCHED" THEN [pos[p] EXCEPT !.state = "CANCELLED"]
                  ELSE IF p \in S /\ pos[p].state \in {"OPEN", "UNKNOWN"}
                  THEN [pos[p] EXCEPT !.state = "EXIT_REQUIRED"] ELSE pos[p]]
    /\ UNCHANGED <<cur, bot, att, tick, faults>>

\* STOP_BOT: what was not attempted is cancelled, the rest drains.
Stopped(e) ==
    [p \in Positions |-> IF pos[p].origin = e /\ pos[p].state = "WATCHED"
                         THEN [pos[p] EXCEPT !.state = "CANCELLED"] ELSE pos[p]]
StopStatus(e) == IF Cleared(e, Stopped(e)) THEN "STOPPED" ELSE "DRAINING"

Stop(e) ==
    /\ commands < MaxCommands
    /\ commands' = commands + 1
    /\ bot[e].status # "NONE"
    /\ pos' = Stopped(e)
    /\ bot' = [bot EXCEPT ![e] = [status |-> StopStatus(e), paused |-> TRUE]]
    /\ UNCHANGED <<cur, att, tick, faults>>

\* TradingCoordinator.activate: the successor starts and the predecessor is
\* stopped in one transaction.
Switch ==
    /\ commands < MaxCommands
    /\ commands' = commands + 1
    /\ cur < LastEpoch
    /\ cur' = cur + 1
    /\ pos' = Stopped(cur)
    /\ bot' = [bot EXCEPT ![cur + 1].status = "RUNNING",
                          ![cur] = [status |-> StopStatus(cur), paused |-> TRUE]]
    /\ UNCHANGED <<att, tick, faults>>

\* attempt: the operator claims an attempt and acts on it.
ManualAttempt(p) ==
    /\ commands < MaxCommands
    /\ commands' = commands + 1
    /\ \/ \E n \in {0, Size} : EntryBegins(p, n)
       \/ EntryCancelled(p)
       \/ \E n \in 0 .. pos[p].left : ExitBegins(p, pos[p].left, n)
    /\ UNCHANGED <<cur, bot, tick, faults>>

\* The tick has claimed the attempt and not yet heard of it.
InFlight(p, i) == tick.pc = "send" /\ p \in tick.on /\ i = tick.tries[p]

\* result: the operator reports what the attempt did, or that this is unknown;
\* the command may die before it looks at the drain.
Submit(p) ==
    /\ \E i \in Open(p) :
          /\ ~InFlight(p, i)
          /\ \E res \in {Truth(att[p][i]), "UNKNOWN"} : Accepts(p, i, res, FALSE)
    /\ bot' \in {bot, Finished({pos[p].origin}, pos')}
    /\ UNCHANGED <<cur, tick, faults, commands>>

\* A result file is put into result-inbox.
Callback(p) ==
    /\ commands < MaxCommands
    /\ commands' = commands + 1
    /\ \E i \in Open(p) :
          /\ ~InFlight(p, i) /\ ~att[p][i].inbox
          /\ att' = [att EXCEPT ![p][i].inbox = TRUE]
    /\ UNCHANGED <<cur, bot, pos, tick, faults>>

\* The tick's process dies, or one of its writes fails.
Crash ==
    /\ tick.pc # "idle" /\ faults < MaxFaults
    /\ faults' = faults + 1
    /\ tick' = Idle
    /\ UNCHANGED <<cur, bot, pos, att, commands>>

Operator == \/ \E e \in Epochs : Pause(e) \/ Resume(e) \/ Stop(e)
            \/ \E S \in Closable : Close(S)
            \/ Switch
            \/ \E p \in Positions : ManualAttempt(p) \/ Submit(p) \/ Callback(p)

Next == StartTick \/ TickStep \/ Operator \/ Crash

Spec == Init /\ [][Next]_vars

\* The loop of run starts the next tick, a running tick goes on, and the exit
\* point of a position comes before ticks have judged it for ever.
FairSpec == /\ Spec /\ WF_vars(StartTick) /\ WF_vars(TickStep)
            /\ \A p \in Positions : SF_vars(DecideExit(p, TRUE))

-----------------------------------------------------------------------------
(* Properties.                                                             *)

TypeOK ==
    /\ cur \in Epochs
    /\ bot \in [Epochs -> [status : {"NONE", "RUNNING", "DRAINING", "STOPPED"}, paused : BOOLEAN]]
    /\ pos \in [Positions -> [state : States, origin : 0 .. LastEpoch,
                              entered : 0 .. Size, left : 0 .. Size]]
    /\ \A p \in Positions : \A i \in DOMAIN att[p] :
          att[p][i] \in [side : {"ENTRY", "EXIT"}, left : 0 .. Size, done : 0 .. Size,
                         cap : Results \cup {"NONE"}, seen : BOOLEAN, inbox : BOOLEAN,
                         final : {"FILL", "NONFILL", "NONE"}]
    /\ faults \in 0 .. MaxFaults /\ commands \in 0 .. MaxCommands

\* What the attempts of p in S did, and which of one side are settled.
Effect(p, S) == MapThenSumSet(LAMBDA i : att[p][i].done, S)
Final(p, side) == {i \in Tries(p, side) : att[p][i].final # "NONE"}

\* An outcome that is not known holds back what could add to it: a position has
\* one open attempt at most, and while the outcome of an entry is open no entry
\* of another position is sent, whichever epoch it is of (UNKNOWN is not sent
\* again and frees no headroom, TRADING_CONTINUITY_OFFLINE_V1.md:158-166).
OneOpenEntry ==
    /\ \A p \in Positions : Cardinality(Open(p)) <= 1
    /\ \A p, q \in Positions : p # q =>
          Open(p) \cap Tries(p, "ENTRY") = {} \/ Open(q) \cap Tries(q, "ENTRY") = {}

\* The books agree with what the requests did, whoever reported it and wherever
\* a tick died: a settled attempt has its true result, the quantities of the
\* position are those of its settled attempts, and no more is ever sold than
\* was bought, not even by a request prepared before a result changed the
\* inventory (_dispatch, accept_modeled_result).
BooksMatchEffects ==
    \A p \in Positions :
       /\ \A i \in DOMAIN att[p] : att[p][i].final # "NONE" => att[p][i].final = Truth(att[p][i])
       /\ pos[p].entered = Effect(p, Final(p, "ENTRY"))
       /\ pos[p].left = pos[p].entered - Effect(p, Final(p, "EXIT"))
       /\ Effect(p, Tries(p, "EXIT")) <= pos[p].entered

\* A bot that is shown as STOPPED owns nothing any more: none of its attempts
\* is open and all that its entries bought was sold, also when a tick was
\* between two of its steps as the bot was stopped (STOP_BOT, activate,
\* maybe_finish_drain).
StoppedIsFlat ==
    \A e \in Epochs : bot[e].status = "STOPPED" =>
       \A p \in Positions : pos[p].origin = e =>
          /\ ~HasOpen(p)
          /\ Effect(p, Tries(p, "ENTRY")) = Effect(p, Tries(p, "EXIT"))

\* A drain ends, whatever tick or command died between settling the last exit
\* and looking at the drain, provided that the outcomes that only the operator
\* can tell are told (the exits and drains of _tick_owned).
DrainEnds ==
    \A e \in Epochs :
       []<>(\A p \in Positions : pos[p].origin = e => ~HasOpen(p)) =>
          (bot[e].status = "DRAINING" ~> bot[e].status = "STOPPED")
=============================================================================
