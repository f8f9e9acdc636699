----------------------- MODULE ObservationTickProofs -----------------------
(***************************************************************************)
(* Proofs of the safety properties of ObservationTick, for every set of    *)
(* rows, every cap and batch size, any number of crashes and of ticks.     *)
(***************************************************************************)
EXTENDS ObservationTick, FiniteSetTheorems, TLAPS

Calling == {"call", "debit", "complete"}
Settling == {"xcand", "xcensor", "policy", "insert", "follow"}

(* Where the tick is, as far as its local variables tell: the rows of a    *)
(* call are one occurrence, a call being settled has a fate, and one row   *)
(* with a terminal verdict is settled at a time.                           *)
PhaseOK ==
    /\ pc = "late" => live \in Occurrences \cup {{}}
    /\ pc \in Calling \cup Settling \cup {"settle"} =>
          occ \in Occurrences /\ fate # "NONE" /\ live \subseteq occ
    /\ pc \in Settling => /\ verdict \in Terminal
                          /\ \E r \in occ : cur = {r}
    /\ pc \in Calling => live = occ /\ fate = "ANSWERED"

TickInv == TypeOK /\ PhaseOK

----------------------------------------------------------------------------
(* What a call serves: a batch of SEARCH rows or one quote row.            *)

(* A call occurrence is a nonempty set of rows. *)
LEMMA OccurrenceRows == \A o \in Occurrences : o # {} /\ o \subseteq Rows
BY DEF Occurrences, SearchRows, QuoteRows

(* Every nonempty batch of SEARCH rows is a call occurrence. *)
LEMMA BatchOccurrence == \A C \in SUBSET SearchRows : C # {} => C \in Occurrences
BY DEF Occurrences

(* Every quote row alone is a call occurrence. *)
LEMMA QuoteOccurrence == \A r \in Rows : r \notin SearchRows => {r} \in Occurrences
BY DEF Occurrences, QuoteRows

(* What is left of an occurrence without one row is one again, or nothing. *)
LEMMA RestOfOccurrence ==
    \A o \in Occurrences, r \in Rows : o \ {r} \in Occurrences \cup {{}}
<1> SUFFICES ASSUME NEW o \in Occurrences, NEW r \in Rows, o \ {r} # {}
             PROVE o \ {r} \in Occurrences
  OBVIOUS
<1>1. CASE o \subseteq SearchRows
  BY <1>1, BatchOccurrence
<1>2. CASE ~(o \subseteq SearchRows)
  <2>1. PICK q \in QuoteRows : o = {q}
    BY <1>2 DEF Occurrences
  <2> QED
    BY <2>1
<1> QED
  BY <1>1, <1>2

(* The absent response has the type of a response. *)
LEMMA NoAnswerType == NoAnswer \in Answer
BY DEF NoAnswer, Answer

----------------------------------------------------------------------------
(* A missingness policy only sweeps rows of the store. *)
LEMMA CensoredByType ==
    \A r \in Rows : \A state : CensoredBy(r, state) \subseteq Rows
BY DEF CensoredBy, Remaining

(* The X phase puts an entity in a state of the store. *)
LEMMA XOutcomeType == \A r \in Rows : \A state : XOutcome(r, state) \in CandidateState
BY DEF XOutcome, CandidateState

(* The idle tick of Init and of ForgetTick.                                *)
IdleLocals ==
    /\ now \in Nat /\ opener \in BOOLEAN
    /\ todo \subseteq Rows /\ fresh \subseteq Rows /\ live \subseteq Rows
    /\ occ \in Occurrences \cup {{}}
    /\ result \in Answer /\ fate \in Fate
    /\ cur \subseteq Rows /\ verdict \in Terminal \cup {"NONE"}
    /\ swept \subseteq Rows
    /\ tickCalls \in Nat /\ stop \in Stop /\ rows \subseteq Settled
    /\ pc = "idle"

(* A tick that ended, crashed or raised leaves nothing in memory. *)
LEMMA ForgottenTickIsIdle == ForgetTick => IdleLocals'
<1> SUFFICES ASSUME ForgetTick PROVE IdleLocals'
  OBVIOUS
<1>1. opener' \in BOOLEAN
  BY Zenon DEF ForgetTick
<1>2. result' \in Answer
  BY NoAnswerType, Zenon DEF ForgetTick
<1> QED
  BY <1>1, <1>2 DEF ForgetTick, IdleLocals, Fate, Stop

(* An idle process is in a consistent phase. *)
LEMMA IdlePhase == IdleLocals => PhaseOK /\ pc \in Pc
BY DEF IdleLocals, PhaseOK, Calling, Settling, Pc

(* The type and phase invariant holds before the first tick. *)
LEMMA TickInvInit == Init => TickInv
<1> SUFFICES ASSUME Init PROVE TickInv
  OBVIOUS
<1>1. IdleLocals
  BY NoAnswerType DEF Init, IdleLocals, Fate, Stop
<1>2. /\ due \in [Rows -> DueState] /\ cand \in [Entities -> CandidateState]
      /\ ledger \in [Occurrences -> CallState]
      /\ answer \in [Occurrences -> Answer]
      /\ calls \in [Occurrences -> Nat]
  BY NoAnswerType DEF Init, DueState, Open, CandidateState, CallState
<1> QED
  BY <1>1, <1>2, IdlePhase DEF Init, IdleLocals, TickInv, TypeOK

(* Every step of the tick keeps the type and phase invariant. *)
LEMMA TickInvStep == TickInv /\ [Next]_vars => TickInv'
<1> SUFFICES ASSUME TickInv, [Next]_vars PROVE TickInv'
  OBVIOUS
<1> USE RowsAssumption, BoundsAssumption
    DEF TickInv, TypeOK, PhaseOK, Calling, Settling, ops, calling, panel,
        durable, params, call, settling, volatile, env, Open, Terminal,
        DueState, CallState, CandidateState, Settled, Pc,
        Fate, Stop
<1>1. CASE StartTick
  BY <1>1 DEF StartTick
<1>2. CASE ClaimDue
  BY <1>2 DEF ClaimDue
<1>3. CASE TakeBatch
  BY <1>3, BatchOccurrence DEF TakeBatch, SearchTodo, IsChunk
<1>4. CASE TakeQuote
  BY <1>4, QuoteOccurrence DEF TakeQuote, SearchTodo
<1>5. CASE CensorLate
  <2>1. CASE DenyRetroactiveMutation
    BY <2>1, ForgottenTickIsIdle, IdlePhase DEF DenyRetroactiveMutation, IdleLocals
  <2>2. CASE ~DenyRetroactiveMutation
    <3>1. PICK r \in live : /\ InsertDue(r, "CENSORED_LATE")
                           /\ rows' = rows \cup {<<r, "CENSORED_LATE">>}
                           /\ live' = live \ {r}
                           /\ UNCHANGED <<calling, panel, params, call,
                                 settling, env, cand, buyOut, pc, todo,
                                 tickCalls, stop>>
      BY <1>5, <2>2 DEF CensorLate
    <3>2. live' \in Occurrences \cup {{}}
      BY <1>5, <3>1, RestOfOccurrence DEF CensorLate
    <3>3. TypeOK'
      BY <3>1 DEF InsertDue
    <3> QED
      BY <1>5, <3>1, <3>2, <3>3 DEF CensorLate
  <2> QED
    BY <2>1, <2>2
<1>6. CASE BatchGone
  BY <1>6 DEF BatchGone
<1>7. CASE SellWithoutBuy
  BY <1>7 DEF SellWithoutBuy, Ready, SettleAs
<1>8. CASE InFlight
  BY <1>8 DEF InFlight, Ready, SettleAs
<1>9. CASE Recover
  BY <1>9 DEF Recover, Ready, SettleAs
<1>10. CASE NoTransport
  BY <1>10 DEF NoTransport, Uncalled, Ready, SettleAs
<1>11. CASE GateBlocked
  BY <1>11 DEF GateBlocked
<1>12. CASE StartCall
  BY <1>12 DEF StartCall, Uncalled, Ready, SettleAs
<1>13. CASE StartCallRefused
  BY <1>13 DEF StartCallRefused, Uncalled, Ready, SettleAs
<1>14. CASE ProviderCall
  BY <1>14, OccurrenceRows DEF ProviderCall, Answer
<1>15. CASE NoteCall
  BY <1>15 DEF NoteCall
<1>16. CASE CompleteCall
  BY <1>16 DEF CompleteCall
<1>17. CASE BeginSettle
  BY <1>17 DEF BeginSettle, Verdict, EntityTerminal
<1>18. CASE SetCandidateState
  BY <1>18, XOutcomeType, ZenonT(40) DEF SetCandidateState
<1>19. CASE CensorIneligible
  BY <1>19 DEF CensorIneligible, CensorRemainingPoints
<1>20. CASE ApplyPolicy
  <2>1. due' \in [Rows -> DueState]
    BY <1>20 DEF ApplyPolicy, CensorRemainingPoints
  <2>2. swept' \subseteq Rows
    BY <1>20, CensoredByType DEF ApplyPolicy
  <2> QED
    BY <1>20, <2>1, <2>2 DEF ApplyPolicy
<1>21. CASE InsertTerminal
  <2>1. CASE DenyRetroactiveMutation
    BY <2>1, ForgottenTickIsIdle, IdlePhase DEF DenyRetroactiveMutation, IdleLocals
  <2>2. CASE ~DenyRetroactiveMutation
    BY <1>21, <2>2 DEF InsertTerminal, InsertDue
  <2> QED
    BY <2>1, <2>2
<1>22. CASE PropagateBuyOut
  BY <1>22 DEF PropagateBuyOut, DependentSells
<1>23. CASE EndSettle
  <2>1. due' \in [Rows -> DueState]
    BY <1>23 DEF EndSettle, CensorRemainingPoints
  <2>2. rows' \subseteq Settled
    BY <1>23, CensoredByType DEF EndSettle
  <2> QED
    BY <1>23, <2>1, <2>2 DEF EndSettle
<1>24. CASE CallSettled
  BY <1>24, NoAnswerType DEF CallSettled
<1>25. CASE WorkDone
  BY <1>25 DEF WorkDone
<1>26. CASE ReturnClaim
  BY <1>26 DEF ReturnClaim, InsertDue, Leftover
<1>27. CASE BlockClaim
  BY <1>27 DEF BlockClaim, InsertDue, Leftover
<1>28. CASE SaveJob
  BY <1>28 DEF SaveJob
<1>29. CASE CompleteJob
  BY <1>29, ForgottenTickIsIdle, IdlePhase DEF CompleteJob, IdleLocals
<1>30. CASE NothingToPublish
  BY <1>30, ForgottenTickIsIdle, IdlePhase DEF NothingToPublish, IdleLocals
<1>31. CASE Crash
  BY <1>31, ForgottenTickIsIdle, IdlePhase DEF Crash, IdleLocals
<1>32. CASE Advance
  BY <1>32 DEF Advance
<1>33. CASE UNCHANGED vars
  BY <1>33 DEF vars
<1> QED
  BY <1>1, <1>2, <1>3, <1>4, <1>5, <1>6, <1>7, <1>8, <1>9, <1>10, <1>11, <1>12, <1>13, <1>14, <1>15, <1>16, <1>17, <1>18, <1>19, <1>20, <1>21, <1>22, <1>23, <1>24, <1>25, <1>26, <1>27, <1>28, <1>29, <1>30, <1>31, <1>32, <1>33 DEF Next, TickStep

----------------------------------------------------------------------------
(* A settled row is settled for good.                                      *)

(* No step of the tick rewrites a terminal row. *)
LEMMA FinalStep ==
    ASSUME TickInv, [Next]_vars
    PROVE  \A r \in Rows : due[r] \in Terminal => due'[r] = due[r]
<1> USE DEF TickInv, TypeOK, Open, Terminal, DueState
<1>1. CASE \/ SellWithoutBuy \/ InFlight \/ Recover \/ NoTransport
           \/ StartCallRefused \/ StartCall
  BY <1>1
  DEF SellWithoutBuy, InFlight, Recover, NoTransport, StartCallRefused,
      StartCall, SettleAs, ops
<1>2. CASE \/ StartTick \/ TakeBatch \/ TakeQuote \/ BatchGone \/ GateBlocked
           \/ CallSettled \/ WorkDone \/ SaveJob \/ Advance \/ CompleteJob
           \/ NothingToPublish \/ Crash \/ ProviderCall \/ NoteCall
           \/ CompleteCall \/ BeginSettle \/ SetCandidateState
           \/ PropagateBuyOut
  BY <1>2
  DEF StartTick, TakeBatch, TakeQuote, BatchGone, GateBlocked, CallSettled,
      WorkDone, SaveJob, Advance, CompleteJob, NothingToPublish, Crash,
      ProviderCall, NoteCall, CompleteCall, BeginSettle, SetCandidateState,
      PropagateBuyOut, durable, ops
<1>3. CASE ClaimDue
  BY <1>3 DEF ClaimDue, IsClaim
<1>4. CASE CensorLate
  BY <1>4 DEF CensorLate, DenyRetroactiveMutation, durable, ops, InsertDue
<1>5. CASE CensorIneligible
  BY <1>5 DEF CensorIneligible, CensorRemainingPoints
<1>6. CASE ApplyPolicy
  BY <1>6 DEF ApplyPolicy, CensorRemainingPoints, CensoredBy
<1>7. CASE InsertTerminal
  BY <1>7 DEF InsertTerminal, DenyRetroactiveMutation, durable, ops, InsertDue
<1>8. CASE EndSettle
  BY <1>8 DEF EndSettle, CensorRemainingPoints, CensoredBy
<1>9. CASE ReturnClaim
  BY <1>9 DEF ReturnClaim, InsertDue, Leftover
<1>10. CASE BlockClaim
  BY <1>10 DEF BlockClaim, InsertDue, Leftover
<1>11. CASE UNCHANGED vars
  BY <1>11 DEF vars, durable, volatile, ops, calling, panel, params, call,
     settling, env
<1> QED
  BY <1>1, <1>2, <1>3, <1>4, <1>5, <1>6, <1>7, <1>8, <1>9, <1>10,
     <1>11 DEF Next, TickStep

----------------------------------------------------------------------------
(* An occurrence that reached the provider has a ledger row, and the call  *)
(* about to go out is the one start_call has just recorded.                *)
CallsOK ==
    /\ \A o \in Occurrences : /\ calls[o] <= 1
                              /\ calls[o] > 0 => ledger[o] # "NONE"
    /\ pc \in Calling => ledger[occ] = "STARTED"
    /\ pc = "call" => calls[occ] = 0

(* Every step keeps the ledger ahead of the provider calls. *)
LEMMA CallsStep == ASSUME TickInv, CallsOK, [Next]_vars PROVE CallsOK'
<1> USE DEF TickInv, TypeOK, PhaseOK, CallsOK, Calling, Settling, CallState
<1>1. CASE \/ SellWithoutBuy \/ InFlight \/ Recover \/ NoTransport
           \/ StartCallRefused
  BY <1>1
  DEF SellWithoutBuy, InFlight, Recover, NoTransport, StartCallRefused,
      SettleAs, env
<1>2. CASE \/ StartTick \/ TakeBatch \/ TakeQuote \/ BatchGone \/ GateBlocked
           \/ CallSettled \/ WorkDone \/ SaveJob \/ Advance \/ ClaimDue
           \/ NoteCall
  BY <1>2
  DEF StartTick, TakeBatch, TakeQuote, BatchGone, GateBlocked, CallSettled,
      WorkDone, SaveJob, Advance, ClaimDue, NoteCall, durable, volatile,
      calling, call, env
<1>3. CASE \/ CompleteJob \/ NothingToPublish \/ Crash
  BY <1>3
  DEF CompleteJob, NothingToPublish, Crash, ForgetTick, durable, calling, env
<1>4. CASE \/ BeginSettle \/ SetCandidateState \/ CensorIneligible
           \/ ApplyPolicy \/ PropagateBuyOut \/ EndSettle \/ ReturnClaim
           \/ BlockClaim
  BY <1>4
  DEF BeginSettle, SetCandidateState, CensorIneligible, ApplyPolicy,
      PropagateBuyOut, EndSettle, ReturnClaim, BlockClaim, durable, volatile,
      calling, call, env
<1>5. CASE CensorLate
  BY <1>5 DEF CensorLate, DenyRetroactiveMutation, ForgetTick, durable, calling,
     env, call
<1>6. CASE StartCall
  BY <1>6 DEF StartCall, SettleAs, Uncalled, Ready, env
<1>7. CASE ProviderCall
  BY <1>7 DEF ProviderCall, durable, calling
<1>8. CASE CompleteCall
  BY <1>8 DEF CompleteCall, env, call
<1>9. CASE InsertTerminal
  BY <1>9 DEF InsertTerminal, DenyRetroactiveMutation, ForgetTick, durable,
     calling, env, call
<1>10. CASE UNCHANGED vars
  BY <1>10 DEF vars, durable, volatile, ops, calling, panel, params, call,
     settling, env
<1> QED
  BY <1>1, <1>2, <1>3, <1>4, <1>5, <1>6, <1>7, <1>8, <1>9,
     <1>10 DEF Next, TickStep

----------------------------------------------------------------------------
(* A verdict OBSERVED comes from the stored answer of a completed call,    *)
(* and a completed call is never started or completed again.               *)
AnswersOK ==
    /\ ObservedIsAnswered
    /\ pc \in Calling => ledger[occ] = "STARTED"
    /\ pc \in Settling \cup {"settle"} /\ fate \in {"ANSWERED", "RECOVERED"}
          => ledger[occ] = "COMPLETED"
    /\ pc \in Settling /\ verdict = "OBSERVED" =>
          /\ fate \in {"ANSWERED", "RECOVERED"}
          /\ answer[occ].ok /\ cur \subseteq answer[occ].seen

(* _entity_terminal says OBSERVED only of a row in a good response. *)
LEMMA ObservedVerdict ==
    \A a \in Answer, r \in Rows :
        EntityTerminal(a, r) = "OBSERVED" => a.ok /\ r \in a.seen
BY DEF EntityTerminal, Answer

(* Every step keeps OBSERVED rows backed by a stored response. *)
LEMMA AnswersStep == ASSUME TickInv, AnswersOK, [Next]_vars PROVE AnswersOK'
<1> USE DEF TickInv, TypeOK, PhaseOK, AnswersOK, ObservedIsAnswered, Calling,
            Settling, Terminal, Open, DueState, CallState
<1>1. CASE \/ SellWithoutBuy \/ InFlight \/ Recover \/ NoTransport
           \/ StartCallRefused
  BY <1>1
  DEF SellWithoutBuy, InFlight, Recover, NoTransport, StartCallRefused,
      SettleAs, Uncalled, Ready, ops
<1>2. CASE \/ StartTick \/ TakeBatch \/ TakeQuote \/ BatchGone \/ GateBlocked
           \/ CallSettled \/ WorkDone \/ SaveJob \/ Advance \/ ProviderCall
           \/ NoteCall
  BY <1>2
  DEF StartTick, TakeBatch, TakeQuote, BatchGone, GateBlocked, CallSettled,
      WorkDone, SaveJob, Advance, ProviderCall, NoteCall, durable, volatile,
      ops, calling, call, settling
<1>3. CASE \/ CompleteJob \/ NothingToPublish \/ Crash
  BY <1>3
  DEF CompleteJob, NothingToPublish, Crash, ForgetTick, durable, ops, calling
<1>4. CASE \/ SetCandidateState \/ PropagateBuyOut
  BY <1>4
  DEF SetCandidateState, PropagateBuyOut, volatile, calling, call, settling
<1>5. CASE ClaimDue
  BY <1>5 DEF ClaimDue, calling, call
<1>6. CASE CensorLate
  BY <1>6 DEF CensorLate, DenyRetroactiveMutation, ForgetTick, durable, ops,
     calling, call, InsertDue
<1>7. CASE StartCall
  BY <1>7 DEF StartCall, SettleAs, Uncalled, Ready, ops
<1>8. CASE CompleteCall
  BY <1>8 DEF CompleteCall, ops, call
<1>9. CASE BeginSettle
  <2>1. PICK r \in live : cur' = {r} /\ verdict' = Verdict(r)
    BY <1>9 DEF BeginSettle
  <2>2. verdict' = "OBSERVED" =>
          /\ fate \in {"ANSWERED", "RECOVERED"}
          /\ answer[occ].ok /\ r \in answer[occ].seen
    BY <1>9, <2>1, ObservedVerdict DEF BeginSettle, Verdict, Fate
  <2>3. UNCHANGED <<due, ledger, answer, occ, fate>> /\ pc' \in Settling
    BY <1>9 DEF BeginSettle, durable, ops, calling, call
  <2> QED
    BY <1>9, <2>1, <2>2, <2>3 DEF BeginSettle
<1>10. CASE CensorIneligible
  BY <1>10 DEF CensorIneligible, calling, call, CensorRemainingPoints
<1>11. CASE ApplyPolicy
  BY <1>11 DEF ApplyPolicy, calling, call, CensorRemainingPoints
<1>12. CASE InsertTerminal
  BY <1>12 DEF InsertTerminal, DenyRetroactiveMutation, ForgetTick, durable, ops,
     calling, call, settling, InsertDue
<1>13. CASE EndSettle
  BY <1>13 DEF EndSettle, calling, call, CensorRemainingPoints
<1>14. CASE ReturnClaim
  BY <1>14 DEF ReturnClaim, volatile, call, settling, calling, InsertDue
<1>15. CASE BlockClaim
  BY <1>15 DEF BlockClaim, calling, call, settling, InsertDue
<1>16. CASE UNCHANGED vars
  BY <1>16 DEF vars, durable, volatile, ops, calling, panel, params, call,
     settling, env
<1> QED
  BY <1>1, <1>2, <1>3, <1>4, <1>5, <1>6, <1>7, <1>8, <1>9, <1>10, <1>11,
     <1>12, <1>13, <1>14, <1>15, <1>16 DEF Next, TickStep

----------------------------------------------------------------------------
(* What is collected for publication is what was written.                  *)
PanelOK ==
    /\ PublishedMatchesStore
    /\ \A s \in swept : due[s] = "CENSORED"
    /\ pc = "follow" => \A r \in cur : due[r] = verdict

(* Every step keeps published and collected rows equal to the store. *)
LEMMA PanelStep == ASSUME TickInv, PanelOK, [Next]_vars PROVE PanelOK'
<1>0. \A r \in Rows : due[r] \in Terminal => due'[r] = due[r]
  BY FinalStep
<1> USE DEF TickInv, TypeOK, PhaseOK, PanelOK, PublishedMatchesStore, Settled,
            Terminal, Open, DueState, Settling
<1>1. CASE \/ SellWithoutBuy \/ InFlight \/ Recover \/ NoTransport
           \/ StartCallRefused \/ StartCall
  BY <1>1
  DEF SellWithoutBuy, InFlight, Recover, NoTransport, StartCallRefused,
      StartCall, SettleAs, ops, panel, settling
<1>2. CASE \/ ClaimDue \/ ReturnClaim
  BY <1>2, <1>0
  DEF ClaimDue, ReturnClaim, volatile, panel, settling
<1>3. CASE \/ TakeBatch \/ TakeQuote \/ BatchGone \/ GateBlocked
           \/ CallSettled \/ WorkDone \/ Advance \/ ProviderCall \/ NoteCall
           \/ CompleteCall \/ PropagateBuyOut
  BY <1>3
  DEF TakeBatch, TakeQuote, BatchGone, GateBlocked, CallSettled, WorkDone,
      Advance, ProviderCall, NoteCall, CompleteCall, PropagateBuyOut,
      durable, volatile, ops, panel, settling
<1>4. CASE \/ BeginSettle \/ SetCandidateState
  BY <1>4
  DEF BeginSettle, SetCandidateState, durable, ops, panel, settling
<1>5. CASE \/ NothingToPublish \/ Crash
  BY <1>5
  DEF NothingToPublish, Crash, ForgetTick, durable, ops, panel
<1>6. CASE StartTick
  BY <1>6 DEF StartTick, ops, settling
<1>7. CASE CensorLate
  BY <1>7, <1>0 DEF CensorLate, DenyRetroactiveMutation, ForgetTick, durable,
     ops, panel, settling, InsertDue
<1>8. CASE CensorIneligible
  BY <1>8, <1>0 DEF CensorIneligible, panel, CensorRemainingPoints
<1>9. CASE ApplyPolicy
  BY <1>9, <1>0, CensoredByType DEF ApplyPolicy, panel, CensorRemainingPoints
<1>10. CASE InsertTerminal
  BY <1>10, <1>0 DEF InsertTerminal, DenyRetroactiveMutation, ForgetTick, durable,
     ops, panel, settling, InsertDue
<1>11. CASE EndSettle
  BY <1>11, <1>0, CensoredByType DEF EndSettle, panel, CensorRemainingPoints
<1>12. CASE BlockClaim
  BY <1>12, <1>0 DEF BlockClaim, Leftover, panel, settling, InsertDue
<1>13. CASE SaveJob
  BY <1>13 DEF SaveJob, ops, settling
<1>14. CASE CompleteJob
  BY <1>14 DEF CompleteJob, ForgetTick, ops
<1>15. CASE UNCHANGED vars
  BY <1>15 DEF vars, durable, volatile, ops, calling, panel, params, call,
     settling, env
<1> QED
  BY <1>1, <1>2, <1>3, <1>4, <1>5, <1>6, <1>7, <1>8, <1>9, <1>10, <1>11,
     <1>12, <1>13, <1>14, <1>15 DEF Next, TickStep

----------------------------------------------------------------------------
(* A quote is called for a row that is still CLAIMED.                      *)
QuotesOK ==
    /\ pc = "late" => \A r \in live \cap QuoteRows : due[r] = "CLAIMED"
    /\ QuoteCallIsCurrent

(* Every step keeps the row of a quote call CLAIMED until it settles. *)
LEMMA QuotesStep == ASSUME TickInv, QuotesOK, [Next]_vars PROVE QuotesOK'
<1> USE DEF TickInv, TypeOK, QuotesOK, QuoteCallIsCurrent
<1>1. CASE \/ SellWithoutBuy \/ InFlight \/ Recover \/ NoTransport
           \/ StartCallRefused
  BY <1>1
  DEF SellWithoutBuy, InFlight, Recover, NoTransport, StartCallRefused,
      SettleAs
<1>2. CASE \/ CompleteJob \/ NothingToPublish \/ Crash
  BY <1>2
  DEF CompleteJob, NothingToPublish, Crash, ForgetTick
<1>3. CASE \/ StartTick \/ ClaimDue \/ BatchGone \/ GateBlocked
           \/ ProviderCall \/ NoteCall \/ CompleteCall \/ BeginSettle
           \/ SetCandidateState \/ CensorIneligible \/ ApplyPolicy
           \/ PropagateBuyOut \/ EndSettle \/ CallSettled \/ WorkDone
           \/ ReturnClaim \/ BlockClaim \/ SaveJob
  BY <1>3
  DEF StartTick, ClaimDue, BatchGone, GateBlocked, ProviderCall, NoteCall,
      CompleteCall, BeginSettle, SetCandidateState, CensorIneligible,
      ApplyPolicy, PropagateBuyOut, EndSettle, CallSettled, WorkDone,
      ReturnClaim, BlockClaim, SaveJob, volatile
<1>4. CASE TakeBatch
  BY <1>4 DEF TakeBatch, SearchTodo, QuoteRows
<1>5. CASE TakeQuote
  BY <1>5 DEF TakeQuote, durable, ops
<1>6. CASE CensorLate
  BY <1>6 DEF CensorLate, DenyRetroactiveMutation, ForgetTick, InsertDue
<1>7. CASE StartCall
  BY <1>7 DEF StartCall, SettleAs, Uncalled, Ready, ops
<1>8. CASE InsertTerminal
  BY <1>8 DEF InsertTerminal, DenyRetroactiveMutation, ForgetTick
<1>9. CASE Advance
  BY <1>9 DEF Advance, durable, ops, volatile, call
<1>10. CASE UNCHANGED vars
  BY <1>10 DEF vars, durable, volatile, ops, calling, panel, params, call,
     settling, env
<1> QED
  BY <1>1, <1>2, <1>3, <1>4, <1>5, <1>6, <1>7, <1>8, <1>9,
     <1>10 DEF Next, TickStep

----------------------------------------------------------------------------
(* The policy of a SEARCH row commits before the row.                      *)
PolicyOK ==
    /\ SearchPolicyIsComplete
    /\ pc = "insert" => \A r \in cur \cap SearchRows : ShouldCensor(verdict) =>
          \A s \in Remaining(r) : due[s] \in Terminal

(* A row still to be written, or written over by a claim, a block or a     *)
(* late censor, is in no state that censors.                               *)
LEMMA ShouldCensorTerminal ==
    \A state : ShouldCensor(state) => state \in {"DISAPPEARED", "MISSING_TYPED"}
BY DEF ShouldCensor

(* The other points of a row's entity are rows. *)
LEMMA RemainingType == \A r \in Rows : Remaining(r) \subseteq Rows \ {r}
BY DEF Remaining

(* A step that neither settles a row nor sweeps keeps the policy. *)
LEMMA PolicyKept ==
    ASSUME TickInv, PolicyOK,
           \A r \in Rows : due[r] \in Terminal => due'[r] = due[r],
           \A r \in Rows : ShouldCensor(due'[r]) => due'[r] = due[r],
           pc' # "insert"
    PROVE  PolicyOK'
BY RemainingType DEF TickInv, TypeOK, PolicyOK, SearchPolicyIsComplete, SearchRows

(* Every step keeps the later points of a censoring SEARCH row settled. *)
LEMMA PolicyStep == ASSUME TickInv, PolicyOK, [Next]_vars PROVE PolicyOK'
<1>0. \A r \in Rows : due[r] \in Terminal => due'[r] = due[r]
  BY FinalStep
<1> USE DEF TickInv, TypeOK, Terminal, Open, DueState
<1>1. CASE \/ SellWithoutBuy \/ InFlight \/ Recover \/ NoTransport
           \/ StartCallRefused \/ StartCall
  BY <1>0, <1>1, PolicyKept
  DEF SellWithoutBuy, InFlight, Recover, NoTransport, StartCallRefused,
      StartCall, SettleAs, ops
<1>2. CASE \/ CompleteJob \/ NothingToPublish \/ Crash
  BY <1>0, <1>2, PolicyKept
  DEF CompleteJob, NothingToPublish, Crash, ForgetTick, durable, ops
<1>3. CASE \/ StartTick \/ TakeBatch \/ TakeQuote \/ BatchGone \/ GateBlocked
           \/ CallSettled \/ WorkDone \/ SaveJob \/ ProviderCall \/ NoteCall
           \/ CompleteCall \/ SetCandidateState \/ BeginSettle \/ PropagateBuyOut
  BY <1>0, <1>3, PolicyKept
  DEF StartTick, TakeBatch, TakeQuote, BatchGone, GateBlocked, CallSettled,
      WorkDone, SaveJob, ProviderCall, NoteCall, CompleteCall,
      SetCandidateState, BeginSettle, PropagateBuyOut, durable, ops, volatile
<1>4. CASE \/ ClaimDue \/ ReturnClaim \/ BlockClaim
  BY <1>0, <1>4, PolicyKept, ShouldCensorTerminal
  DEF ClaimDue, ReturnClaim, BlockClaim, volatile, InsertDue
<1>5. CASE CensorLate
  BY <1>0, <1>5, PolicyKept, ShouldCensorTerminal
  DEF CensorLate, DenyRetroactiveMutation, ForgetTick, durable, ops, InsertDue
<1>6. CASE \/ CensorIneligible \/ EndSettle
  BY <1>0, <1>6, PolicyKept, ShouldCensorTerminal
  DEF CensorIneligible, EndSettle, CensorRemainingPoints
<1>7. CASE ApplyPolicy
  <2>1. PICK r \in Rows : /\ cur = {r}
                          /\ CensorRemainingPoints(IF PolicyFirst(r)
                                                   THEN CensoredBy(r, verdict) ELSE {})
                          /\ UNCHANGED <<cur, verdict>>
    BY <1>7, OccurrenceRows DEF ApplyPolicy, PhaseOK, Settling
  <2>2. \A s \in Rows : due'[s] = due[s] \/ due'[s] = "CENSORED"
    BY <2>1 DEF CensorRemainingPoints
  <2>3. SearchPolicyIsComplete'
    BY <1>0, <2>2, ShouldCensorTerminal, RemainingType
    DEF PolicyOK, SearchPolicyIsComplete, SearchRows
  <2>4. ASSUME r \in SearchRows, ShouldCensor(verdict)
        PROVE  \A s \in Remaining(r) : due'[s] \in Terminal
    <3>1. \A s \in Remaining(r) : due[s] \in Open => due'[s] = "CENSORED"
      BY <2>1, <2>4, RemainingType
      DEF PolicyFirst, CensoredBy, CensorRemainingPoints
    <3> QED
      BY <1>0, <3>1, RemainingType
  <2> QED
    BY <2>1, <2>3, <2>4 DEF PolicyOK
<1>8. CASE InsertTerminal
  <2>1. CASE DenyRetroactiveMutation
    BY <1>0, <2>1, PolicyKept
    DEF DenyRetroactiveMutation, ForgetTick, durable, ops
  <2>2. CASE ~DenyRetroactiveMutation
    <3>1. PICK r \in cur : due' = [due EXCEPT ![r] = verdict] /\ pc' = "follow"
      BY <1>8, <2>2 DEF InsertTerminal, InsertDue
    <3>2. \A q \in SearchRows : ShouldCensor(due'[q]) =>
             \A s \in Remaining(q) : due[s] \in Terminal
      BY <1>8, <3>1 DEF PolicyOK, SearchPolicyIsComplete, SearchRows, InsertTerminal
    <3> QED
      BY <1>0, <3>1, <3>2, RemainingType DEF PolicyOK, SearchPolicyIsComplete, SearchRows
  <2> QED
    BY <2>1, <2>2
<1>9. CASE Advance \/ UNCHANGED vars
  BY <1>9 DEF Advance, vars, durable, volatile, ops, settling, PolicyOK,
     SearchPolicyIsComplete
<1> QED
  BY <1>1, <1>2, <1>3, <1>4, <1>5, <1>6, <1>7, <1>8, <1>9 DEF Next, TickStep

----------------------------------------------------------------------------
(* Debits.  The sums are cardinalities: a call adds a pair to Called, a    *)
(* start an occurrence to Started.                                         *)
Started == {o \in Occurrences : ledger[o] = "STARTED"}
Called == UNION {{o} \X (1 .. calls[o]) : o \in Occurrences}

One(b) == IF b THEN 1 ELSE 0

DebitOK ==
    /\ IsFiniteSet(Started) /\ IsFiniteSet(Called)
    /\ Cardinality(Called) + One(pc \in {"call", "complete"})
          <= debited + Cardinality(Started)
    /\ debited + One(pc = "debit") <= Cardinality(Called)
    /\ Cardinality(Called) <= debited + One(pc = "debit") + crashes
    /\ debited + One(pc \in {"call", "debit"}) <= CallCap

(* The counts are naturals. *)
LEMMA CountType ==
    ASSUME TickInv, DebitOK
    PROVE  /\ Cardinality(Called) \in Nat /\ Cardinality(Started) \in Nat
           /\ debited \in Nat /\ crashes \in Nat /\ CallCap \in Nat
BY FS_CardinalityType, BoundsAssumption DEF DebitOK, TickInv, TypeOK

(* Outside of a call nothing is counted. *)
LEMMA DebitKept ==
    ASSUME DebitOK, UNCHANGED <<calling, calls, crashes>>,
           pc \notin Calling, pc' \notin Calling
    PROVE  DebitOK'
BY DEF DebitOK, Started, Called, One, calling, Calling

(* An occurrence leaves or enters the ones that are STARTED. *)
LEMMA StartedStep ==
    ASSUME TickInv, NEW o \in Occurrences, NEW state \in {"STARTED", "COMPLETED"},
           IsFiniteSet(Started), ledger' = [ledger EXCEPT ![o] = state],
           ledger[o] # state
    PROVE  /\ IsFiniteSet(Started')
           /\ state = "STARTED" => Cardinality(Started') = Cardinality(Started) + 1
           /\ state # "STARTED" /\ ledger[o] = "STARTED"
                 => Cardinality(Started') = Cardinality(Started) - 1
<1>1. CASE state = "STARTED"
  <2>1. Started' = Started \cup {o} /\ o \notin Started
    BY <1>1 DEF Started, TickInv, TypeOK
  <2> QED
    BY <1>1, <2>1, FS_AddElement
<1>2. CASE state # "STARTED"
  <2>1. Started' = Started \ {o}
    BY <1>2 DEF Started, TickInv, TypeOK
  <2>2. ledger[o] = "STARTED" => o \in Started
    BY DEF Started
  <2> QED
    BY <1>2, <2>1, <2>2, FS_RemoveElement
<1> QED
  BY <1>1, <1>2

(* The first call of an occurrence is one call more. *)
LEMMA CalledStep ==
    ASSUME TickInv, NEW o \in Occurrences, calls[o] = 0, IsFiniteSet(Called),
           calls' = [calls EXCEPT ![o] = @ + 1]
    PROVE  IsFiniteSet(Called') /\ Cardinality(Called') = Cardinality(Called) + 1
<1>1. calls'[o] = 1 /\ \A q \in Occurrences : q # o => calls'[q] = calls[q]
  BY DEF TickInv, TypeOK
<1>2. 1 .. calls[o] = {} /\ 1 .. calls'[o] = {1}
  BY <1>1
<1>3. Called' = Called \cup {<<o, 1>>}
  <2>1. \A p \in Called' : p \in Called \/ p = <<o, 1>>
    BY <1>1, <1>2 DEF Called
  <2>2. <<o, 1>> \in Called'
    BY <1>1, <1>2 DEF Called
  <2>3. \A p \in Called : p \in Called'
    BY <1>1, <1>2 DEF Called
  <2> QED
    BY <2>1, <2>2, <2>3
<1>4. <<o, 1>> \notin Called
  BY <1>2 DEF Called
<1> QED
  BY <1>3, <1>4, FS_AddElement

(* Every step keeps ledger, calls, debits and crashes in balance. *)
LEMMA DebitStep == ASSUME TickInv, CallsOK, DebitOK, [Next]_vars PROVE DebitOK'
<1> USE DEF Calling
<1>1. CASE \/ SellWithoutBuy \/ InFlight \/ Recover \/ NoTransport
           \/ StartCallRefused
  BY <1>1, DebitKept
  DEF SellWithoutBuy, InFlight, Recover, NoTransport, StartCallRefused,
      SettleAs, Uncalled, Ready, env, calling
<1>2. CASE \/ StartTick \/ TakeBatch \/ TakeQuote \/ BatchGone \/ GateBlocked
           \/ CallSettled \/ WorkDone \/ SaveJob \/ ClaimDue
  BY <1>2, DebitKept
  DEF StartTick, TakeBatch, TakeQuote, BatchGone, GateBlocked, CallSettled,
      WorkDone, SaveJob, ClaimDue, Uncalled, Ready, durable, env
<1>3. CASE \/ CompleteJob \/ NothingToPublish
  BY <1>3, DebitKept
  DEF CompleteJob, NothingToPublish, ForgetTick, durable, env
<1>4. CASE \/ BeginSettle \/ SetCandidateState \/ CensorIneligible
           \/ ApplyPolicy \/ PropagateBuyOut \/ EndSettle \/ ReturnClaim
           \/ BlockClaim
  BY <1>4, DebitKept
  DEF BeginSettle, SetCandidateState, CensorIneligible, ApplyPolicy,
      PropagateBuyOut, EndSettle, ReturnClaim, BlockClaim, durable, volatile, env
<1>5. CASE \/ CensorLate \/ InsertTerminal
  BY <1>5, DebitKept
  DEF CensorLate, InsertTerminal, DenyRetroactiveMutation, ForgetTick, durable, env
<1>6. CASE \/ Advance \/ UNCHANGED vars
  BY <1>6 DEF Advance, vars, durable, volatile, calling, env, DebitOK, Started, Called, One
<1>7. CASE StartCall
  <2>1. live \in Occurrences /\ ledger[live] = "NONE"
    BY <1>7 DEF StartCall, Uncalled, Ready, TickInv, PhaseOK
  <2>2. IsFiniteSet(Started') /\ Cardinality(Started') = Cardinality(Started) + 1
    BY <1>7, <2>1, StartedStep DEF StartCall, DebitOK
  <2>3. Called' = Called /\ debited' = debited /\ crashes' = crashes
        /\ pc = "late" /\ pc' = "call" /\ debited + 1 <= CallCap
    BY <1>7, CountType DEF StartCall, SettleAs, Uncalled, Ready, OverBudget, env, Called
  <2> QED
    BY <2>2, <2>3, CountType DEF DebitOK, One
<1>8. CASE ProviderCall
  <2>1. occ \in Occurrences /\ calls[occ] = 0
    BY <1>8 DEF ProviderCall, TickInv, PhaseOK, CallsOK
  <2>2. IsFiniteSet(Called') /\ Cardinality(Called') = Cardinality(Called) + 1
    BY <1>8, <2>1, CalledStep DEF ProviderCall, DebitOK
  <2>3. Started' = Started /\ debited' = debited /\ crashes' = crashes
        /\ pc = "call" /\ pc' = "debit"
    BY <1>8 DEF ProviderCall, durable, calling, Started
  <2> QED
    BY <2>2, <2>3, CountType DEF DebitOK, One
<1>9. CASE NoteCall
  <2>1. Started' = Started /\ Called' = Called /\ debited' = debited + 1
        /\ crashes' = crashes /\ pc = "debit" /\ pc' = "complete"
    BY <1>9 DEF NoteCall, env, Started, Called
  <2> QED
    BY <2>1, CountType DEF DebitOK, One
<1>10. CASE CompleteCall
  <2>1. occ \in Occurrences /\ ledger[occ] = "STARTED"
    BY <1>10 DEF CompleteCall, TickInv, PhaseOK, CallsOK
  <2>2. IsFiniteSet(Started') /\ Cardinality(Started') = Cardinality(Started) - 1
    BY <1>10, <2>1, StartedStep DEF CompleteCall, DebitOK
  <2>3. Called' = Called /\ debited' = debited /\ crashes' = crashes
        /\ pc = "complete" /\ pc' = "settle"
    BY <1>10 DEF CompleteCall, env, Called
  <2> QED
    BY <2>2, <2>3, CountType DEF DebitOK, One
<1>11. CASE Crash
  <2>1. Started' = Started /\ Called' = Called /\ debited' = debited
        /\ crashes' = crashes + 1 /\ pc' = "idle"
    BY <1>11 DEF Crash, ForgetTick, durable, calling, Started, Called
  <2> QED
    BY <2>1, CountType DEF DebitOK, One
<1> QED
  BY <1>1, <1>2, <1>3, <1>4, <1>5, <1>6, <1>7, <1>8, <1>9, <1>10, <1>11
  DEF Next, TickStep

----------------------------------------------------------------------------
(* Eligibility.  Between the verdict on an entity and the row that caused  *)
(* it, its rows are still being censored and that row is still open.       *)
Sealing == {"policy", "insert"}

SealedFor(r) ==
    /\ cand[r.entity] = "X_POPULATION_INELIGIBLE" =>
          \/ due[r] \in Terminal
          \/ pc = "xcensor" /\ \E c \in cur : c.entity = r.entity
          \/ pc \in Sealing /\ r \in cur
    /\ cand[r.entity] = "X_ELIGIBLE" /\ XRow(r) =>
          \/ due[r] = "OBSERVED"
          \/ pc \in Sealing /\ r \in cur /\ verdict = "OBSERVED"

EligibleOK ==
    /\ pc = "xcand" => \A r \in cur : XRow(r)
    /\ Undisturbed => \A r \in Rows : SealedFor(r)

(* A step outside the settling of a row leaves the sealed rows terminal. *)
LEMMA EligibleKept ==
    ASSUME TickInv, EligibleOK, UNCHANGED <<cand, crashes, raises>>,
           \A r \in Rows : due[r] \in Terminal => due'[r] = due[r],
           pc \notin Sealing \cup {"xcensor"}, pc' # "xcand"
    PROVE  EligibleOK'
BY DEF EligibleOK, SealedFor, Undisturbed, Sealing, Terminal

(* A disturbed tick promises nothing. *)
LEMMA DisturbedKept ==
    ASSUME TickInv, pc' = "idle", crashes' = crashes + 1 \/ raises' = raises + 1,
           crashes' \in Nat, raises' \in Nat
    PROVE  EligibleOK'
BY DEF EligibleOK, Undisturbed, TickInv, TypeOK

(* Every step keeps ineligible entities closed and eligible ones observed. *)
LEMMA EligibleStep == ASSUME TickInv, EligibleOK, [Next]_vars PROVE EligibleOK'
<1>0. \A r \in Rows : due[r] \in Terminal => due'[r] = due[r]
  BY FinalStep
<1>0a. crashes \in Nat /\ raises \in Nat /\ due \in [Rows -> DueState]
       /\ cand \in [Entities -> CandidateState]
  BY DEF TickInv, TypeOK
<1> USE DEF Sealing
<1>1. CASE \/ SellWithoutBuy \/ InFlight \/ Recover \/ NoTransport
           \/ StartCallRefused \/ StartCall
  BY <1>0, <1>1, EligibleKept
  DEF SellWithoutBuy, InFlight, Recover, NoTransport, StartCallRefused,
      StartCall, SettleAs, Uncalled, Ready, env, ops
<1>2. CASE \/ StartTick \/ TakeBatch \/ TakeQuote \/ BatchGone \/ GateBlocked
           \/ CallSettled \/ WorkDone \/ SaveJob \/ ClaimDue \/ ProviderCall
           \/ NoteCall \/ CompleteCall
  BY <1>0, <1>2, EligibleKept
  DEF StartTick, TakeBatch, TakeQuote, BatchGone, GateBlocked, CallSettled,
      WorkDone, SaveJob, ClaimDue, ProviderCall, NoteCall, CompleteCall,
      Uncalled, Ready, durable, ops, env
<1>3. CASE \/ CompleteJob \/ NothingToPublish
  BY <1>0, <1>3, EligibleKept
  DEF CompleteJob, NothingToPublish, ForgetTick, durable, ops, env
<1>4. CASE \/ PropagateBuyOut \/ EndSettle \/ ReturnClaim \/ BlockClaim
  BY <1>0, <1>4, EligibleKept
  DEF PropagateBuyOut, EndSettle, ReturnClaim, BlockClaim, volatile, env
<1>5. CASE Advance \/ UNCHANGED vars
  BY <1>5 DEF Advance, vars, durable, volatile, ops, settling, env, EligibleOK,
     SealedFor, Undisturbed
<1>6. CASE Crash
  BY <1>0a, <1>6, DisturbedKept DEF Crash, ForgetTick
<1>7. CASE DenyRetroactiveMutation
  BY <1>0a, <1>7, DisturbedKept DEF DenyRetroactiveMutation, ForgetTick
<1>8. CASE CensorLate
  BY <1>0, <1>7, <1>8, EligibleKept DEF CensorLate, env
<1>9. CASE BeginSettle
  BY <1>9 DEF BeginSettle, XPhase, EligibleOK, SealedFor, Undisturbed, durable, ops,
     env
<1>10. ASSUME TickInv, pc \in Settling PROVE \E r \in Rows : cur = {r} /\ verdict \in Terminal
  BY <1>10, OccurrenceRows DEF TickInv, PhaseOK
<1>11. CASE SetCandidateState
  <2>1. PICK c \in Rows : cur = {c} /\ verdict \in Terminal
    BY <1>10, <1>11 DEF SetCandidateState, Settling
  <2>2. /\ cand' = [cand EXCEPT ![c.entity] = XOutcome(c, verdict)]
        /\ pc' = IF XOutcome(c, verdict) = "X_POPULATION_INELIGIBLE"
                 THEN "xcensor" ELSE "policy"
        /\ UNCHANGED <<due, cur, verdict, crashes, raises>> /\ pc = "xcand" /\ XRow(c)
    BY <1>11, <2>1 DEF SetCandidateState, settling, env, EligibleOK
  <2>3. c.entity \in Entities /\ \A r \in Rows : r.entity \in Entities
    BY DEF Entities
  <2>4. XOutcome(c, verdict) = "X_ELIGIBLE" =>
           verdict = "OBSERVED" /\ \A s \in XPeers(c) : due[s] = "OBSERVED"
    BY DEF XOutcome
  <2>5. ASSUME Undisturbed, NEW r \in Rows PROVE SealedFor(r)'
    <3>1. CASE r.entity # c.entity
      <4>1. cand'[r.entity] = cand[r.entity] /\ due' = due
        BY <1>0a, <2>2, <2>3, <3>1
      <4> QED
        BY <2>2, <2>5, <4>1 DEF EligibleOK, SealedFor
    <3>2. CASE r.entity = c.entity
      <4>1. cand'[r.entity] = XOutcome(c, verdict)
        BY <1>0a, <2>2, <2>3, <3>2
      <4>2. CASE XOutcome(c, verdict) = "X_POPULATION_INELIGIBLE"
        BY <2>1, <2>2, <3>2, <4>1, <4>2 DEF SealedFor
      <4>3. CASE XOutcome(c, verdict) = "X_ELIGIBLE"
        <5>1. XRow(r) => r = c \/ r \in XPeers(c)
          BY <3>2 DEF XPeers
        <5> QED
          BY <2>1, <2>2, <2>4, <4>1, <4>3, <5>1 DEF SealedFor
      <4> QED
        BY <4>1, <4>2, <4>3 DEF SealedFor
    <3> QED
      BY <3>1, <3>2
  <2> QED
    BY <2>2, <2>5 DEF EligibleOK, Undisturbed
<1>12. CASE CensorIneligible
  <2>1. PICK c \in Rows : cur = {c} /\ verdict \in Terminal
    BY <1>10, <1>12 DEF CensorIneligible, Settling
  <2>2. /\ \A s \in Rows : s.entity = c.entity /\ s # c /\ due[s] \in Open
                           => due'[s] = "CENSORED"
        /\ UNCHANGED <<cand, cur, verdict, crashes, raises>>
        /\ pc = "xcensor" /\ pc' = "policy"
    BY <1>12, <2>1 DEF CensorIneligible, CensorRemainingPoints, env
  <2>3. ASSUME Undisturbed, NEW r \in Rows PROVE SealedFor(r)'
    BY <1>0, <1>0a, <2>1, <2>2, <2>3
    DEF EligibleOK, SealedFor, DueState, Open, Terminal
  <2> QED
    BY <2>2, <2>3 DEF EligibleOK, Undisturbed
<1>13. CASE ApplyPolicy
  <2>1. UNCHANGED <<cand, cur, verdict, crashes, raises>> /\ pc = "policy" /\ pc' = "insert"
    BY <1>13 DEF ApplyPolicy, env
  <2>2. ASSUME Undisturbed, NEW r \in Rows PROVE SealedFor(r)'
    BY <1>0, <2>1, <2>2 DEF EligibleOK, SealedFor, Terminal
  <2> QED
    BY <2>1, <2>2 DEF EligibleOK, Undisturbed
<1>14. CASE InsertTerminal
  <2>1. CASE ~DenyRetroactiveMutation
    <3>1. PICK c \in Rows : cur = {c} /\ verdict \in Terminal
      BY <1>10, <1>14 DEF InsertTerminal, Settling
    <3>2. /\ due' = [due EXCEPT ![c] = verdict] /\ pc = "insert" /\ pc' = "follow"
          /\ UNCHANGED <<cand, cur, verdict, crashes, raises>>
      BY <1>14, <2>1, <3>1 DEF InsertTerminal, InsertDue, settling, env
    <3>3. ASSUME Undisturbed, NEW r \in Rows PROVE SealedFor(r)'
      BY <1>0, <1>0a, <3>1, <3>2, <3>3 DEF EligibleOK, SealedFor, Terminal
    <3> QED
      BY <3>2, <3>3 DEF EligibleOK, Undisturbed
  <2> QED
    BY <1>7, <2>1
<1> QED
  BY <1>1, <1>2, <1>3, <1>4, <1>5, <1>6, <1>8, <1>9, <1>11, <1>12, <1>13, <1>14
  DEF Next, TickStep

----------------------------------------------------------------------------
(* A SELL follows its BUYs.  A claim that is not split leaves no matured   *)
(* row PENDING; from there every BUY is settled before a SELL is taken.    *)
ClaimsUnsplit == IsFiniteSet(Rows) /\ Cardinality(Rows) <= MaxClaims

IsSell(r) == r.primitive = "SELL"
IsBuy(r) == r.primitive = "BUY"

(* Where the rows the tick holds are, phase by phase. *)
HoldOK ==
    /\ pc \in {"idle", "claim", "close", "publish"} => todo = {}
    /\ pc \in {"idle", "claim", "work", "close", "publish"} => live = {}
    /\ pc \notin Settling => cur = {}
    /\ \A r \in todo \cup live \cup cur : due[r] # "PENDING"

(* As long as a SELL is to come, every matured BUY is settled or held; and *)
(* a SELL is taken when only SELLs are left.                               *)
OrderOK ==
    /\ (\E r \in live : IsSell(r)) => \A s \in todo : IsSell(s)
    /\ (\E r \in todo \cup live : IsSell(r)) =>
          \A b \in Rows : IsBuy(b) /\ b.due_at <= now =>
             due[b] \in Terminal \/ b \in todo \cup live \cup cur

(* An observed BUY has reached the open SELLs of its entity. *)
BuyOutOK ==
    Undisturbed => \A b, r \in Rows :
        IsBuy(b) /\ due[b] = "OBSERVED" /\ IsSell(r) /\ r.entity = b.entity
        /\ due[r] \in Open
            => r \in buyOut \/ (pc = "follow" /\ b \in cur)

(* Every step keeps the rows a tick holds where its phase has them. *)
LEMMA HoldStep == ASSUME TickInv, HoldOK, [Next]_vars PROVE HoldOK'
<1>0. \A r \in Rows : due[r] \in Terminal => due'[r] = due[r]
  BY FinalStep
<1> USE DEF TickInv, TypeOK, PhaseOK, Settling, Calling, HoldOK
<1>1. CASE \/ SellWithoutBuy \/ InFlight \/ Recover \/ NoTransport
           \/ StartCallRefused \/ StartCall
  BY <1>1
  DEF SellWithoutBuy, InFlight, Recover, NoTransport, StartCallRefused,
      StartCall, SettleAs, Uncalled, Ready, settling, ops
<1>2. CASE \/ StartTick \/ BatchGone \/ CallSettled \/ WorkDone \/ SaveJob
           \/ ProviderCall \/ NoteCall \/ CompleteCall
  BY <1>2
  DEF StartTick, BatchGone, CallSettled, WorkDone, SaveJob, ProviderCall, NoteCall,
      CompleteCall, durable, ops, settling
<1>2a. CASE \/ TakeBatch \/ TakeQuote
  BY <1>2a DEF TakeBatch, TakeQuote, SearchTodo, durable, ops, settling
<1>2b. CASE GateBlocked
  BY <1>2b DEF GateBlocked, Uncalled, Ready, durable, ops, settling
<1>3. CASE \/ CompleteJob \/ NothingToPublish \/ Crash \/ DenyRetroactiveMutation
  BY <1>3
  DEF CompleteJob, NothingToPublish, Crash, DenyRetroactiveMutation, ForgetTick
<1>4. CASE ClaimDue
  BY <1>4 DEF ClaimDue, settling, DueState, Open
<1>5. CASE CensorLate
  BY <1>3, <1>5 DEF CensorLate, InsertDue, settling
<1>6. CASE \/ BeginSettle \/ SetCandidateState
  BY <1>6 DEF BeginSettle, SetCandidateState, durable, ops, settling
<1>7. CASE \/ CensorIneligible \/ ApplyPolicy \/ EndSettle
  BY <1>7 DEF CensorIneligible, ApplyPolicy, EndSettle, CensorRemainingPoints
<1>8. CASE InsertTerminal
  BY <1>3, <1>8 DEF InsertTerminal, InsertDue, settling, Terminal
<1>9. CASE PropagateBuyOut
  BY <1>9 DEF PropagateBuyOut, volatile, settling
<1>10. CASE \/ ReturnClaim \/ BlockClaim
  BY <1>10 DEF ReturnClaim, BlockClaim, volatile, settling, InsertDue
<1>11. CASE \/ Advance \/ UNCHANGED vars
  BY <1>11 DEF Advance, vars, durable, volatile, ops, settling
<1> QED
  BY <1>1, <1>2, <1>2a, <1>2b, <1>3, <1>4, <1>5, <1>6, <1>7, <1>8, <1>9, <1>10, <1>11
  DEF Next, TickStep

(* A claim that is not split takes every matured PENDING row. *)
LEMMA ClaimsAll ==
    ASSUME ClaimsUnsplit, NEW C \in SUBSET Rows, IsClaim(C)
    PROVE  C = {r \in Rows : due[r] = "PENDING" /\ r.due_at <= now}
<1> DEFINE matured == {r \in Rows : due[r] = "PENDING" /\ r.due_at <= now}
<1>1. C \subseteq matured /\ (C = matured \/ Cardinality(C) = MaxClaims)
  BY DEF IsClaim
<1>2. CASE Cardinality(C) = MaxClaims
  <2>1. IsFiniteSet(Rows) /\ IsFiniteSet(C) /\ Cardinality(C) <= Cardinality(Rows)
        /\ Cardinality(Rows) \in Nat /\ Cardinality(C) \in Nat
    BY FS_Subset, FS_CardinalityType DEF ClaimsUnsplit
  <2>2. Cardinality(C) = Cardinality(Rows)
    BY <1>2, <2>1, BoundsAssumption DEF ClaimsUnsplit
  <2>3. C = Rows
    BY <2>1, <2>2, FS_Subset
  <2> QED
    BY <1>1, <2>3
<1> QED
  BY <1>1, <1>2

(* Every step keeps the matured BUYs ahead of the SELLs. *)
LEMMA OrderStep ==
    ASSUME ClaimsUnsplit, TickInv, HoldOK, PanelOK, OrderOK, [Next]_vars
    PROVE  OrderOK'
<1>0. \A r \in Rows : due[r] \in Terminal => due'[r] = due[r]
  BY FinalStep
<1> USE DEF TickInv, TypeOK, PhaseOK, Settling, Calling, IsSell, IsBuy
<1>1. CASE \/ SellWithoutBuy \/ InFlight \/ Recover \/ NoTransport
           \/ StartCallRefused \/ StartCall
  BY <1>1
  DEF SellWithoutBuy, InFlight, Recover, NoTransport, StartCallRefused,
      StartCall, SettleAs, settling, ops, params, OrderOK
<1>2. CASE \/ CallSettled \/ WorkDone \/ SaveJob \/ ProviderCall \/ NoteCall
           \/ CompleteCall \/ BatchGone
  BY <1>2
  DEF CallSettled, WorkDone, SaveJob, ProviderCall, NoteCall, CompleteCall,
      BatchGone, durable, ops, settling, params, OrderOK
<1>3. CASE \/ CompleteJob \/ NothingToPublish \/ Crash \/ DenyRetroactiveMutation
           \/ StartTick
  BY <1>3
  DEF CompleteJob, NothingToPublish, Crash, DenyRetroactiveMutation, ForgetTick,
      StartTick, HoldOK, OrderOK
<1>4. CASE ClaimDue
  <2>1. PICK C \in SUBSET Rows :
          /\ IsClaim(C)
          /\ due' = [r \in Rows |-> IF r \in C THEN "CLAIMED" ELSE due[r]]
          /\ todo' = C \cup {r \in Rows : due[r] = "CLAIMED" /\ r.due_at <= now}
    BY <1>4 DEF ClaimDue
  <2>2. \A b \in Rows : b.due_at <= now => due'[b] \in Terminal \/ b \in todo'
    BY <2>1, ClaimsAll DEF DueState, Open
  <2> QED
    BY <1>4, <2>2 DEF ClaimDue, HoldOK, OrderOK
<1>5. CASE TakeBatch
  BY <1>5 DEF TakeBatch, SearchTodo, SearchRows, durable, ops, settling, params,
     HoldOK, OrderOK
<1>6. CASE TakeQuote
  BY <1>6 DEF TakeQuote, durable, ops, settling, params, HoldOK, OrderOK, DueState, Open
<1>7. CASE GateBlocked
  BY <1>7 DEF GateBlocked, SearchRows, QuoteRows, durable, ops, settling, params, HoldOK,
     OrderOK
<1>8. CASE CensorLate
  BY <1>0, <1>3, <1>8 DEF CensorLate, InsertDue, settling, params, Terminal, OrderOK
<1>9. CASE \/ BeginSettle \/ SetCandidateState
  BY <1>9 DEF BeginSettle, SetCandidateState, durable, ops, settling, params, HoldOK, OrderOK
<1>10. CASE \/ CensorIneligible \/ ApplyPolicy
  BY <1>0, <1>10 DEF CensorIneligible, ApplyPolicy, params, OrderOK
<1>11. CASE InsertTerminal
  BY <1>0, <1>3, <1>11 DEF InsertTerminal, InsertDue, settling, params, OrderOK
<1>12. CASE PropagateBuyOut
  BY <1>12 DEF PropagateBuyOut, volatile, settling, params, OrderOK
<1>14. CASE \/ ReturnClaim \/ BlockClaim
  BY <1>14 DEF ReturnClaim, BlockClaim, volatile, settling, params, HoldOK, OrderOK
<1>15. CASE \/ Advance \/ UNCHANGED vars
  BY <1>15 DEF Advance, vars, durable, volatile, ops, settling, params, OrderOK
<1>16. CASE EndSettle
  <2>1. \A r \in cur : due[r] \in Terminal
    BY <1>16 DEF EndSettle, PanelOK
  <2> QED
    BY <1>0, <1>16, <2>1 DEF EndSettle, params, OrderOK
<1> QED
  BY <1>1, <1>2, <1>3, <1>4, <1>5, <1>6, <1>7, <1>8, <1>9, <1>10, <1>11, <1>12,
     <1>14, <1>15, <1>16 DEF Next, TickStep

(* A step that observes nothing keeps what the observed BUYs have reached. *)
LEMMA BuyOutKept ==
    ASSUME TickInv, BuyOutOK, UNCHANGED <<buyOut, crashes, raises>>,
           \A r \in Rows : due[r] \in Terminal => due'[r] = due[r],
           \A r \in Rows : due'[r] = "OBSERVED" => due[r] = "OBSERVED",
           pc # "follow"
    PROVE  BuyOutOK'
BY DEF TickInv, TypeOK, BuyOutOK, Undisturbed, Terminal, Open, DueState

(* Every step keeps the outAmount of an observed BUY with the open SELLs   *)
(* of its entity, unless a crash interrupts _propagate_buy_out.            *)
LEMMA BuyOutStep == ASSUME TickInv, PanelOK, BuyOutOK, [Next]_vars PROVE BuyOutOK'
<1>0. \A r \in Rows : due[r] \in Terminal => due'[r] = due[r]
  BY FinalStep
<1>0a. crashes \in Nat /\ raises \in Nat /\ due \in [Rows -> DueState]
  BY DEF TickInv, TypeOK
<1>1. CASE \/ SellWithoutBuy \/ InFlight \/ Recover \/ NoTransport
           \/ StartCallRefused \/ StartCall
  BY <1>0, <1>1, BuyOutKept
  DEF SellWithoutBuy, InFlight, Recover, NoTransport, StartCallRefused,
      StartCall, SettleAs, Uncalled, Ready, env, ops
<1>2. CASE \/ StartTick \/ TakeBatch \/ TakeQuote \/ BatchGone \/ GateBlocked
           \/ CallSettled \/ WorkDone \/ SaveJob \/ ProviderCall
           \/ NoteCall \/ CompleteCall
  BY <1>0, <1>2, BuyOutKept
  DEF StartTick, TakeBatch, TakeQuote, BatchGone, GateBlocked, CallSettled,
      WorkDone, SaveJob, ProviderCall, NoteCall, CompleteCall,
      Uncalled, Ready, durable, ops, env
<1>3. CASE \/ CompleteJob \/ NothingToPublish
  BY <1>0, <1>3, BuyOutKept
  DEF CompleteJob, NothingToPublish, durable, ops, env
<1>4. CASE \/ Crash \/ DenyRetroactiveMutation
  BY <1>0a, <1>4 DEF Crash, DenyRetroactiveMutation, BuyOutOK, Undisturbed
<1>5. CASE \/ ClaimDue \/ ReturnClaim \/ BlockClaim
  BY <1>0, <1>0a, <1>5, BuyOutKept
  DEF ClaimDue, ReturnClaim, BlockClaim, InsertDue, env
<1>6. CASE CensorLate
  BY <1>0, <1>0a, <1>4, <1>6, BuyOutKept DEF CensorLate, InsertDue, env
<1>7. CASE \/ BeginSettle \/ SetCandidateState
  BY <1>0, <1>7, BuyOutKept DEF BeginSettle, SetCandidateState, durable, ops, env
<1>8. CASE \/ CensorIneligible \/ ApplyPolicy
  BY <1>0, <1>0a, <1>8, BuyOutKept
  DEF CensorIneligible, ApplyPolicy, CensorRemainingPoints, env
<1>9. CASE InsertTerminal /\ ~DenyRetroactiveMutation
  <2>1. PICK c \in cur : due' = [due EXCEPT ![c] = verdict]
    BY <1>9 DEF InsertTerminal, InsertDue
  <2>2. pc = "insert" /\ pc' = "follow" /\ UNCHANGED <<cur, buyOut, crashes, raises>>
    BY <1>9 DEF InsertTerminal, settling, env
  <2> QED
    BY <1>0, <1>0a, <2>1, <2>2 DEF BuyOutOK, Undisturbed, DueState, Open, Terminal
<1>10. CASE PropagateBuyOut
  BY <1>10 DEF PropagateBuyOut, volatile, settling, env, BuyOutOK, Undisturbed
<1>11. CASE EndSettle
  <2>1. PICK c \in Rows : cur = {c}
    BY <1>11, OccurrenceRows DEF EndSettle, TickInv, PhaseOK, Settling
  <2>2. due[c] = verdict /\ UNCHANGED <<buyOut, crashes, raises>> /\ pc' = "settle"
        /\ \A r \in Rows : due'[r] = due[r] \/ due'[r] = "CENSORED"
    BY <1>0a, <1>11, <2>1 DEF EndSettle, PanelOK, CensorRemainingPoints, env
  <2>3. verdict = "OBSERVED" /\ IsBuy(c) =>
           \A r \in Rows : IsSell(r) /\ r.entity = c.entity /\ due[r] \in Open => r \in buyOut
    BY <1>11, <2>1 DEF EndSettle, Propagated, DependentSells, IsBuy, IsSell
  <2>4. \A r \in Rows : due'[r] \in Open => due[r] \in Open
    BY <2>2 DEF Open
  <2>5. \A b \in Rows : due'[b] = "OBSERVED" => due[b] = "OBSERVED"
    BY <2>2
  <2> QED
    BY <2>1, <2>2, <2>3, <2>4, <2>5 DEF BuyOutOK, Undisturbed
<1>12. CASE \/ Advance \/ UNCHANGED vars
  BY <1>12 DEF Advance, vars, durable, volatile, ops, settling, env, BuyOutOK, Undisturbed
<1> QED
  BY <1>1, <1>2, <1>3, <1>4, <1>5, <1>6, <1>7, <1>8, <1>9, <1>10, <1>11, <1>12
  DEF Next, TickStep

----------------------------------------------------------------------------
(* The theorems.                                                           *)

TickSafety ==
    /\ TickInv /\ CallsOK /\ AnswersOK /\ PanelOK /\ QuotesOK
    /\ PolicyOK /\ DebitOK /\ EligibleOK /\ HoldOK /\ BuyOutOK

(* The invariant holds before the first tick. *)
LEMMA TickSafetyInit == Init => TickSafety
<1> SUFFICES ASSUME Init PROVE TickSafety
  OBVIOUS
<1>1. TickInv
  BY TickInvInit
<1>2. CallsOK /\ AnswersOK /\ PanelOK /\ QuotesOK
  BY DEF Init, CallsOK, AnswersOK, ObservedIsAnswered, PanelOK, QuotesOK,
         PublishedMatchesStore, QuoteCallIsCurrent, Calling, Settling
<1>3. PolicyOK
  BY ShouldCensorTerminal
  DEF Init, PolicyOK, SearchPolicyIsComplete, SearchRows
<1>4. DebitOK
  <2>1. Started = {} /\ Called = {}
    <3>1. \A o \in Occurrences : 1 .. calls[o] = {}
      BY DEF Init
    <3> QED
      BY <3>1 DEF Init, Started, Called
  <2>2. IsFiniteSet({}) /\ Cardinality({}) = 0
    BY FS_EmptySet
  <2> QED
    BY <2>1, <2>2, BoundsAssumption DEF Init, DebitOK, One
<1>5. EligibleOK /\ HoldOK /\ BuyOutOK
  BY DEF Init, EligibleOK, SealedFor, HoldOK, BuyOutOK, Entities, Settling
<1> QED
  BY <1>1, <1>2, <1>3, <1>4, <1>5 DEF TickSafety

(* TickSafety is an inductive invariant of the tick. *)
THEOREM TickInvariant == Spec => []TickSafety
<1>1. Init => TickSafety
  BY TickSafetyInit
<1>2. TickSafety /\ [Next]_vars => TickSafety'
  BY TickInvStep, CallsStep, AnswersStep, PanelStep, QuotesStep, PolicyStep,
     DebitStep, EligibleStep, HoldStep, BuyOutStep DEF TickSafety
<1> QED
  BY <1>1, <1>2, PTL DEF Spec

(* The store and the tick keep the types of their state in every reachable *)
(* state of tick_once.                                                     *)
THEOREM TickTypeCorrect == Spec => []TypeOK
<1>1. TickSafety => TypeOK
  BY DEF TickSafety, TickInv
<1> QED
  BY <1>1, TickInvariant, PTL

(* call_state and start_call keep an occurrence from reaching the provider *)
(* twice, however many crashes interrupt the tick.                         *)
THEOREM TickCallsOnce == Spec => []OneCallPerOccurrence
<1>1. TickSafety => OneCallPerOccurrence
  BY DEF TickSafety, CallsOK, OneCallPerOccurrence
<1> QED
  BY <1>1, TickInvariant, PTL

(* No value is invented: every OBSERVED row is in the stored response of a *)
(* completed call that served it.                                          *)
THEOREM TickObservesAnswers == Spec => []ObservedIsAnswered
<1>1. TickSafety => ObservedIsAnswered
  BY DEF TickSafety, AnswersOK
<1> QED
  BY <1>1, TickInvariant, PTL

(* published_rows, an open publication job and the published panels agree  *)
(* with due_observations.                                                  *)
THEOREM TickPublishesTheStore == Spec => []PublishedMatchesStore
<1>1. TickSafety => PublishedMatchesStore
  BY DEF TickSafety, PanelOK
<1> QED
  BY <1>1, TickInvariant, PTL

(* A quote call goes out only for a row that is still CLAIMED. *)
THEOREM TickQuotesAreCurrent == Spec => []QuoteCallIsCurrent
<1>1. TickSafety => QuoteCallIsCurrent
  BY DEF TickSafety, QuotesOK
<1> QED
  BY <1>1, TickInvariant, PTL

(* A SEARCH row that is MISSING_TYPED or DISAPPEARED under a censoring      *)
(* policy has no open later point, whatever crashes come between           *)
(* _apply_missingness_policy and insert_due.                               *)
THEOREM TickSearchPolicy == Spec => []SearchPolicyIsComplete
<1>1. TickSafety => SearchPolicyIsComplete
  BY DEF TickSafety, PolicyOK
<1> QED
  BY <1>1, TickInvariant, PTL

(* Debits, ledger and provider calls balance: a call without a debit shows *)
(* as STARTED, no debit is made without a call, and the lifetime cap binds *)
(* the calls really made up to one per crash (record_provider_completion). *)
THEOREM TickDebits == Spec => []DebitsAccountForCalls
<1>1. TickSafety => DebitsAccountForCalls
  <2> SUFFICES ASSUME TickSafety PROVE DebitsAccountForCalls
    OBVIOUS
  <2>1. TotalCalls = Cardinality(Called)
    BY DEF TotalCalls, Called
  <2>2. DebitOK /\ TickInv
    BY DEF TickSafety
  <2> QED
    BY <2>1, <2>2, CountType DEF DebitOK, DebitsAccountForCalls, Started, One
<1> QED
  BY <1>1, TickInvariant, PTL

(* As long as no tick crashed or raised, an ineligible entity has no open  *)
(* row between ticks and an eligible one has every X row OBSERVED          *)
(* (_apply_x_phase).                                                       *)
THEOREM TickEligibility == Spec => []EligibilityIsSealed
<1>1. TickSafety => EligibilityIsSealed
  <2> SUFFICES ASSUME TickSafety, Undisturbed, pc = "idle", NEW r \in Rows
               PROVE  /\ cand[r.entity] = "X_POPULATION_INELIGIBLE" => due[r] \in Terminal
                      /\ cand[r.entity] = "X_ELIGIBLE" /\ XRow(r) => due[r] = "OBSERVED"
    BY DEF EligibilityIsSealed
  <2> QED
    BY DEF TickSafety, EligibleOK, SealedFor, Sealing
<1> QED
  BY <1>1, TickInvariant, PTL

(* With a claim limit no smaller than the panel, a SELL is judged only     *)
(* after every matured BUY of its entity settled; and without a crash it   *)
(* then has the outAmount of an observed BUY (_propagate_buy_out).         *)
THEOREM TickSellsFollow == ClaimsUnsplit => (Spec => []SellFollowsItsBuy)
<1> SUFFICES ASSUME ClaimsUnsplit PROVE Spec => []SellFollowsItsBuy
  OBVIOUS
<1>1. Init => OrderOK
  BY DEF Init, OrderOK
<1>2. OrderOK /\ TickSafety /\ [Next]_vars => OrderOK'
  BY OrderStep DEF TickSafety
<1>3. OrderOK /\ TickSafety => SellFollowsItsBuy
  <2> SUFFICES ASSUME OrderOK, TickSafety, pc = "late",
                      NEW r \in live, IsSell(r), NEW b \in Rows, IsBuy(b), b.entity = r.entity
               PROVE  /\ b.due_at <= now => due[b] \in Terminal
                      /\ Undisturbed /\ due[b] = "OBSERVED" => r \in buyOut
    BY DEF SellFollowsItsBuy, IsSell, IsBuy
  <2>1. r \in Rows /\ r \in QuoteRows
    BY DEF TickSafety, TickInv, TypeOK, QuoteRows, SearchRows, IsSell
  <2>2. live = {r}
    BY <2>1 DEF TickSafety, TickInv, PhaseOK, Occurrences, QuoteRows
  <2>3. cur = {} /\ b \notin todo /\ b # r
    BY DEF TickSafety, HoldOK, OrderOK, Settling, IsSell, IsBuy
  <2>4. due[r] \in Open
    BY <2>1 DEF TickSafety, QuotesOK, Open
  <2> QED
    BY <2>1, <2>2, <2>3, <2>4 DEF TickSafety, OrderOK, BuyOutOK
<1> QED
  BY <1>1, <1>2, <1>3, TickInvariant, PTL DEF Spec

(* insert_due and censor_remaining_points never rewrite a terminal row. *)
THEOREM TickTerminalIsFinal == Spec => TerminalIsFinal
<1>1. TickSafety /\ [Next]_vars =>
         [\A r \in Rows : due[r] \in Terminal => due'[r] = due[r]]_vars
  BY FinalStep DEF TickSafety
<1> QED
  BY <1>1, TickInvariant, PTL DEF Spec, TerminalIsFinal
=============================================================================
