----------------------- MODULE TradingAttemptsProofs ------------------------
(***************************************************************************)
(* Proofs about positions and attempts, for any positions, epochs, entry   *)
(* and leg sizes, and any number of faults and commands.                   *)
(*                                                                         *)
(* The inductive invariant is about one position at a time (Ledger: its    *)
(* attempts come in order, only the last may be open, the quantities are   *)
(* those of the settled ones), about what the tick has in hand (HandOK)    *)
(* and about bots that have stopped (StopOK).  That at most one entry is   *)
(* open among all positions (OneEntry) follows from the envelope alone.    *)
(***************************************************************************)
EXTENDS TradingAttempts, SumTheorems, SequenceTheorems, TLAPS

(* The attempts and the rows of positions. *)
Attempts ==
    [side : {"ENTRY", "EXIT"}, left : 0 .. Size, done : 0 .. Size,
     cap : Results \cup {"NONE"}, seen : BOOLEAN, inbox : BOOLEAN,
     final : {"FILL", "NONFILL", "NONE"}]

PositionRows == [state : States, origin : 0 .. LastEpoch,
                 entered : 0 .. Size, left : 0 .. Size]

(* What the settled exits among the attempts s sold. *)
Done(s) == [i \in DOMAIN s |-> s[i].done]
Exits(s) == {i \in DOMAIN s : s[i].side = "EXIT" /\ s[i].final # "NONE"}
Sold(s) == Sum(Done(s), Exits(s))

(* The entry comes first; only the last attempt may be open; results and   *)
(* captured answers are true.                                              *)
OrderOK(s) ==
    \A i \in 1 .. Len(s) :
        /\ s[i].side = IF i = 1 THEN "ENTRY" ELSE "EXIT"
        /\ s[i].final # "NONE" => s[i].final = Truth(s[i])
        /\ i < Len(s) => s[i].final # "NONE"
        /\ s[i].cap \in {"NONE", "UNKNOWN", Truth(s[i])}

(* The position x agrees with its settled attempts, and an open exit was   *)
(* asked for what is left.                                                 *)
BookOK(x, s) ==
    /\ x.entered = IF s # <<>> /\ s[1].final # "NONE" THEN s[1].done ELSE 0
    /\ Len(s) > 1 => x.entered > 0
    /\ x.left = x.entered - Sold(s)
    /\ Len(s) > 1 /\ s[Len(s)].final = "NONE" =>
          s[Len(s)].left = x.left /\ s[Len(s)].done <= x.left

StateOK(x, s) ==
    /\ x.origin = 0 => x.state = "ABSENT"
    /\ x.state \in {"ABSENT", "WATCHED"} => s = <<>>
    /\ x.state \in Settled => /\ \A i \in 1 .. Len(s) : s[i].final # "NONE"
                              /\ x.left = 0

Ledger(x, s) ==
    /\ x \in PositionRows /\ s \in Seq(Attempts)
    /\ OrderOK(s) /\ BookOK(x, s) /\ StateOK(x, s)

LedgersOK == \A p \in Positions : Ledger(pos[p], att[p])

(* What a tick has in hand. *)
HandOK ==
    /\ \A p, q \in tick.on : p = q
    /\ tick.pc = "recover" => tick.phase = "recover"
    /\ tick.phase = "recover" =>
          \A p \in tick.todo : tick.tries[p] \in 1 .. Len(att[p])
    /\ tick.pc \in {"send", "capture", "accept"} =>
          \A p \in tick.on : tick.tries[p] \in 1 .. Len(att[p])
    /\ tick.pc = "claim" => tick.amt <= tick.left
    /\ tick.pc = "send" => \A p \in tick.on :
          LET a == att[p][tick.tries[p]] IN
          /\ a.final = "NONE" /\ a.done = 0 /\ a.cap = "NONE"
          /\ a.side = "EXIT" => tick.amt <= a.left
    /\ tick.pc \in {"capture", "accept"} => \A p \in tick.on :
          tick.res \in {"UNKNOWN", Truth(att[p][tick.tries[p]])}

StopOK == \A e \in Epochs : bot[e].status = "STOPPED" => Cleared(e, pos)

(* At most one entry is open. *)
OpenEntry(s) == Len(s) = 1 /\ s[1].final = "NONE"
OneEntry ==
    \A p, q \in Positions : OpenEntry(att[p]) /\ OpenEntry(att[q]) => p = q

(* The fields of the tick, and what its steps need of their values. *)
AsTick(t) ==
    [pc |-> t.pc, phase |-> t.phase, epoch |-> t.epoch, healthy |-> t.healthy,
     allows |-> t.allows, blocked |-> t.blocked, todo |-> t.todo, known |-> t.known,
     tries |-> t.tries, on |-> t.on, amt |-> t.amt, left |-> t.left, res |-> t.res,
     src |-> t.src]

TickOK ==
    /\ tick = AsTick(tick)
    /\ tick.todo \subseteq Positions /\ tick.on \subseteq Positions
    /\ tick.tries \in [Positions -> Nat] /\ tick.amt \in Nat /\ tick.left \in Nat

AttOK == att \in [Positions -> Seq(Attempts)]

TradingInv ==
    TypeOK /\ AttOK /\ TickOK /\ LedgersOK /\ HandOK /\ StopOK /\ OneEntry

----------------------------------------------------------------------------
(* Sequences of attempts, and what the settled exits among them sold.      *)

(* One attempt of a sequence is replaced. *)
LEMMA Replaced ==
    ASSUME NEW s \in Seq(Attempts), NEW i \in 1 .. Len(s), NEW a \in Attempts
    PROVE  LET t == [s EXCEPT ![i] = a] IN
           /\ t \in Seq(Attempts) /\ Len(t) = Len(s) /\ t[i] = a
           /\ \A j \in 1 .. Len(s) : j # i => t[j] = s[j]
BY ExceptSeq

(* The positions of a sequence, and what is at them. *)
LEMMA SeqFacts ==
    ASSUME NEW s \in Seq(Attempts)
    PROVE  /\ Len(s) \in Nat /\ DOMAIN s = 1 .. Len(s)
           /\ \A i \in 1 .. Len(s) : s[i] \in Attempts
           /\ s = <<>> <=> Len(s) = 0
BY LenProperties, ElementOfSeq, EmptySeq

(* The settled exits are finitely many, and what each did is a natural     *)
(* number.                                                                 *)
LEMMA ExitsFinite ==
    ASSUME NEW s \in Seq(Attempts)
    PROVE  /\ IsFiniteSet(DOMAIN s) /\ IsFiniteSet(Exits(s)) /\ Exits(s) \subseteq DOMAIN s
           /\ \A i \in DOMAIN s : Done(s)[i] = s[i].done /\ Done(s)[i] \in Nat
           /\ Integral(Done(s), DOMAIN s)
<1>1. DOMAIN s = 1 .. Len(s) /\ Len(s) \in Nat /\ \A i \in 1 .. Len(s) : s[i] \in Attempts
  BY SeqFacts
<1>2. IsFiniteSet(1 .. Len(s))
  BY <1>1, FS_Interval
<1>3. Exits(s) \subseteq DOMAIN s
  BY DEF Exits
<1>4. \A i \in DOMAIN s : s[i].done \in 0 .. Size
  BY <1>1 DEF Attempts
<1>5. \A i \in DOMAIN s : Done(s)[i] = s[i].done /\ Done(s)[i] \in Nat
  BY <1>4 DEF Done
<1> QED
  BY <1>1, <1>2, <1>3, <1>5, FS_Subset DEF Integral

(* What was sold is a natural number.                                      *)
LEMMA SoldType ==
    ASSUME NEW s \in Seq(Attempts)
    PROVE  Sold(s) \in Nat
BY ExitsFinite, SumOfNaturals DEF Sold

(* What was sold depends on the settled exits alone.                       *)
LEMMA SoldSame ==
    ASSUME NEW s \in Seq(Attempts), NEW t \in Seq(Attempts), Exits(s) = Exits(t),
           \A i \in Exits(s) : s[i].done = t[i].done
    PROVE  Sold(t) = Sold(s)
<1>1. \A i \in Exits(s) : Done(s)[i] = Done(t)[i]
  BY ExitsFinite
<1>2. IsFiniteSet(Exits(s)) /\ Integral(Done(s), Exits(s))
  BY ExitsFinite DEF Integral
<1> QED
  BY <1>1, <1>2, SumSame DEF Sold

(* Without a settled exit nothing is sold. *)
LEMMA SoldNothing ==
    ASSUME NEW s \in Seq(Attempts), Exits(s) = {}
    PROVE  Sold(s) = 0
<1>1. IsFiniteSet(Exits(s))
  BY ExitsFinite
<1> QED
  BY <1>1, SumUnfold DEF Sold

(* An exit that settles adds what it did. *)
LEMMA SoldMore ==
    ASSUME NEW s \in Seq(Attempts), NEW t \in Seq(Attempts),
           NEW i \in Exits(t), i \notin Exits(s), Exits(t) = Exits(s) \cup {i},
           \A j \in Exits(s) : s[j].done = t[j].done
    PROVE  Sold(t) = Sold(s) + t[i].done
<1>1. IsFiniteSet(Exits(t)) /\ Integral(Done(t), Exits(t)) /\ Done(t)[i] = t[i].done
  BY ExitsFinite DEF Integral
<1>2. Sum(Done(t), Exits(t)) = Done(t)[i] + Sum(Done(t), Exits(t) \ {i})
  BY <1>1, SumSplit
<1>3. Exits(t) \ {i} = Exits(s)
  OBVIOUS
<1>4. \A j \in Exits(s) : Done(s)[j] = Done(t)[j]
  BY ExitsFinite
<1>5. IsFiniteSet(Exits(s)) /\ Integral(Done(s), Exits(s))
  BY ExitsFinite DEF Integral
<1>6. Sum(Done(t), Exits(s)) = Sum(Done(s), Exits(s))
  BY <1>4, <1>5, SumSame
<1>7. Sold(s) \in Nat /\ t[i].done \in Nat
  <2>1. i \in DOMAIN t
    BY DEF Exits
  <2> QED
    BY <2>1, <1>1, SoldType, ExitsFinite
<1>8. Sold(t) = t[i].done + Sold(s)
  BY <1>1, <1>2, <1>3, <1>6 DEF Sold
<1> QED
  BY <1>7, <1>8

(* What some attempts of a position did, as such a sum. *)
LEMMA EffectIsSum ==
    ASSUME NEW p, att[p] \in Seq(Attempts), NEW S \in SUBSET DOMAIN att[p]
    PROVE  Effect(p, S) = Sum(Done(att[p]), S)
<1> DEFINE d == Done(att[p])
           g == CHOOSE g : g = [T \in SUBSET S |->
                   IF T = {} THEN 0 ELSE att[p][Pick(T)].done + g[T \ {Pick(T)}]]
<1>1. IsFiniteSet(S)
  BY ExitsFinite, FS_Subset
<1>2. PICK f : IsSumFn(f, d, S)
  BY <1>1, SumFnExists
<1>3. \A T \in SUBSET S : T # {} => d[Pick(T)] = att[p][Pick(T)].done
  BY PickIsElement DEF Done
<1>4. \A h : IsSumFn(h, d, S) <=> h = [T \in SUBSET S |->
                   IF T = {} THEN 0 ELSE att[p][Pick(T)].done + h[T \ {Pick(T)}]]
  BY <1>3 DEF IsSumFn, SumStep
<1>5. IsSumFn(g, d, S)
  BY <1>2, <1>4
<1>6. Effect(p, S) = g[S]
  BY DEF Effect, MapThenSumSet, MapThenFoldSet, Pick
<1> HIDE DEF g, d
<1>7. S \in SUBSET S
  OBVIOUS
<1>8. Sum(d, S) = g[S]
  BY <1>1, <1>5, <1>7, SumIsValue
<1> QED
  BY <1>6, <1>8 DEF d

----------------------------------------------------------------------------
(* The ledger of one position.                                             *)

(* The types of a position and its attempts. *)
LEMMA LedgerTypes ==
    ASSUME NEW x, NEW s, Ledger(x, s)
    PROVE  /\ x \in PositionRows /\ s \in Seq(Attempts) /\ Len(s) \in Nat
           /\ DOMAIN s = 1 .. Len(s)
           /\ \A i \in 1 .. Len(s) : s[i] \in Attempts
           /\ s = <<>> <=> Len(s) = 0
           /\ Sold(s) \in Nat
BY SeqFacts, SoldType DEF Ledger

(* An open attempt is the last one, and all others are settled. *)
LEMMA OpenIsLast ==
    ASSUME NEW x, NEW s, Ledger(x, s), NEW i \in 1 .. Len(s), s[i].final = "NONE"
    PROVE  i = Len(s) /\ \A j \in 1 .. Len(s) : j # i => s[j].final # "NONE"
<1>1. Len(s) \in Nat
  BY LedgerTypes
<1> QED
  BY <1>1 DEF Ledger, OrderOK

(* Before its first exit a position sold nothing. *)
LEMMA NoExitYet ==
    ASSUME NEW x, NEW s, Ledger(x, s), Len(s) <= 1
    PROVE  Sold(s) = 0
<1>1. Exits(s) = {}
  BY LedgerTypes DEF Ledger, OrderOK, Exits
<1> QED
  BY <1>1, SoldNothing DEF Ledger

(* While the entry is open nothing is booked. *)
LEMMA EntryUnderway ==
    ASSUME NEW x, NEW s, Ledger(x, s), Len(s) = 1, s[1].final = "NONE"
    PROVE  x.entered = 0 /\ x.left = 0
<1>1. Sold(s) = 0
  <2>1. Len(s) <= 1
    OBVIOUS
  <2> QED
    BY <2>1, NoExitYet, Zenon
<1>2. x.entered = IF s # <<>> /\ s[1].final # "NONE" THEN s[1].done ELSE 0
  BY DEF Ledger, BookOK
<1>3. x.entered = 0
  BY <1>2
<1>4. x.left = x.entered - Sold(s)
  BY DEF Ledger, BookOK
<1> QED
  BY <1>1, <1>3, <1>4

(* The state of a position changes by itself from what was not attempted   *)
(* to CANCELLED, or to one that still owes something.                      *)
LEMMA StateMoves ==
    ASSUME NEW x, NEW s, Ledger(x, s), NEW t \in States,
           \/ t = x.state
           \/ t = "CANCELLED" /\ x.state = "WATCHED"
           \/ t \notin Settled \cup {"WATCHED"} /\ x.state \notin Settled
    PROVE  Ledger([x EXCEPT !.state = t], s)
<1> DEFINE y == [x EXCEPT !.state = t]
<1>1. /\ y \in PositionRows /\ y.state = t /\ y.origin = x.origin
      /\ y.entered = x.entered /\ y.left = x.left
  BY LedgerTypes DEF PositionRows
<1> HIDE DEF y
<1>2. BookOK(y, s)
  BY <1>1 DEF Ledger, BookOK
<1>3. x.state = "WATCHED" => Len(s) = 0 /\ x.left = 0
  <2>1. ASSUME x.state = "WATCHED" PROVE s = <<>>
    BY <2>1 DEF Ledger, StateOK
  <2>2. ASSUME Len(s) = 0 PROVE x.left = 0
    <3>1. Sold(s) = 0
      BY <2>2, NoExitYet
    <3>2. s = <<>>
      BY <2>2, LedgerTypes
    <3> QED
      BY <3>1, <3>2 DEF Ledger, BookOK
  <2> QED
    BY <2>1, <2>2, LedgerTypes
<1>4. StateOK(y, s)
  BY <1>1, <1>3 DEF Ledger, StateOK, Settled
<1> QED
  BY <1>1, <1>2, <1>4 DEF Ledger, y

(* A signal is admitted. *)
LEMMA Admitted ==
    ASSUME NEW x, NEW s, Ledger(x, s), x.state = "ABSENT", NEW e \in Epochs,
           NEW y \in PositionRows, y.state = "WATCHED", y.origin = e,
           y.entered = x.entered, y.left = x.left
    PROVE  Ledger(y, s)
<1>1. e # 0
  BY TradingAssumption DEF Epochs
<1>2. BookOK(y, s) /\ StateOK(y, s)
  BY <1>1 DEF Ledger, BookOK, StateOK, Settled
<1> QED
  BY <1>2 DEF Ledger

(* The entry begins. *)
LEMMA EntryAppended ==
    ASSUME NEW x, NEW s, Ledger(x, s), x.state = "WATCHED", NEW n \in 0 .. Size
    PROVE  Ledger([x EXCEPT !.state = "ATTEMPTING"], Append(s, Attempt("ENTRY", 0, n)))
<1> DEFINE y == [x EXCEPT !.state = "ATTEMPTING"]
           a == Attempt("ENTRY", 0, n)
           t == Append(s, a)
<1>1. /\ y \in PositionRows /\ y.state = "ATTEMPTING" /\ y.origin = x.origin
      /\ y.entered = x.entered /\ y.left = x.left
  BY LedgerTypes DEF PositionRows, States
<1>2. s = <<>> /\ Len(s) = 0
  BY LedgerTypes DEF Ledger, StateOK
<1>3. /\ a \in Attempts /\ a.side = "ENTRY" /\ a.final = "NONE" /\ a.cap = "NONE"
  BY TradingAssumption DEF Attempt, Attempts, Results
<1> HIDE DEF a
<1>4. t \in Seq(Attempts) /\ Len(t) = 1 /\ t[1] = a
  BY <1>2, <1>3, LedgerTypes, AppendProperties
<1> HIDE DEF y, t
<1>5. OrderOK(t)
  BY <1>3, <1>4 DEF OrderOK
<1>6. Exits(t) = {} /\ Sold(s) = 0
  BY <1>2, <1>3, <1>4, SeqFacts, NoExitYet DEF Exits
<1>7. Sold(t) = 0
  BY <1>4, <1>6, SoldNothing
<1>8. BookOK(y, t)
  BY <1>1, <1>2, <1>3, <1>4, <1>6, <1>7 DEF Ledger, BookOK
<1>9. StateOK(y, t)
  BY <1>1 DEF Ledger, StateOK, Settled
<1> QED
  BY <1>1, <1>4, <1>5, <1>8, <1>9 DEF Ledger, y, t, a

(* An exit begins: nothing else is open, and it asks for what is left. *)
LEMMA ExitAppended ==
    ASSUME NEW x, NEW s, Ledger(x, s), s # <<>>, x.entered > 0,
           \A i \in 1 .. Len(s) : s[i].final # "NONE",
           NEW u \in {"EXIT_REQUIRED", "EXITING", "UNRESOLVED"},
           x.state \notin Settled, NEW n \in 0 .. x.left
    PROVE  Ledger([x EXCEPT !.state = u], Append(s, Attempt("EXIT", x.left, n)))
<1> DEFINE y == [x EXCEPT !.state = u]
           a == Attempt("EXIT", x.left, n)
           t == Append(s, a)
<1>1. /\ y \in PositionRows /\ y.state = u /\ y.origin = x.origin
      /\ y.entered = x.entered /\ y.left = x.left
  BY LedgerTypes DEF PositionRows, States
<1>2. x.left \in 0 .. Size /\ n \in 0 .. Size
  BY LedgerTypes, TradingAssumption DEF PositionRows
<1>3. /\ a \in Attempts /\ a.side = "EXIT" /\ a.final = "NONE" /\ a.cap = "NONE"
      /\ a.left = x.left /\ a.done = n
  BY <1>2 DEF Attempt, Attempts, Results
<1> HIDE DEF a
<1>4. /\ t \in Seq(Attempts) /\ Len(t) = Len(s) + 1 /\ t[Len(t)] = a
      /\ \A i \in 1 .. Len(s) : t[i] = s[i]
  BY <1>3, LedgerTypes, AppendProperties
<1>5. Len(s) \in Nat /\ Len(s) > 0 /\ DOMAIN s = 1 .. Len(s)
  BY LedgerTypes
<1>6. DOMAIN t = 1 .. Len(t) /\ t # <<>>
  BY <1>4, <1>5, SeqFacts
<1> HIDE DEF y, t
<1>7. OrderOK(t)
  <2> SUFFICES ASSUME NEW i \in 1 .. Len(t)
               PROVE  /\ t[i].side = IF i = 1 THEN "ENTRY" ELSE "EXIT"
                      /\ t[i].final # "NONE" => t[i].final = Truth(t[i])
                      /\ i < Len(t) => t[i].final # "NONE"
                      /\ t[i].cap \in {"NONE", "UNKNOWN", Truth(t[i])}
    BY DEF OrderOK
  <2>1. CASE i = Len(t)
    BY <2>1, <1>3, <1>4, <1>5
  <2>2. CASE i \in 1 .. Len(s)
    BY <2>2, <1>4 DEF Ledger, OrderOK
  <2> QED
    BY <2>1, <2>2, <1>4, <1>5
<1>8. Exits(t) = Exits(s) /\ \A i \in Exits(s) : s[i].done = t[i].done
  BY <1>3, <1>4, <1>5, <1>6 DEF Exits
<1>9. Sold(t) = Sold(s)
  BY <1>4, <1>8, SoldSame DEF Ledger
<1>10. BookOK(y, t)
  <2>1. t[1] = s[1] /\ s[1].final # "NONE"
    BY <1>4, <1>5
  <2>2. y.entered = t[1].done
    BY <1>1, <2>1 DEF Ledger, BookOK
  <2>3. y.left = y.entered - Sold(t)
    BY <1>1, <1>9 DEF Ledger, BookOK
  <2>4. n <= y.left
    BY <1>1, <1>2
  <2> QED
    BY <1>1, <1>3, <1>4, <1>6, <2>1, <2>2, <2>3, <2>4 DEF BookOK
<1>11. StateOK(y, t)
  BY <1>1 DEF Ledger, StateOK, Settled
<1> QED
  BY <1>1, <1>4, <1>7, <1>10, <1>11 DEF Ledger, y, t, a

(* An attempt keeps its side, request and result, and does no more than it *)
(* may.                                                                    *)
LEMMA Touched ==
    ASSUME NEW x, NEW s, Ledger(x, s), NEW i \in 1 .. Len(s), NEW a \in Attempts,
           a.side = s[i].side, a.left = s[i].left, a.final = s[i].final,
           a.cap \in {"NONE", "UNKNOWN", Truth(a)},
           \/ a.done = s[i].done
           \/ s[i].final = "NONE" /\ (s[i].side = "EXIT" => a.done <= s[i].left)
    PROVE  Ledger(x, [s EXCEPT ![i] = a])
<1> DEFINE t == [s EXCEPT ![i] = a]
<1>1. /\ t \in Seq(Attempts) /\ Len(t) = Len(s) /\ t[i] = a
      /\ \A j \in 1 .. Len(s) : j # i => t[j] = s[j]
  BY LedgerTypes, Replaced
<1>2. Len(s) \in Nat /\ DOMAIN s = 1 .. Len(s) /\ DOMAIN t = 1 .. Len(s)
  BY <1>1, LedgerTypes, SeqFacts
<1>3. t # <<>> /\ s # <<>>
  BY <1>1, <1>2, LedgerTypes, SeqFacts
<1> HIDE DEF t
<1>4. OrderOK(t)
  <2> SUFFICES ASSUME NEW j \in 1 .. Len(s)
               PROVE  /\ t[j].side = IF j = 1 THEN "ENTRY" ELSE "EXIT"
                      /\ t[j].final # "NONE" => t[j].final = Truth(t[j])
                      /\ j < Len(s) => t[j].final # "NONE"
                      /\ t[j].cap \in {"NONE", "UNKNOWN", Truth(t[j])}
    BY <1>1 DEF OrderOK
  <2>1. CASE j = i
    BY <2>1, <1>1 DEF Ledger, OrderOK, Truth
  <2>2. CASE j # i
    BY <2>2, <1>1 DEF Ledger, OrderOK
  <2> QED
    BY <2>1, <2>2
<1>5. Exits(t) = Exits(s)
  BY <1>1, <1>2 DEF Exits
<1>6. \A j \in Exits(s) : s[j].done = t[j].done
  BY <1>1, <1>2 DEF Exits
<1>7. Sold(t) = Sold(s)
  BY <1>1, <1>5, <1>6, SoldSame DEF Ledger
<1>8. BookOK(x, t)
  <2>1. s[1].final = t[1].final /\ (s[1].final # "NONE" => t[1].done = s[1].done)
    BY <1>1, <1>2
  <2>2. Len(s) > 1 /\ t[Len(s)].final = "NONE" =>
           t[Len(s)].left = x.left /\ t[Len(s)].done <= x.left
    <3> SUFFICES ASSUME Len(s) > 1, t[Len(s)].final = "NONE"
                 PROVE  t[Len(s)].left = x.left /\ t[Len(s)].done <= x.left
      OBVIOUS
    <3>1. /\ Len(s) \in 1 .. Len(s) /\ s[Len(s)].final = "NONE"
          /\ s[Len(s)].side = "EXIT"
      BY <1>1, <1>2 DEF Ledger, OrderOK
    <3>2. s[Len(s)].left = x.left /\ s[Len(s)].done <= x.left
      BY <3>1 DEF Ledger, BookOK
    <3> QED
      BY <3>1, <3>2, <1>1
  <2> QED
    BY <1>1, <1>3, <1>7, <2>1, <2>2 DEF Ledger, BookOK
<1>9. StateOK(x, t)
  BY <1>1, <1>3 DEF Ledger, StateOK
<1> QED
  BY <1>1, <1>4, <1>8, <1>9 DEF Ledger, t

(* The entry settles: what it bought is entered, or the position is        *)
(* cancelled.                                                              *)
LEMMA EntrySettled ==
    ASSUME NEW x, NEW s, Ledger(x, s), Len(s) = 1, s[1].final = "NONE",
           NEW y \in PositionRows, y.origin = x.origin, x.state # "ABSENT",
           y.entered = s[1].done, y.left = s[1].done,
           NEW a \in Attempts, a.side = "ENTRY", a.done = s[1].done, a.cap = "NONE",
           a.final = Truth(s[1]),
           \/ y.state \notin Settled \cup {"WATCHED"}
           \/ y.state = "CANCELLED" /\ s[1].done = 0
    PROVE  Ledger(y, [s EXCEPT ![1] = a])
<1> DEFINE t == [s EXCEPT ![1] = a]
<1>1. t \in Seq(Attempts) /\ Len(t) = 1 /\ t[1] = a
  <2>1. s \in Seq(Attempts) /\ 1 \in 1 .. Len(s)
    BY LedgerTypes
  <2> QED
    BY <2>1, Replaced
<1>2. DOMAIN t = 1 .. 1 /\ t # <<>>
  BY <1>1, SeqFacts
<1> HIDE DEF t
<1>3. a.final # "NONE" /\ a.final = Truth(a)
  BY DEF Truth
<1>4. OrderOK(t)
  BY <1>1, <1>3 DEF OrderOK
<1>5. Exits(t) = {}
  BY <1>1, <1>2 DEF Exits
<1>6. Sold(t) = 0
  BY <1>1, <1>5, SoldNothing
<1>7. BookOK(y, t)
  <2>1. y.entered \in Nat
    BY TradingAssumption DEF PositionRows
  <2> QED
    BY <1>1, <1>2, <1>3, <1>6, <2>1 DEF BookOK
<1>8. StateOK(y, t)
  <2>1. x.origin # 0
    BY DEF Ledger, StateOK
  <2> QED
    BY <1>1, <1>3, <2>1 DEF StateOK, Settled
<1> QED
  BY <1>1, <1>4, <1>7, <1>8 DEF Ledger, t

(* An exit settles: what it sold leaves the inventory.                     *)
LEMMA ExitSettled ==
    ASSUME NEW x, NEW s, Ledger(x, s), NEW i \in 1 .. Len(s), s[i].final = "NONE",
           s[i].side = "EXIT",
           NEW y \in PositionRows, y.origin = x.origin, x.state # "ABSENT",
           y.entered = x.entered, y.left = x.left - s[i].done,
           NEW a \in Attempts, a.side = "EXIT", a.done = s[i].done, a.cap = "NONE",
           a.final = Truth(s[i]),
           \/ y.state \notin Settled \cup {"WATCHED"}
           \/ y.state = "RECONCILED" /\ y.left = 0
    PROVE  Ledger(y, [s EXCEPT ![i] = a])
<1> DEFINE t == [s EXCEPT ![i] = a]
<1>1. /\ t \in Seq(Attempts) /\ Len(t) = Len(s) /\ t[i] = a
      /\ \A j \in 1 .. Len(s) : j # i => t[j] = s[j]
  BY LedgerTypes, Replaced
<1>2. Len(s) \in Nat /\ DOMAIN s = 1 .. Len(s) /\ DOMAIN t = 1 .. Len(s)
  BY <1>1, LedgerTypes, SeqFacts
<1>3. i = Len(s) /\ \A j \in 1 .. Len(s) : j # i => s[j].final # "NONE"
  BY OpenIsLast
<1>4. i # 1
  BY DEF Ledger, OrderOK
<1>5. Len(s) > 1 /\ t # <<>> /\ s # <<>>
  BY <1>1, <1>2, <1>3, <1>4, LedgerTypes, SeqFacts
<1> HIDE DEF t
<1>6. a.final # "NONE" /\ a.final = Truth(a)
  BY DEF Truth
<1>7. OrderOK(t)
  <2> SUFFICES ASSUME NEW j \in 1 .. Len(s)
               PROVE  /\ t[j].side = IF j = 1 THEN "ENTRY" ELSE "EXIT"
                      /\ t[j].final # "NONE" => t[j].final = Truth(t[j])
                      /\ j < Len(s) => t[j].final # "NONE"
                      /\ t[j].cap \in {"NONE", "UNKNOWN", Truth(t[j])}
    BY <1>1 DEF OrderOK
  <2>1. CASE j = i
    BY <2>1, <1>1, <1>4, <1>6
  <2>2. CASE j # i
    BY <2>2, <1>1 DEF Ledger, OrderOK
  <2> QED
    BY <2>1, <2>2
<1>8. /\ i \in Exits(t) /\ i \notin Exits(s) /\ Exits(t) = Exits(s) \cup {i}
      /\ \A j \in Exits(s) : s[j].done = t[j].done
  BY <1>1, <1>2, <1>6 DEF Exits
<1>9. Sold(t) = Sold(s) + a.done
  <2>1. Sold(t) = Sold(s) + t[i].done
    BY <1>1, <1>8, SoldMore DEF Ledger
  <2> QED
    BY <2>1, <1>1
<1>10. BookOK(y, t)
  <2>1. t[1] = s[1] /\ s[1].final # "NONE"
    <3>1. 1 \in 1 .. Len(s) /\ 1 # i
      BY <1>4, <1>5, <1>2
    <3> QED
      BY <3>1, <1>1, <1>3
  <2>2. y.entered = t[1].done /\ x.entered > 0
    BY <1>5, <2>1 DEF Ledger, BookOK
  <2>3. y.left = y.entered - Sold(t)
    <3>1. x.left = x.entered - Sold(s)
      BY DEF Ledger, BookOK
    <3>2. x.entered \in 0 .. Size /\ a.done \in 0 .. Size /\ Size \in Nat
      BY LedgerTypes, TradingAssumption DEF PositionRows, Attempts
    <3>3. Sold(s) \in Nat /\ x.entered \in Nat /\ a.done \in Nat
      BY <3>2, LedgerTypes
    <3> QED
      BY <3>1, <3>3, <1>9
  <2>4. t[Len(t)].final # "NONE"
    BY <1>1, <1>3, <1>6
  <2> QED
    BY <1>5, <2>1, <2>2, <2>3, <2>4 DEF BookOK
<1>11. StateOK(y, t)
  <2>1. x.origin # 0
    BY DEF Ledger, StateOK
  <2>2. \A j \in 1 .. Len(t) : t[j].final # "NONE"
    BY <1>1, <1>3, <1>6
  <2> QED
    BY <2>1, <2>2 DEF StateOK, Settled
<1> QED
  BY <1>1, <1>7, <1>10, <1>11 DEF Ledger, t

----------------------------------------------------------------------------
(* The tick between its steps.                                             *)

(* Attempts are never removed. *)
Grows == \A q \in Positions : Len(att[q]) <= Len(att[q]')

(* The tick goes on with its loop. *)
LEMMA HandGoesOn ==
    ASSUME AttOK, AttOK', TickOK, HandOK, Grows,
           NEW p \in Positions, NEW well, GoOn(p, well)
    PROVE  TickOK' /\ HandOK'
<1>1. /\ tick'.pc = tick.phase /\ tick'.phase = tick.phase
      /\ tick'.todo = tick.todo \ {p} /\ tick'.on = {}
      /\ tick'.tries = [tick.tries EXCEPT ![p] = 0]
      /\ tick'.amt = 0 /\ tick'.left = 0
  BY DEF GoOn, TickOK, AsTick
<1>2. TickOK'
  <2>1. tick' = AsTick(tick')
    BY DEF GoOn, TickOK, AsTick
  <2> QED
    BY <1>1, <2>1 DEF TickOK
<1>3. tick.phase = "recover" =>
          \A q \in tick'.todo : tick'.tries[q] \in 1 .. Len(att'[q])
  <2> SUFFICES ASSUME tick.phase = "recover", NEW q \in tick'.todo
               PROVE  tick'.tries[q] \in 1 .. Len(att'[q])
    OBVIOUS
  <2>1. q \in tick.todo /\ q \in Positions /\ tick'.tries[q] = tick.tries[q]
    BY <1>1 DEF TickOK
  <2>2. tick.tries[q] \in 1 .. Len(att[q])
    BY <2>1 DEF HandOK
  <2>3. Len(att[q]) \in Nat /\ Len(att'[q]) \in Nat
    BY <2>1, SeqFacts DEF AttOK
  <2> QED
    BY <2>1, <2>2, <2>3 DEF Grows
<1> QED
  BY <1>1, <1>2, <1>3 DEF HandOK

(* A tick that ends or dies has nothing in hand. *)
LEMMA IdleHand ==
    ASSUME tick' = Idle
    PROVE  TickOK' /\ HandOK'
BY DEF Idle, TickOK, AsTick, HandOK

(* An error ends the tick or goes on with its loop. *)
LEMMA HandFails ==
    ASSUME AttOK, AttOK', TickOK, HandOK, Grows,
           NEW p \in Positions, NEW noted, Fails(p, noted)
    PROVE  TickOK' /\ HandOK'
BY HandGoesOn, IdleHand DEF Fails

(* The tick stands still while others settle and begin attempts. *)
LEMMA HandKept ==
    ASSUME AttOK, AttOK', TickOK, HandOK, Grows, tick' = tick,
           \A q \in Positions : \A i \in 1 .. Len(att[q]) :
               /\ att'[q][i].done = att[q][i].done
               /\ InFlight(q, i) => att'[q][i] = att[q][i]
    PROVE  TickOK' /\ HandOK'
<1>1. TickOK'
  BY DEF TickOK
<1>2. \A q \in Positions : \A i \in 1 .. Len(att[q]) :
          i \in 1 .. Len(att'[q]) /\ Truth(att'[q][i]) = Truth(att[q][i])
  <2> SUFFICES ASSUME NEW q \in Positions, NEW i \in 1 .. Len(att[q])
               PROVE  i \in 1 .. Len(att'[q]) /\ Truth(att'[q][i]) = Truth(att[q][i])
    OBVIOUS
  <2>1. Len(att[q]) \in Nat /\ Len(att'[q]) \in Nat
    BY SeqFacts DEF AttOK
  <2> QED
    BY <2>1 DEF Grows, Truth
<1>3. tick.phase = "recover" =>
          \A p \in tick.todo : tick.tries[p] \in 1 .. Len(att'[p])
  BY <1>2 DEF HandOK, TickOK
<1>4. tick.pc \in {"send", "capture", "accept"} =>
          \A p \in tick.on : tick.tries[p] \in 1 .. Len(att'[p])
  BY <1>2 DEF HandOK, TickOK
<1>5. tick.pc = "send" =>
          \A p \in tick.on : att'[p][tick.tries[p]] = att[p][tick.tries[p]]
  BY DEF HandOK, TickOK, InFlight
<1>6. tick.pc \in {"capture", "accept"} =>
          \A p \in tick.on : tick.res \in {"UNKNOWN", Truth(att'[p][tick.tries[p]])}
  BY <1>2 DEF HandOK, TickOK
<1> QED
  BY <1>1, <1>3, <1>4, <1>5, <1>6 DEF HandOK

----------------------------------------------------------------------------
(* The transactions on the positions.                                      *)

(* What every one of them does to the books: positions and attempts keep   *)
(* agreeing, and bots that have stopped stay flat.                         *)
Books ==
    /\ pos' \in [Positions -> PositionRows] /\ AttOK' /\ LedgersOK' /\ OneEntry'
    /\ Grows

Flat == \A e \in Epochs : bot[e].status = "STOPPED" => Cleared(e, pos')

(* A step that leaves positions and attempts alone. *)
LEMMA NothingMoves ==
    ASSUME TradingInv, UNCHANGED <<pos, att>>
    PROVE  Books /\ Flat
<1>1. pos' \in [Positions -> PositionRows] /\ AttOK'
  BY DEF TradingInv, TypeOK, AttOK, PositionRows
<1>2. LedgersOK' /\ OneEntry'
  BY DEF TradingInv, LedgersOK, OneEntry
<1>3. Grows
  BY SeqFacts DEF TradingInv, AttOK, Grows
<1>4. Flat
  BY DEF TradingInv, StopOK, Flat
<1> QED
  BY <1>1, <1>2, <1>3, <1>4 DEF Books

(* A step on one position. *)
LEMMA OneMoves ==
    ASSUME TradingInv, NEW p \in Positions, NEW y, NEW t, Ledger(y, t),
           pos' = [pos EXCEPT ![p] = y], att' = [att EXCEPT ![p] = t],
           Len(att[p]) <= Len(t),
           OpenEntry(t) => \/ OpenEntry(att[p])
                           \/ \A q \in Positions \ {p} : ~OpenEntry(att[q]),
           \/ /\ y.origin = pos[p].origin
              /\ pos[p].state \in Settled => y.state \in Settled
           \/ Enters(y.origin)
    PROVE  Books /\ Flat
<1>1. y \in PositionRows /\ t \in Seq(Attempts)
  BY DEF Ledger
<1>2. pos \in [Positions -> PositionRows] /\ att \in [Positions -> Seq(Attempts)]
  BY DEF TradingInv, TypeOK, AttOK, PositionRows
<1>3. pos' \in [Positions -> PositionRows] /\ AttOK'
  BY <1>1, <1>2 DEF AttOK
<1>4. /\ pos'[p] = y /\ att'[p] = t
      /\ \A q \in Positions \ {p} : pos'[q] = pos[q] /\ att'[q] = att[q]
  BY <1>2
<1>5. LedgersOK'
  BY <1>4 DEF TradingInv, LedgersOK
<1>6. OneEntry'
  BY <1>4 DEF TradingInv, OneEntry
<1>7. Grows
  BY <1>2, <1>4, SeqFacts DEF Grows
<1>8. Flat
  BY <1>4 DEF TradingInv, StopOK, Flat, Cleared, Enters
<1> QED
  BY <1>3, <1>5, <1>6, <1>7, <1>8 DEF Books

(* Positions are cancelled, asked to close or left alone. *)
LEMMA StatesMove ==
    ASSUME TradingInv, pos' \in [Positions -> PositionRows], UNCHANGED att,
           \A p \in Positions : \E t \in States :
              /\ pos'[p] = [pos[p] EXCEPT !.state = t]
              /\ \/ t = pos[p].state
                 \/ t = "CANCELLED" /\ pos[p].state = "WATCHED"
                 \/ t \notin Settled \cup {"WATCHED"} /\ pos[p].state \notin Settled
    PROVE  Books /\ Flat
<1>1. pos \in [Positions -> PositionRows] /\ att \in [Positions -> Seq(Attempts)]
  BY DEF TradingInv, TypeOK, AttOK, PositionRows
<1>2. LedgersOK'
  BY StateMoves DEF TradingInv, LedgersOK
<1>3. \A p \in Positions : /\ pos'[p].origin = pos[p].origin
                           /\ pos[p].state \in Settled => pos'[p].state \in Settled
  BY <1>1 DEF PositionRows, Settled
<1>4. Flat
  BY <1>3 DEF TradingInv, StopOK, Flat, Cleared
<1>5. Grows
  BY <1>1, SeqFacts DEF Grows
<1> QED
  BY <1>1, <1>2, <1>4, <1>5 DEF Books, TradingInv, OneEntry, AttOK

(* A position cancelled or moved by itself. *)
LEMMA StateMove ==
    ASSUME TradingInv, NEW p \in Positions, NEW t \in States,
           pos' = [pos EXCEPT ![p].state = t], UNCHANGED att,
           \/ t = pos[p].state
           \/ t = "CANCELLED" /\ pos[p].state = "WATCHED"
           \/ t \notin Settled \cup {"WATCHED"} /\ pos[p].state \notin Settled
    PROVE  Books /\ Flat
<1> DEFINE y == [pos[p] EXCEPT !.state = t]
<1>1. pos \in [Positions -> PositionRows] /\ att \in [Positions -> Seq(Attempts)]
  BY DEF TradingInv, TypeOK, AttOK, PositionRows
<1>2. Ledger(y, att[p])
  BY StateMoves DEF TradingInv, LedgersOK
<1>3. pos' = [pos EXCEPT ![p] = y] /\ att' = [att EXCEPT ![p] = att[p]]
  BY <1>1
<1>4. y.origin = pos[p].origin /\ (pos[p].state \in Settled => y.state \in Settled)
  BY <1>1 DEF PositionRows, Settled
<1>5. Len(att[p]) <= Len(att[p])
  BY <1>1, SeqFacts
<1> HIDE DEF y
<1> QED
  BY <1>2, <1>3, <1>4, <1>5, OneMoves

(* One attempt is answered, captured or reported, and stays what it is. *)
LEMMA AttemptTouched ==
    ASSUME TradingInv, NEW p \in Positions, NEW i \in 1 .. Len(att[p]), NEW a \in Attempts,
           UNCHANGED pos, att' = [att EXCEPT ![p][i] = a],
           a.side = att[p][i].side, a.left = att[p][i].left, a.final = att[p][i].final,
           a.cap \in {"NONE", "UNKNOWN", Truth(a)},
           \/ a.done = att[p][i].done
           \/ att[p][i].final = "NONE" /\ (att[p][i].side = "EXIT" => a.done <= att[p][i].left)
    PROVE  Books /\ Flat
<1> DEFINE t == [att[p] EXCEPT ![i] = a]
<1>1. pos \in [Positions -> PositionRows] /\ att \in [Positions -> Seq(Attempts)]
  BY DEF TradingInv, TypeOK, AttOK, PositionRows
<1>2. Ledger(pos[p], att[p])
  BY DEF TradingInv, LedgersOK
<1>3. Ledger(pos[p], t)
  BY <1>2, Touched
<1>4. pos' = [pos EXCEPT ![p] = pos[p]] /\ att' = [att EXCEPT ![p] = t]
  BY <1>1
<1>5. /\ Len(t) = Len(att[p]) /\ Len(att[p]) \in Nat /\ t[i] = a
      /\ \A j \in 1 .. Len(att[p]) : j # i => t[j] = att[p][j]
  BY <1>1, Replaced, SeqFacts
<1> HIDE DEF t
<1>6. OpenEntry(t) => OpenEntry(att[p])
  BY <1>5 DEF OpenEntry
<1>7. Len(att[p]) <= Len(t)
  BY <1>5
<1> DEFINE y == pos[p]
<1>8. /\ Ledger(y, t) /\ pos' = [pos EXCEPT ![p] = y] /\ y.origin = pos[p].origin
      /\ pos[p].state \in Settled => y.state \in Settled
  BY <1>3, <1>4
<1> HIDE DEF y
<1> QED
  BY <1>4, <1>6, <1>7, <1>8, OneMoves

(* No attempt of a position is open unless its last one is. *)
LEMMA OpenFacts ==
    ASSUME TradingInv, NEW p \in Positions
    PROVE  /\ Ledger(pos[p], att[p]) /\ att[p] \in Seq(Attempts) /\ pos[p] \in PositionRows
           /\ Len(att[p]) \in Nat /\ DOMAIN att[p] = 1 .. Len(att[p])
           /\ Open(p) = {i \in 1 .. Len(att[p]) : att[p][i].final = "NONE"}
           /\ Open(p) \subseteq {Len(att[p])}
           /\ OpenEntry(att[p]) => HasOpen(p)
           /\ HasOpen(p) => pos[p].state \notin Settled
<1>1. Ledger(pos[p], att[p])
  BY DEF TradingInv, LedgersOK
<1>2. /\ att[p] \in Seq(Attempts) /\ pos[p] \in PositionRows
      /\ Len(att[p]) \in Nat /\ DOMAIN att[p] = 1 .. Len(att[p])
  BY <1>1, LedgerTypes
<1>3. Open(p) = {i \in 1 .. Len(att[p]) : att[p][i].final = "NONE"}
  BY <1>2 DEF Open
<1>4. Open(p) \subseteq {Len(att[p])}
  BY <1>1, <1>3, OpenIsLast
<1>5. HasOpen(p) => pos[p].state \notin Settled
  BY <1>1, <1>3 DEF HasOpen, Ledger, StateOK
<1>6. OpenEntry(att[p]) => HasOpen(p)
  BY <1>2, <1>3 DEF OpenEntry, HasOpen
<1> QED
  BY <1>1, <1>2, <1>3, <1>4, <1>5, <1>6

(* The envelope lets an entry begin only while no other outcome is open. *)
LEMMA EnvelopeIsClear ==
    ASSUME TradingInv, NEW p \in Positions, EnvelopeAllows(p)
    PROVE  \A q \in Positions \ {p} : ~OpenEntry(att[q])
BY OpenFacts DEF EnvelopeAllows, Obligations

(* An entry begins, by the tick or by the operator. *)
LEMMA EntryBeginsOK ==
    ASSUME TradingInv, NEW p \in Positions, NEW n \in 0 .. Size, EntryBegins(p, n)
    PROVE  Books /\ Flat /\ att' = [att EXCEPT ![p] = Append(@, Attempt("ENTRY", 0, n))]
<1> DEFINE y == [pos[p] EXCEPT !.state = "ATTEMPTING"]
           t == Append(att[p], Attempt("ENTRY", 0, n))
<1>1. pos \in [Positions -> PositionRows] /\ att \in [Positions -> Seq(Attempts)]
  BY DEF TradingInv, TypeOK, AttOK, PositionRows
<1>2. Ledger(pos[p], att[p]) /\ pos[p].state = "WATCHED" /\ EnvelopeAllows(p)
  BY OpenFacts DEF EntryBegins
<1>3. Ledger(y, t)
  BY <1>2, EntryAppended
<1>4. pos' = [pos EXCEPT ![p] = y] /\ att' = [att EXCEPT ![p] = t]
  BY <1>1 DEF EntryBegins
<1>5. y.origin = pos[p].origin /\ pos[p].state \notin Settled
  BY <1>1, <1>2 DEF PositionRows, Settled
<1>6. Len(att[p]) <= Len(t)
  <2>1. att[p] = <<>>
    BY <1>2 DEF Ledger, StateOK
  <2>2. Len(att[p]) = 0 /\ Len(t) \in Nat
    BY <2>1, <1>2, <1>3, LedgerTypes
  <2> QED
    BY <2>2
<1> HIDE DEF y, t
<1>7. Books /\ Flat
  BY <1>2, <1>3, <1>4, <1>5, <1>6, EnvelopeIsClear, OneMoves
<1> QED
  BY <1>7, <1>1 DEF EntryBegins

(* An exit may begin only when the last attempt is settled and something   *)
(* was entered.                                                            *)
LEMMA MayExitFacts ==
    ASSUME TradingInv, NEW p \in Positions, MayExit(p)
    PROVE  /\ \A i \in 1 .. Len(att[p]) : att[p][i].final # "NONE"
           /\ att[p] # <<>> /\ pos[p].entered > 0
           /\ pos[p].state \in {"EXIT_REQUIRED", "EXITING", "UNRESOLVED"}
<1> DEFINE exits == Tries(p, "EXIT")
<1>1. /\ Ledger(pos[p], att[p]) /\ Len(att[p]) \in Nat
      /\ DOMAIN att[p] = 1 .. Len(att[p]) /\ Open(p) \subseteq {Len(att[p])}
      /\ Open(p) = {i \in 1 .. Len(att[p]) : att[p][i].final = "NONE"}
  BY OpenFacts
<1>2. pos[p].entered > 0 /\ pos[p].state \in {"EXIT_REQUIRED", "EXITING", "UNRESOLVED"}
  BY DEF MayExit
<1>3. att[p] # <<>> /\ att[p][1].final # "NONE"
  BY <1>1, <1>2 DEF Ledger, BookOK
<1>4. Len(att[p]) > 0
  BY <1>1, <1>3, LedgerTypes
<1>5. exits = 2 .. Len(att[p])
  BY <1>1, <1>4 DEF Ledger, OrderOK, Tries
<1>6. ASSUME Len(att[p]) = 1
      PROVE  \A i \in 1 .. Len(att[p]) : att[p][i].final # "NONE"
  BY <1>3, <1>6
<1>7. ASSUME Len(att[p]) > 1
      PROVE  \A i \in 1 .. Len(att[p]) : att[p][i].final # "NONE"
  <2>1. exits # {} /\ IsFiniteSet(exits) /\ exits \in SUBSET Int
    <3>1. IsFiniteSet(2 .. Len(att[p]))
      BY <1>1, FS_Interval
    <3>2. 2 \in 2 .. Len(att[p]) /\ 2 .. Len(att[p]) \in SUBSET Int
      BY <1>1, <1>7
    <3> QED
      BY <3>1, <3>2, <1>5
  <2>2. Max(exits) \in exits /\ \A n \in exits : n <= Max(exits)
    BY <2>1, MaxIsGreatest
  <2>3. Len(att[p]) \in exits
    BY <1>1, <1>5, <1>7
  <2>4. Max(exits) = Len(att[p])
    BY <1>1, <1>5, <2>2, <2>3
  <2>5. att[p][Max(exits)].final # "NONE"
    BY <2>1 DEF MayExit
  <2> QED
    BY <1>1, <2>4, <2>5
<1>8. \A i \in 1 .. Len(att[p]) : att[p][i].final # "NONE"
  <2>1. Len(att[p]) = 1 \/ Len(att[p]) > 1
    <3>1. \A n \in Nat : n > 0 => n = 1 \/ n > 1
      OBVIOUS
    <3> QED
      BY <1>1, <1>4, <3>1, Zenon
  <2> QED
    BY <2>1, <1>6, <1>7
<1> QED
  BY <1>2, <1>3, <1>8

(* An exit begins, for what is left. *)
LEMMA ExitBeginsOK ==
    ASSUME TradingInv, NEW p \in Positions, NEW n \in 0 .. pos[p].left,
           ExitBegins(p, pos[p].left, n)
    PROVE  /\ Books /\ Flat
           /\ att' = [att EXCEPT ![p] = Append(@, Attempt("EXIT", pos[p].left, n))]
<1> DEFINE u == IF pos[p].state = "EXIT_REQUIRED" THEN "EXITING" ELSE pos[p].state
           y == [pos[p] EXCEPT !.state = u]
           t == Append(att[p], Attempt("EXIT", pos[p].left, n))
<1>1. pos \in [Positions -> PositionRows] /\ att \in [Positions -> Seq(Attempts)]
  BY DEF TradingInv, TypeOK, AttOK, PositionRows
<1>2. /\ Ledger(pos[p], att[p]) /\ att[p] # <<>> /\ pos[p].entered > 0
      /\ \A i \in 1 .. Len(att[p]) : att[p][i].final # "NONE"
      /\ u \in {"EXIT_REQUIRED", "EXITING", "UNRESOLVED"} /\ pos[p].state \notin Settled
  BY OpenFacts, MayExitFacts DEF ExitBegins, Settled
<1>3. Ledger(y, t)
  BY <1>2, ExitAppended
<1>4. pos' = [pos EXCEPT ![p] = y] /\ att' = [att EXCEPT ![p] = t]
  BY <1>1 DEF ExitBegins
<1>5. y.origin = pos[p].origin
  BY <1>1 DEF PositionRows
<1>6. Len(t) = Len(att[p]) + 1 /\ Len(att[p]) \in Nat /\ Len(att[p]) > 0
  <2>1. Attempt("EXIT", pos[p].left, n) \in Attempts
    <3>1. pos[p].left \in 0 .. Size /\ n \in 0 .. Size
      BY <1>1, TradingAssumption DEF PositionRows
    <3> QED
      BY <3>1 DEF Attempt, Attempts, Results
  <2> QED
    BY <1>2, <2>1, LedgerTypes, AppendProperties
<1>7. Len(att[p]) <= Len(t) /\ ~OpenEntry(t)
  BY <1>6 DEF OpenEntry
<1> HIDE DEF y, t, u
<1>8. Books /\ Flat
  BY <1>2, <1>3, <1>4, <1>5, <1>7, OneMoves
<1> QED
  BY <1>8, <1>1 DEF ExitBegins

(* The position after an accepted result, case by case. *)
LEMMA AfterUnknown ==
    ASSUME NEW p, pos[p] \in PositionRows, NEW a \in Attempts
    PROVE  \E t \in States :
              /\ After(p, a, "UNKNOWN") = [pos[p] EXCEPT !.state = t]
              /\ t = pos[p].state \/ t \notin Settled \cup {"WATCHED"}
<1>1. a.side \in {"ENTRY", "EXIT"} /\ pos[p].state \in States
  BY DEF Attempts, PositionRows
<1>2. CASE a.side = "ENTRY"
  <2> DEFINE t == IF pos[p].state = "ATTEMPTING" THEN "UNKNOWN" ELSE pos[p].state
  <2>1. After(p, a, "UNKNOWN") = [pos[p] EXCEPT !.state = t]
    BY <1>2 DEF After, PositionRows
  <2>2. t \in States /\ (t = pos[p].state \/ t \notin Settled \cup {"WATCHED"})
    BY <1>1 DEF States, Settled
  <2> QED
    BY <2>1, <2>2
<1>3. CASE a.side = "EXIT"
  <2>1. After(p, a, "UNKNOWN") = [pos[p] EXCEPT !.state = "UNRESOLVED"]
    BY <1>3 DEF After
  <2> QED
    BY <2>1 DEF States, Settled
<1> QED
  BY <1>1, <1>2, <1>3

(* The position after the result of its entry.                             *)
LEMMA AfterEntry ==
    ASSUME NEW p, pos[p] \in PositionRows, NEW a \in Attempts, a.side = "ENTRY",
           pos[p].entered = 0, pos[p].left = 0
    PROVE  LET y == After(p, a, Truth(a)) IN
           /\ y \in PositionRows /\ y.origin = pos[p].origin
           /\ y.entered = a.done /\ y.left = a.done
           /\ \/ y.state \notin Settled \cup {"WATCHED"}
              \/ y.state = "CANCELLED" /\ a.done = 0
<1> DEFINE y == After(p, a, Truth(a))
<1>1. a.done \in 0 .. Size /\ Size \in Nat
  BY TradingAssumption DEF Attempts
<1>2. CASE a.done > 0
  <2>1. Truth(a) = "FILL"
    BY <1>2 DEF Truth
  <2> DEFINE u == IF pos[p].state = "EXIT_REQUIRED" THEN "EXIT_REQUIRED" ELSE "OPEN"
  <2>2. /\ y.state = u /\ y.origin = pos[p].origin /\ y.entered = a.done /\ y.left = a.done
        /\ y = [state |-> y.state, origin |-> y.origin, entered |-> y.entered, left |-> y.left]
    BY <2>1 DEF After, PositionRows
  <2>3. u \in States /\ u \notin Settled \cup {"WATCHED"}
    BY DEF States, Settled
  <2>4. pos[p].origin \in 0 .. LastEpoch
    BY DEF PositionRows
  <2> HIDE DEF u, y
  <2>5. y \in PositionRows
    BY <1>1, <2>2, <2>3, <2>4 DEF PositionRows
  <2> QED
    BY <2>2, <2>3, <2>5 DEF y
<1>3. CASE a.done = 0
  <2>1. Truth(a) = "NONFILL"
    BY <1>3 DEF Truth
  <2>2. y = [pos[p] EXCEPT !.state = "CANCELLED"]
    BY <2>1 DEF After
  <2>3. "CANCELLED" \in States
    BY DEF States
  <2> HIDE DEF y
  <2>4. /\ y \in PositionRows /\ y.state = "CANCELLED" /\ y.origin = pos[p].origin
        /\ y.entered = 0 /\ y.left = 0
    BY <2>2, <2>3 DEF PositionRows
  <2> QED
    BY <1>3, <2>4 DEF y
<1> QED
  BY <1>1, <1>2, <1>3

(* The position after the result of an exit.                               *)
LEMMA AfterExit ==
    ASSUME NEW p, pos[p] \in PositionRows, NEW a \in Attempts, a.side = "EXIT",
           a.done <= pos[p].left
    PROVE  LET y == After(p, a, Truth(a)) IN
           /\ y \in PositionRows /\ y.origin = pos[p].origin
           /\ y.entered = pos[p].entered /\ y.left = pos[p].left - a.done
           /\ \/ y.state \notin Settled \cup {"WATCHED"}
              \/ y.state = "RECONCILED" /\ y.left = 0
<1> DEFINE y == After(p, a, Truth(a))
           rest == pos[p].left - a.done
<1>1. a.done \in 0 .. Size /\ Size \in Nat /\ pos[p].left \in 0 .. Size
  BY TradingAssumption DEF Attempts, PositionRows
<1>2. rest \in 0 .. Size
  BY <1>1
<1>3. pos[p].origin \in 0 .. LastEpoch /\ pos[p].entered \in 0 .. Size
  BY DEF PositionRows
<1>4. CASE a.done > 0
  <2>1. Truth(a) = "FILL"
    BY <1>4 DEF Truth
  <2> DEFINE u == IF rest > 0 THEN "EXIT_REQUIRED" ELSE "RECONCILED"
  <2>2. /\ y.state = u /\ y.origin = pos[p].origin /\ y.entered = pos[p].entered
        /\ y.left = rest
        /\ y = [state |-> y.state, origin |-> y.origin, entered |-> y.entered, left |-> y.left]
    BY <2>1 DEF After, PositionRows
  <2>3. /\ u \in States
        /\ u \notin Settled \cup {"WATCHED"} \/ (u = "RECONCILED" /\ rest = 0)
    BY <1>2, <1>1 DEF States, Settled
  <2> HIDE DEF u, y, rest
  <2>4. y \in PositionRows
    BY <1>2, <1>3, <2>2, <2>3 DEF PositionRows
  <2> QED
    BY <2>2, <2>3, <2>4 DEF y, rest
<1>5. CASE a.done = 0
  <2>1. Truth(a) = "NONFILL"
    BY <1>5 DEF Truth
  <2>2. y = [pos[p] EXCEPT !.state = "UNRESOLVED"]
    BY <2>1 DEF After
  <2>3. "UNRESOLVED" \in States /\ "UNRESOLVED" \notin Settled \cup {"WATCHED"}
    BY DEF States, Settled
  <2> HIDE DEF y
  <2>4. /\ y \in PositionRows /\ y.state = "UNRESOLVED" /\ y.origin = pos[p].origin
        /\ y.entered = pos[p].entered /\ y.left = pos[p].left
    BY <2>2, <2>3 DEF PositionRows
  <2>5. pos[p].left - a.done = pos[p].left
    BY <1>1, <1>5
  <2> QED
    BY <2>3, <2>4, <2>5 DEF y
<1> QED
  BY <1>1, <1>4, <1>5

(* A result is accepted for an open attempt: the true one, or UNKNOWN. *)
LEMMA AcceptsOK ==
    ASSUME TradingInv, NEW p \in Positions, NEW i \in 1 .. Len(att[p]),
           NEW res \in {"UNKNOWN", Truth(att[p][i])}, NEW captured \in BOOLEAN,
           Accepts(p, i, res, captured)
    PROVE  /\ Books /\ Flat
           /\ \A q \in Positions : \A j \in 1 .. Len(att[q]) :
                 /\ att'[q][j].done = att[q][j].done
                 /\ q # p \/ j # i => att'[q][j] = att[q][j]
<1> DEFINE b == att[p][i]
           a == Answered(b, res, captured)
           t == [att[p] EXCEPT ![i] = a]
           y == After(p, b, res)
<1>1. pos \in [Positions -> PositionRows] /\ att \in [Positions -> Seq(Attempts)]
  BY DEF TradingInv, TypeOK, AttOK, PositionRows
<1>2. /\ Ledger(pos[p], att[p]) /\ att[p] \in Seq(Attempts) /\ Len(att[p]) \in Nat
      /\ pos[p] \in PositionRows
  BY OpenFacts
<1>3. b.final = "NONE" /\ b \in Attempts
  BY <1>2, LedgerTypes DEF Accepts
<1>4. i = Len(att[p]) /\ \A j \in 1 .. Len(att[p]) : j # i => att[p][j].final # "NONE"
  BY <1>2, <1>3, OpenIsLast
<1>5. pos[p].state \notin Settled
  BY <1>2, <1>3 DEF Ledger, StateOK
<1>6. a \in Attempts /\ a.side = b.side /\ a.done = b.done
  <2>1. CASE res = "UNKNOWN"
    <3>1. a = [b EXCEPT !.seen = @ \/ captured]
      BY <2>1 DEF Answered
    <3>2. (b.seen \/ captured) \in BOOLEAN
      OBVIOUS
    <3> HIDE DEF a, b
    <3> QED
      BY <1>3, <3>1, <3>2 DEF Attempts
  <2>2. CASE res # "UNKNOWN"
    <3>1. a = [Attempt(b.side, 0, b.done) EXCEPT !.final = res]
      BY <2>2 DEF Answered
    <3>2. res \in {"FILL", "NONFILL"}
      BY <2>2 DEF Truth
    <3>3. b.side \in {"ENTRY", "EXIT"} /\ b.done \in 0 .. Size /\ 0 \in 0 .. Size
      BY <1>3, TradingAssumption DEF Attempts
    <3> HIDE DEF a, b
    <3> QED
      BY <3>1, <3>2, <3>3 DEF Attempt, Attempts, Results
  <2> QED
    BY <2>1, <2>2
<1>7. /\ t \in Seq(Attempts) /\ Len(t) = Len(att[p]) /\ t[i] = a
      /\ \A j \in 1 .. Len(att[p]) : j # i => t[j] = att[p][j]
  BY <1>2, <1>6, Replaced
<1>8. Ledger(y, t) /\ y.origin = pos[p].origin
  <2>1. CASE res = "UNKNOWN"
    <3>1. a = [b EXCEPT !.seen = @ \/ captured]
      BY <2>1 DEF Answered
    <3>2. a.left = b.left /\ a.final = b.final /\ a.cap = b.cap
      BY <1>3, <3>1 DEF Attempts
    <3>3. b.cap \in {"NONE", "UNKNOWN", Truth(a)}
      BY <1>2, <1>6 DEF Ledger, OrderOK, Truth
    <3>4. Ledger(pos[p], t)
      <4> HIDE DEF a
      <4> QED
        BY <1>2, <1>6, <3>2, <3>3, Touched
    <3>5. PICK u \in States : /\ y = [pos[p] EXCEPT !.state = u]
                              /\ u = pos[p].state \/ u \notin Settled \cup {"WATCHED"}
      BY <1>2, <1>3, <2>1, AfterUnknown
    <3> HIDE DEF t, y
    <3>6. Ledger(y, t)
      BY <1>5, <3>4, <3>5, StateMoves
    <3>7. y.origin = pos[p].origin
      BY <1>2, <3>5 DEF PositionRows
    <3> QED
      BY <3>6, <3>7
  <2>2. CASE res # "UNKNOWN"
    <3>1. a = [Attempt(b.side, 0, b.done) EXCEPT !.final = res] /\ res = Truth(b)
      BY <2>2 DEF Answered
    <3>2. a.final = Truth(b) /\ a.cap = "NONE" /\ a.side = b.side
      BY <3>1 DEF Attempt
    <3>3. CASE b.side = "ENTRY"
      <4>1. i = 1 /\ Len(att[p]) = 1
        BY <1>2, <1>4, <3>3 DEF Ledger, OrderOK
      <4>2. pos[p].entered = 0 /\ pos[p].left = 0
        <5>1. Ledger(pos[p], att[p]) /\ Len(att[p]) = 1 /\ att[p][1].final = "NONE"
          BY <1>2, <1>3, <4>1
        <5> HIDE DEF a, b, t, y
        <5> QED
          BY ONLY <5>1, EntryUnderway
      <4>3. /\ y \in PositionRows /\ y.origin = pos[p].origin
            /\ y.entered = b.done /\ y.left = b.done
            /\ \/ y.state \notin Settled \cup {"WATCHED"}
               \/ y.state = "CANCELLED" /\ b.done = 0
        BY <1>2, <1>3, <3>1, <3>3, <4>2, AfterEntry
      <4>4. pos[p].state # "ABSENT"
        BY <1>5 DEF Settled
      <4> HIDE DEF a, y
      <4>5. Ledger(y, [att[p] EXCEPT ![1] = a])
        BY <1>2, <1>3, <1>6, <3>2, <3>3, <4>1, <4>3, <4>4, EntrySettled
      <4> QED
        BY <4>1, <4>3, <4>5
    <3>4. CASE b.side = "EXIT"
      <4>1. b.done <= pos[p].left
        <5>1. i # 1 /\ Len(att[p]) > 1
          BY <1>2, <1>4, <3>4 DEF Ledger, OrderOK
        <5> QED
          BY <1>2, <1>3, <1>4, <5>1 DEF Ledger, BookOK
      <4>2. /\ y \in PositionRows /\ y.origin = pos[p].origin
            /\ y.entered = pos[p].entered /\ y.left = pos[p].left - b.done
            /\ \/ y.state \notin Settled \cup {"WATCHED"}
               \/ y.state = "RECONCILED" /\ y.left = 0
        BY <1>2, <1>3, <3>1, <3>4, <4>1, AfterExit
      <4>3. pos[p].state # "ABSENT"
        BY <1>5 DEF Settled
      <4> HIDE DEF a, y
      <4> QED
        BY <1>2, <1>3, <1>6, <3>2, <3>4, <4>2, <4>3, ExitSettled
    <3> QED
      BY <1>3, <3>3, <3>4 DEF Attempts
  <2> QED
    BY <2>1, <2>2
<1>9. pos' = [pos EXCEPT ![p] = y] /\ att' = [att EXCEPT ![p] = t]
  <2>1. pos' = [pos EXCEPT ![p] = y]
    BY DEF Accepts
  <2>2. att' = [att EXCEPT ![p] = t]
    BY <1>1, <1>2 DEF Accepts
  <2> QED
    BY <2>1, <2>2
<1>10. OpenEntry(t) => OpenEntry(att[p])
  BY <1>3, <1>4, <1>7 DEF OpenEntry
<1>11. Len(att[p]) <= Len(t)
  BY <1>2, <1>7
<1> HIDE DEF a, t, y
<1>12. Books /\ Flat
  BY <1>5, <1>8, <1>9, <1>10, <1>11, OneMoves
<1>13. ASSUME NEW q \in Positions, NEW j \in 1 .. Len(att[q])
       PROVE  /\ att'[q][j].done = att[q][j].done
              /\ q # p \/ j # i => att'[q][j] = att[q][j]
  <2>1. CASE q = p
    BY <1>1, <1>6, <1>7, <1>9, <2>1
  <2>2. CASE q # p
    BY <1>1, <1>9, <2>2
  <2> QED
    BY <2>1, <2>2
<1> QED
  BY <1>12, <1>13

----------------------------------------------------------------------------
(* The steps.                                                              *)

(* What is to be shown of every step, besides the types. *)
Holds == Books /\ TickOK' /\ HandOK' /\ StopOK'

(* The attempts that were there stay when another one begins. *)
LEMMA AppendKeeps ==
    ASSUME AttOK, NEW p \in Positions, NEW a \in Attempts,
           att' = [att EXCEPT ![p] = Append(@, a)]
    PROVE  /\ \A q \in Positions : \A j \in 1 .. Len(att[q]) : att'[q][j] = att[q][j]
           /\ Len(att'[p]) = Len(att[p]) + 1 /\ att'[p][Len(att[p]) + 1] = a
<1>1. att'[p] = Append(att[p], a) /\ \A q \in Positions \ {p} : att'[q] = att[q]
  BY DEF AttOK
<1>2. att[p] \in Seq(Attempts)
  BY DEF AttOK
<1> QED
  BY <1>1, <1>2, AppendProperties

(* Bots stop by themselves only when they are flat. *)
LEMMA StopStays ==
    ASSUME Flat,
           \A e \in Epochs : bot'[e].status = "STOPPED" =>
               bot[e].status = "STOPPED" \/ Cleared(e, pos')
    PROVE  StopOK'
BY DEF Flat, StopOK, Cleared

(* No bot stops in a step that leaves the bots alone.                      *)
LEMMA StopKept ==
    ASSUME Flat, UNCHANGED bot
    PROVE  StopOK'
BY StopStays

(* A drain that is finished is flat (maybe_finish_drain).                  *)
LEMMA StopFinishes ==
    ASSUME TypeOK, Flat, NEW E, bot' = Finished(E, pos')
    PROVE  StopOK'
<1>1. \A e \in Epochs : bot'[e].status = "STOPPED" =>
          bot[e].status = "STOPPED" \/ Cleared(e, pos')
  BY DEF Finished
<1> QED
  BY <1>1, StopStays

(* The rows that a loop takes are positions. *)
LEMMA FirstIsOne == \A S : First(S) \subseteq S
BY DEF First

(* Steps of the tick that move nothing but the tick. *)
LEMMA TickGoesOn ==
    ASSUME TradingInv, UNCHANGED <<pos, att>>, UNCHANGED bot, NEW p \in Positions, NEW well,
           GoOn(p, well)
    PROVE  Holds
BY NothingMoves, HandGoesOn, StopKept DEF TradingInv, Holds, Books

(* A tick starts with the rows of its recovery.                            *)
LEMMA StartTickOK ==
    ASSUME TradingInv, StartTick
    PROVE  Holds
<1>1. Books /\ StopOK'
  BY NothingMoves, StopKept DEF StartTick
<1>2. /\ tick'.pc = "recover" /\ tick'.phase = "recover" /\ tick'.on = {}
      /\ tick'.todo = {p \in Positions : HasOpen(p)} /\ tick'.amt = 0 /\ tick'.left = 0
      /\ tick'.tries = [p \in Positions |-> IF HasOpen(p) THEN Len(att[p]) ELSE 0]
      /\ tick' = AsTick(tick')
  BY DEF StartTick, Idle, AsTick
<1>3. \A p \in Positions : Len(att[p]) \in Nat
  BY OpenFacts
<1>4. TickOK'
  BY <1>2, <1>3 DEF TickOK
<1>5. \A p \in tick'.todo : tick'.tries[p] \in 1 .. Len(att'[p])
  <2> SUFFICES ASSUME NEW p \in Positions, HasOpen(p) PROVE Len(att[p]) \in 1 .. Len(att[p])
    BY <1>2 DEF StartTick
  <2> QED
    BY OpenFacts DEF HasOpen
<1>6. HandOK'
  BY <1>2, <1>5 DEF HandOK
<1> QED
  BY <1>1, <1>4, <1>6 DEF Holds

(* Recovery takes up a captured answer or a result file (_recover_attempt). *)
LEMMA RecoverAttemptOK ==
    ASSUME TradingInv, RecoverAttempt
    PROVE  Holds
<1>1. PICK p \in First(tick.todo) :
          LET a == att[p][tick.tries[p]] IN
          \/ /\ a.final # "NONE" /\ GoOn(p, TRUE)
          \/ /\ a.final = "NONE" /\ ~a.inbox /\ a.cap = "NONE" /\ GoOn(p, FALSE)
          \/ /\ a.final = "NONE" /\ a.inbox
             /\ tick' = [tick EXCEPT !.pc = "accept", !.on = {p}, !.res = Truth(a), !.src = "inbox"]
          \/ /\ a.final = "NONE" /\ ~a.inbox /\ a.cap # "NONE"
             /\ tick' = [tick EXCEPT !.pc = "accept", !.on = {p}, !.res = a.cap,
                                     !.src = IF a.seen THEN "seen" ELSE "capture"]
  BY DEF RecoverAttempt
<1> DEFINE i == tick.tries[p]
           a == att[p][i]
<1>2. tick.phase = "recover" /\ p \in tick.todo /\ p \in Positions
  BY <1>1, FirstIsOne DEF RecoverAttempt, TradingInv, HandOK, TickOK
<1>3. i \in 1 .. Len(att[p])
  BY <1>2 DEF TradingInv, HandOK
<1>4. a.cap \in {"NONE", "UNKNOWN", Truth(a)}
  BY <1>2, <1>3 DEF TradingInv, LedgersOK, Ledger, OrderOK
<1>5. CASE GoOn(p, TRUE) \/ GoOn(p, FALSE)
  BY <1>2, <1>5, TickGoesOn DEF RecoverAttempt
<1>6. CASE ~(GoOn(p, TRUE) \/ GoOn(p, FALSE))
  <2>1. /\ tick'.pc = "accept" /\ tick'.phase = tick.phase /\ tick'.on = {p}
        /\ tick'.todo = tick.todo /\ tick'.tries = tick.tries
        /\ tick'.amt = tick.amt /\ tick'.left = tick.left /\ tick' = AsTick(tick')
        /\ tick'.res \in {"UNKNOWN", Truth(a)}
    BY <1>1, <1>4, <1>6 DEF TradingInv, TickOK, AsTick
  <2>2. Books /\ StopOK' /\ UNCHANGED att
    BY NothingMoves, StopKept DEF RecoverAttempt
  <2> HIDE DEF a
  <2>3. TickOK'
    BY <1>2, <2>1 DEF TradingInv, TickOK
  <2>4. HandOK'
    <3>1. \A q \in tick'.todo : tick'.tries[q] \in 1 .. Len(att'[q])
      BY <1>2, <2>1, <2>2 DEF TradingInv, HandOK
    <3>2. \A q \in tick'.on : /\ tick'.tries[q] \in 1 .. Len(att'[q])
                              /\ tick'.res \in {"UNKNOWN", Truth(att'[q][tick'.tries[q]])}
      BY <1>3, <2>1, <2>2 DEF a
    <3> QED
      BY <2>1, <3>1, <3>2 DEF HandOK
  <2> QED
    BY <2>2, <2>3, <2>4 DEF Holds
<1> QED
  BY <1>5, <1>6

(* Steps from one loop to the next. *)
LEMMA TickTurns ==
    ASSUME TradingInv, Books, Flat, UNCHANGED bot, tick' = AsTick(tick'),
           tick'.pc \in {"rows", "gate", "works", "intents", "exit"},
           tick'.phase # "recover" \/ (tick'.phase = tick.phase /\ tick'.todo = tick.todo),
           tick'.todo \subseteq Positions, tick'.tries = tick.tries,
           tick'.amt = tick.amt, tick'.left = tick.left,
           tick'.on = tick.on \/ \E p \in Positions : tick'.on = {p}
    PROVE  Holds
<1>1. TickOK'
  BY DEF TradingInv, TickOK
<1>2. tick'.phase = "recover" =>
          \A q \in tick'.todo : tick'.tries[q] \in 1 .. Len(att'[q])
  <2> SUFFICES ASSUME tick'.phase = "recover", NEW q \in tick.todo
               PROVE  tick.tries[q] \in 1 .. Len(att'[q])
    OBVIOUS
  <2>1. q \in Positions /\ tick.tries[q] \in 1 .. Len(att[q])
    BY DEF TradingInv, HandOK, TickOK
  <2>2. Len(att[q]) \in Nat /\ Len(att'[q]) \in Nat /\ Len(att[q]) <= Len(att'[q])
    BY <2>1, SeqFacts DEF TradingInv, AttOK, Books, Grows
  <2> QED
    BY <2>1, <2>2
<1>3. \A p, q \in tick'.on : p = q
  BY DEF TradingInv, HandOK
<1>4. HandOK'
  BY <1>2, <1>3 DEF HandOK
<1> QED
  BY <1>1, <1>4, StopKept DEF Holds

(* Recovery is over and the rows are read.                                 *)
LEMMA EndRecoverOK ==
    ASSUME TradingInv, EndRecover
    PROVE  Holds
<1>1. /\ tick'.pc = "rows" /\ tick'.phase = "rows" /\ tick'.todo = Rows
      /\ tick'.tries = tick.tries /\ tick'.amt = tick.amt /\ tick'.left = tick.left
      /\ tick'.on = tick.on /\ tick' = AsTick(tick')
  BY DEF EndRecover, TradingInv, TickOK, AsTick
<1>2. Rows \subseteq Positions
  BY DEF Rows, Obligations
<1>3. Books /\ Flat /\ UNCHANGED bot
  BY NothingMoves DEF EndRecover
<1> QED
  BY <1>1, <1>2, <1>3, TickTurns

(* The exits are over and drains end.                                      *)
LEMMA EndRowsOK ==
    ASSUME TradingInv, EndRows
    PROVE  Holds
<1>1. /\ tick'.pc = "gate" /\ tick'.phase = tick.phase /\ tick'.todo = tick.todo
      /\ tick'.tries = tick.tries /\ tick'.amt = tick.amt /\ tick'.left = tick.left
      /\ tick'.on = tick.on /\ tick' = AsTick(tick')
  BY DEF EndRows, TradingInv, TickOK, AsTick
<1>2. Books /\ Flat
  BY NothingMoves DEF EndRows
<1>3. StopOK'
  BY <1>2, StopFinishes DEF EndRows, TradingInv
<1>4. TickOK' /\ HandOK'
  BY <1>1 DEF EndRows, TradingInv, TickOK, HandOK
<1> QED
  BY <1>2, <1>3, <1>4 DEF Holds

(* The gate of the entries (allows_entries).                               *)
LEMMA GateOK ==
    ASSUME TradingInv, Gate
    PROVE  Holds
<1>1. /\ tick'.pc = "works" /\ tick'.phase = "works" /\ tick'.todo = tick.todo
      /\ tick'.tries = tick.tries /\ tick'.amt = tick.amt /\ tick'.left = tick.left
      /\ tick'.on = tick.on /\ tick' = AsTick(tick')
  BY DEF Gate, TradingInv, TickOK, AsTick
<1>2. tick.todo \subseteq Positions
  BY DEF TradingInv, TickOK
<1>3. Books /\ Flat /\ UNCHANGED bot
  BY NothingMoves DEF Gate
<1> QED
  BY <1>1, <1>2, <1>3, TickTurns

(* The intents are read.                                                   *)
LEMMA EndWorksOK ==
    ASSUME TradingInv, EndWorks
    PROVE  Holds
<1>1. /\ tick'.pc = "intents" /\ tick'.phase = "intents" /\ tick'.todo \subseteq Positions
      /\ tick'.tries = tick.tries /\ tick'.amt = tick.amt /\ tick'.left = tick.left
      /\ tick'.on = tick.on /\ tick' = AsTick(tick')
  BY DEF EndWorks, TradingInv, TickOK, AsTick
<1>2. Books /\ Flat /\ UNCHANGED bot
  BY NothingMoves DEF EndWorks
<1> QED
  BY <1>1, <1>2, TickTurns

(* A tick ends or dies.                                                    *)
LEMMA EndTickOK ==
    ASSUME TradingInv, EndTick \/ Crash
    PROVE  Holds
<1>1. Books /\ Flat /\ UNCHANGED bot /\ tick' = Idle
  BY NothingMoves DEF EndTick, Crash
<1> QED
  BY <1>1, StopKept, IdleHand DEF Holds

(* The exit decision of one row. *)
LEMMA DecideExitOK ==
    ASSUME TradingInv, NEW p \in Positions, NEW isDue, DecideExit(p, isDue)
    PROVE  Holds
<1> DEFINE s == pos[p].state
           asks == tick.known[p] = "OPEN" /\ isDue
           may == s \in {"OPEN", "UNKNOWN"}
           well == asks => may \/ s = "EXIT_REQUIRED"
           now == IF asks /\ may THEN "EXIT_REQUIRED" ELSE s
           read == IF tick.known[p] = "OPEN" THEN now ELSE tick.known[p]
<1>1. /\ pos' = [pos EXCEPT ![p].state = now] /\ UNCHANGED <<bot, att>>
      /\ \/ GoOn(p, well)
         \/ tick' = [tick EXCEPT !.pc = "exit", !.on = {p}, !.known[p] = read,
                                 !.healthy = @ /\ well]
  BY DEF DecideExit
<1>2. /\ now \in States
      /\ now = s \/ (now \notin Settled \cup {"WATCHED"} /\ s \notin Settled)
  <2>1. s \in States
    BY DEF TradingInv, TypeOK
  <2> QED
    BY <2>1 DEF States, Settled
<1> HIDE DEF well, read
<1>3. Books /\ Flat
  <2> HIDE DEF now
  <2> QED
    BY <1>1, <1>2, StateMove
<1>4. CASE GoOn(p, well)
  BY <1>1, <1>3, <1>4, HandGoesOn, StopKept DEF TradingInv, Holds, Books
<1>5. CASE tick' = [tick EXCEPT !.pc = "exit", !.on = {p}, !.known[p] = read,
                                !.healthy = @ /\ well]
  <2>1. /\ tick'.pc = "exit" /\ tick'.phase = tick.phase /\ tick'.todo = tick.todo
        /\ tick'.tries = tick.tries /\ tick'.amt = tick.amt /\ tick'.left = tick.left
        /\ tick'.on = {p} /\ tick' = AsTick(tick')
    BY <1>5 DEF TradingInv, TickOK, AsTick
  <2>2. tick.todo \subseteq Positions
    BY DEF TradingInv, TickOK
  <2> QED
    BY <1>1, <1>3, <2>1, <2>2, TickTurns
<1> QED
  BY <1>1, <1>4, <1>5

(* An uncertain row is left for recovery.                                  *)
LEMMA SkipExitOK ==
    ASSUME TradingInv, SkipExit
    PROVE  Holds
<1>1. PICK p \in tick.on : GoOn(p, FALSE)
  BY DEF SkipExit
<1>2. p \in Positions
  BY DEF TradingInv, TickOK
<1> QED
  BY <1>1, <1>2, TickGoesOn DEF SkipExit

(* The quantity of a leg is what is left, or less. *)
LEMMA LegIsLess ==
    ASSUME TradingInv, NEW p \in Positions, pos[p].left > 0
    PROVE  LET n == Min({pos[p].left, MaxLeg[pos[p].origin]})
           IN  n \in Nat /\ n <= pos[p].left
<1>1. /\ Ledger(pos[p], att[p]) /\ pos[p] \in PositionRows
  BY OpenFacts
<1>2. att[p] # <<>>
  <2> SUFFICES ASSUME att[p] = <<>> PROVE FALSE
    OBVIOUS
  <2>1. Len(att[p]) = 0
    BY <1>1, LedgerTypes
  <2>2. Sold(att[p]) = 0
    BY <1>1, <2>1, NoExitYet
  <2> QED
    BY <1>1, <2>2 DEF Ledger, BookOK
<1>3. pos[p].origin \in Epochs
  <2>1. pos[p].origin # 0
    BY <1>1, <1>2 DEF Ledger, StateOK
  <2>2. pos[p].origin \in 0 .. LastEpoch /\ LastEpoch \in Nat
    BY <1>1, TradingAssumption DEF PositionRows
  <2> QED
    BY <2>1, <2>2 DEF Epochs
<1>4. MaxLeg[pos[p].origin] \in Nat \ {0}
  BY <1>3, TradingAssumption DEF Epochs
<1>5. pos[p].left \in Nat
  <2>1. pos[p].left \in 0 .. Size /\ Size \in Nat
    BY <1>1, TradingAssumption DEF PositionRows
  <2> QED
    BY <2>1
<1> DEFINE a == pos[p].left
           b == MaxLeg[pos[p].origin]
<1> HIDE DEF a, b
<1>6. a \in Nat /\ b \in Nat
  BY <1>4, <1>5 DEF a, b
<1>7. \E x \in {a, b} : \A y \in {a, b} : x <= y
  BY <1>6
<1>8. Min({a, b}) \in {a, b} /\ \A y \in {a, b} : Min({a, b}) <= y
  BY <1>7 DEF Min
<1> QED
  BY <1>6, <1>8 DEF a, b

(* The request of an exit is prepared (_inputs).                           *)
LEMMA PrepareExitOK ==
    ASSUME TradingInv, PrepareExit
    PROVE  Holds
<1>1. PICK p \in tick.on :
          \/ /\ pos[p].left > 0
             /\ tick' = [tick EXCEPT !.pc = "claim", !.amt = Min({pos[p].left, MaxLeg[pos[p].origin]}),
                                     !.left = pos[p].left]
          \/ GoOn(p, FALSE)
  BY DEF PrepareExit
<1>2. p \in Positions /\ UNCHANGED <<pos, att>> /\ UNCHANGED bot
  BY DEF TradingInv, TickOK, PrepareExit
<1>3. CASE GoOn(p, FALSE)
  BY <1>2, <1>3, TickGoesOn
<1>4. CASE ~GoOn(p, FALSE)
  <2> DEFINE n == Min({pos[p].left, MaxLeg[pos[p].origin]})
  <2>1. n \in Nat /\ n <= pos[p].left /\ pos[p].left \in Nat
    <3>1. n \in Nat /\ n <= pos[p].left
      BY <1>1, <1>2, <1>4, LegIsLess
    <3>2. pos[p].left \in 0 .. Size /\ Size \in Nat
      BY <1>2, OpenFacts, TradingAssumption DEF PositionRows
    <3> HIDE DEF n
    <3> QED
      BY <3>1, <3>2
  <2>2. tick' = [tick EXCEPT !.pc = "claim", !.amt = n, !.left = pos[p].left]
    BY <1>1, <1>4
  <2> HIDE DEF n
  <2>3. /\ tick'.pc = "claim" /\ tick'.phase = tick.phase /\ tick'.todo = tick.todo
        /\ tick'.tries = tick.tries /\ tick'.amt = n /\ tick'.left = pos[p].left
        /\ tick'.on = tick.on /\ tick' = AsTick(tick')
    BY <2>2 DEF TradingInv, TickOK, AsTick
  <2>4. TickOK' /\ HandOK'
    BY <1>2, <2>1, <2>3 DEF TradingInv, TickOK, HandOK
  <2> QED
    BY <1>2, <2>4, NothingMoves, StopKept DEF Holds
<1> QED
  BY <1>3, <1>4

(* The tick has begun an attempt. *)
LEMMA ClaimedOK ==
    ASSUME TradingInv, Books, NEW p \in Positions, NEW a \in Attempts,
           att' = [att EXCEPT ![p] = Append(@, a)], Claimed(p),
           a.final = "NONE", a.done = 0, a.cap = "NONE",
           a.side = "EXIT" => tick.amt <= a.left
    PROVE  TickOK' /\ HandOK'
<1> DEFINE i == Len(att[p]) + 1
<1>1. /\ tick'.pc = "send" /\ tick'.phase = tick.phase /\ tick'.todo = tick.todo
      /\ tick'.tries = [tick.tries EXCEPT ![p] = i]
      /\ tick'.amt = tick.amt /\ tick'.left = tick.left
      /\ tick'.on = {p} /\ tick' = AsTick(tick')
  BY DEF Claimed, TradingInv, TickOK, AsTick
<1>2. /\ \A q \in Positions : \A j \in 1 .. Len(att[q]) : att'[q][j] = att[q][j]
      /\ Len(att'[p]) = i /\ att'[p][i] = a
  BY AppendKeeps DEF TradingInv
<1>3. /\ \A q \in Positions : Len(att[q]) \in Nat /\ Len(att'[q]) \in Nat
      /\ \A q \in Positions : Len(att[q]) <= Len(att'[q])
  BY SeqFacts DEF TradingInv, AttOK, Books, Grows
<1>4. i \in Nat /\ i \in 1 .. Len(att'[p])
  BY <1>2, <1>3
<1> HIDE DEF i
<1>5. TickOK'
  BY <1>1, <1>4 DEF TradingInv, TickOK
<1>6. tick'.tries[p] = i /\ \A q \in Positions \ {p} : tick'.tries[q] = tick.tries[q]
  BY <1>1 DEF TradingInv, TickOK
<1>7. tick'.phase = "recover" =>
          \A q \in tick'.todo : tick'.tries[q] \in 1 .. Len(att'[q])
  <2> SUFFICES ASSUME tick'.phase = "recover", NEW q \in tick.todo
               PROVE  tick'.tries[q] \in 1 .. Len(att'[q])
    BY <1>1
  <2>1. q \in Positions /\ tick.tries[q] \in 1 .. Len(att[q])
    BY <1>1 DEF TradingInv, HandOK, TickOK
  <2> QED
    BY <1>3, <1>4, <1>6, <2>1
<1>8. HandOK'
  BY <1>1, <1>2, <1>4, <1>6, <1>7 DEF HandOK
<1> QED
  BY <1>5, <1>8

(* An exit is claimed for the quantity it was prepared for (_dispatch).    *)
LEMMA ClaimExitOK ==
    ASSUME TradingInv, ClaimExit
    PROVE  Holds
<1>1. PICK p \in tick.on :
          \/ StillHolds(p) /\ ExitBegins(p, tick.left, 0) /\ Claimed(p)
          \/ GoOn(p, FALSE) /\ UNCHANGED <<pos, att>>
  BY DEF ClaimExit
<1>2. p \in Positions /\ UNCHANGED bot /\ tick.amt <= tick.left
  BY DEF TradingInv, TickOK, HandOK, ClaimExit
<1>3. CASE GoOn(p, FALSE) /\ UNCHANGED <<pos, att>>
  BY <1>2, <1>3, TickGoesOn
<1>4. CASE StillHolds(p) /\ ExitBegins(p, tick.left, 0) /\ Claimed(p)
  <2>1. pos[p].left \in 0 .. Size /\ Size \in Nat /\ tick.left = pos[p].left
    BY <1>2, <1>4, OpenFacts, TradingAssumption DEF PositionRows, StillHolds
  <2>2. 0 \in 0 .. pos[p].left /\ ExitBegins(p, pos[p].left, 0)
    BY <1>4, <2>1
  <2> DEFINE a == Attempt("EXIT", pos[p].left, 0)
  <2>3. Books /\ Flat /\ att' = [att EXCEPT ![p] = Append(@, a)]
    BY <1>2, <2>2, ExitBeginsOK
  <2>4. /\ a \in Attempts /\ a.final = "NONE" /\ a.done = 0 /\ a.cap = "NONE"
        /\ a.left = pos[p].left
    BY <2>1 DEF Attempt, Attempts, Results
  <2> HIDE DEF a
  <2>5. TickOK' /\ HandOK'
    BY <1>2, <1>4, <2>1, <2>3, <2>4, ClaimedOK
  <2> QED
    BY <1>2, <2>3, <2>5, StopKept DEF Holds
<1> QED
  BY <1>1, <1>3, <1>4

(* A signal is admitted. *)
LEMMA AdmitOK ==
    ASSUME TradingInv, Admit
    PROVE  Holds
<1>1. PICK p \in First({q \in Positions : pos[q].state = "ABSENT"}) :
          /\ cur = tick.epoch /\ Enters(tick.epoch)
          /\ pos' = [pos EXCEPT ![p].state = "WATCHED", ![p].origin = tick.epoch]
  BY DEF Admit
<1>2. p \in Positions /\ pos[p].state = "ABSENT"
  BY FirstIsOne
<1> DEFINE e == tick.epoch
           x == pos[p]
           y == [state |-> "WATCHED", origin |-> e, entered |-> x.entered, left |-> x.left]
           pos1 == [pos EXCEPT ![p].state = "WATCHED"]
<1>3. e \in Epochs /\ e \in 0 .. LastEpoch
  BY <1>1, TradingAssumption DEF TradingInv, TypeOK, Epochs
<1>4. pos \in [Positions -> PositionRows] /\ att \in [Positions -> Seq(Attempts)]
  BY DEF TradingInv, TypeOK, AttOK, PositionRows
<1>5. y \in PositionRows
  <2>1. "WATCHED" \in States /\ x \in PositionRows
    BY <1>2, <1>4 DEF States
  <2> QED
    BY <1>3, <2>1 DEF PositionRows
<1>6. pos' = [pos EXCEPT ![p] = y]
  <2> DEFINE z == [state |-> "WATCHED", origin |-> x.origin,
                   entered |-> x.entered, left |-> x.left]
  <2>1. pos1 = [pos EXCEPT ![p] = [x EXCEPT !.state = "WATCHED"]]
    BY <1>4
  <2>2. [x EXCEPT !.state = "WATCHED"] = z
    <3>1. x \in PositionRows
      BY <1>2, <1>4
    <3> HIDE DEF x
    <3> QED
      BY <3>1 DEF PositionRows
  <2>3. pos' = [pos1 EXCEPT ![p].origin = e]
    BY <1>1
  <2>4. pos1[p] = z /\ DOMAIN pos1 = Positions
    BY <1>2, <1>4, <2>1, <2>2
  <2>5. [z EXCEPT !.origin = e] = y
    OBVIOUS
  <2> HIDE DEF pos1, z, y
  <2>6. pos' = [pos1 EXCEPT ![p] = y]
    BY <2>3, <2>4, <2>5
  <2>7. pos1 = [pos EXCEPT ![p] = z]
    BY <2>1, <2>2
  <2> QED
    BY <1>2, <1>4, <2>6, <2>7
<1>7. Ledger(x, att[p]) /\ Len(att[p]) \in Nat
  BY <1>2, OpenFacts
<1>8. Ledger(y, att[p])
  BY <1>2, <1>3, <1>5, <1>7, Admitted
<1>9. att' = [att EXCEPT ![p] = att[p]]
  BY <1>4 DEF Admit
<1>10. y.origin = e /\ Enters(y.origin) /\ Len(att[p]) <= Len(att[p])
  BY <1>1, <1>7
<1> HIDE DEF y
<1>11. Books /\ Flat
  BY <1>2, <1>6, <1>8, <1>9, <1>10, OneMoves
<1>12. TickOK' /\ HandOK'
  BY HandKept, <1>11 DEF Admit, TradingInv, Books
<1> QED
  BY <1>11, <1>12, StopKept DEF Holds, Admit

(* An intent is cancelled. *)
LEMMA CancelOK ==
    ASSUME TradingInv, NEW p \in Positions, pos[p].state \in {"WATCHED", "CANCELLED"},
           pos' = Cancel(p), UNCHANGED att
    PROVE  Books /\ Flat
BY StateMove DEF Cancel, States

(* An intent waits or is cancelled.                                        *)
LEMMA HoldIntentOK ==
    ASSUME TradingInv, HoldIntent
    PROVE  Holds
<1>1. PICK p \in First(tick.todo) :
          \/ GoOn(p, TRUE) /\ UNCHANGED pos
          \/ pos[p].state \in {"WATCHED", "CANCELLED"} /\ pos' = Cancel(p) /\ GoOn(p, TRUE)
          \/ tick' = Idle /\ UNCHANGED pos
  BY DEF HoldIntent
<1>2. p \in Positions /\ UNCHANGED <<bot, att>>
  BY <1>1, FirstIsOne DEF TradingInv, TickOK, HoldIntent
<1>3. Books /\ Flat
  BY <1>1, <1>2, NothingMoves, CancelOK
<1>4. TickOK' /\ HandOK'
  BY <1>1, <1>2, <1>3, HandGoesOn, IdleHand DEF TradingInv, Books
<1> QED
  BY <1>2, <1>3, <1>4, StopKept DEF Holds

(* An entry is claimed, cancelled or fails (_dispatch).                    *)
LEMMA ClaimEntryOK ==
    ASSUME TradingInv, ClaimEntry
    PROVE  Holds
<1>1. PICK p \in First(tick.todo) :
          \/ /\ \E noted \in BOOLEAN : Fails(p, noted)
             /\ UNCHANGED <<pos, att>>
          \/ EntryBegins(p, 0) /\ Claimed(p)
          \/ EntryCancelled(p) /\ GoOn(p, TRUE)
          \/ /\ pos[p].state \in {"WATCHED", "CANCELLED"}
             /\ pos' = Cancel(p) /\ GoOn(p, TRUE)
             /\ UNCHANGED att
  BY DEF ClaimEntry
<1>2. p \in Positions /\ UNCHANGED bot
  BY <1>1, FirstIsOne DEF TradingInv, TickOK, ClaimEntry
<1>3. CASE (\E noted \in BOOLEAN : Fails(p, noted)) /\ UNCHANGED <<pos, att>>
  <2>1. Books /\ Flat
    BY <1>3, NothingMoves
  <2>2. TickOK' /\ HandOK'
    BY <1>2, <1>3, <2>1, HandFails DEF TradingInv, Books
  <2> QED
    BY <1>2, <2>1, <2>2, StopKept DEF Holds
<1>4. CASE EntryBegins(p, 0) /\ Claimed(p)
  <2> DEFINE a == Attempt("ENTRY", 0, 0)
  <2>1. 0 \in 0 .. Size
    BY TradingAssumption
  <2>2. Books /\ Flat /\ att' = [att EXCEPT ![p] = Append(@, a)]
    BY <1>2, <1>4, <2>1, EntryBeginsOK
  <2>3. /\ a \in Attempts /\ a.final = "NONE" /\ a.done = 0 /\ a.cap = "NONE"
        /\ a.side = "ENTRY"
    BY <2>1 DEF Attempt, Attempts, Results
  <2> HIDE DEF a
  <2>4. TickOK' /\ HandOK'
    BY <1>2, <1>4, <2>2, <2>3, ClaimedOK
  <2> QED
    BY <1>2, <2>2, <2>4, StopKept DEF Holds
<1>5. CASE /\ pos[p].state \in {"WATCHED", "CANCELLED"} /\ pos' = Cancel(p)
           /\ GoOn(p, TRUE) /\ UNCHANGED att
  <2>1. Books /\ Flat
    BY <1>2, <1>5, CancelOK
  <2>2. TickOK' /\ HandOK'
    BY <1>2, <1>5, <2>1, HandGoesOn DEF TradingInv, Books
  <2> QED
    BY <1>2, <2>1, <2>2, StopKept DEF Holds
<1> QED
  BY <1>1, <1>3, <1>4, <1>5 DEF EntryCancelled

(* The adapter refuses.                                                    *)
LEMMA SendRefusedOK ==
    ASSUME TradingInv, SendRefused
    PROVE  Holds
<1>1. PICK p \in tick.on, noted \in BOOLEAN : Fails(p, noted)
  BY DEF SendRefused
<1>2. p \in Positions
  BY DEF TradingInv, TickOK
<1>3. Books /\ Flat /\ UNCHANGED bot
  BY NothingMoves DEF SendRefused
<1>4. TickOK' /\ HandOK'
  BY <1>1, <1>2, <1>3, HandFails DEF TradingInv, Books
<1> QED
  BY <1>3, <1>4, StopKept DEF Holds

(* What the request in hand may do. *)
LEMMA EffectFits ==
    ASSUME TradingInv, tick.pc = "send", NEW p \in tick.on, NEW n \in Effects(p),
           NEW b, b = att[p][tick.tries[p]], NEW a, a = [b EXCEPT !.done = @ + n]
    PROVE  /\ p \in Positions /\ tick.tries[p] \in 1 .. Len(att[p]) /\ a \in Attempts
           /\ a.side = b.side /\ a.left = b.left /\ a.final = b.final /\ a.cap = "NONE"
           /\ b.final = "NONE" /\ (b.side = "EXIT" => a.done <= b.left)
<1>1. p \in Positions /\ tick.tries[p] \in 1 .. Len(att[p])
  BY DEF TradingInv, HandOK, TickOK
<1>2. /\ b.final = "NONE" /\ b.done = 0 /\ b.cap = "NONE"
      /\ b.side = "EXIT" => tick.amt <= b.left
  BY DEF TradingInv, HandOK
<1>3. b \in Attempts
  BY <1>1, OpenFacts, LedgerTypes
<1>4. b.left \in 0 .. Size /\ Size \in Nat /\ tick.amt \in Nat
  BY <1>3, TradingAssumption DEF Attempts, TradingInv, TickOK
<1>5. n \in 0 .. Size /\ (b.side = "EXIT" => n <= b.left)
  BY <1>2, <1>3, <1>4 DEF Effects, Attempts
<1>6. a = [b EXCEPT !.done = n]
  <2>1. b.done + n = n
    BY <1>2, <1>4, <1>5
  <2> QED
    BY <2>1
<1>7. a \in Attempts
  BY <1>3, <1>5, <1>6 DEF Attempts
<1>8. /\ a.side = b.side /\ a.left = b.left /\ a.final = b.final /\ a.cap = b.cap
      /\ a.done = n
  BY <1>3, <1>6 DEF Attempts
<1> QED
  BY <1>1, <1>2, <1>5, <1>7, <1>8

(* The tick has an answer, to capture or to accept. *)
LEMMA Answers ==
    ASSUME TradingInv, Books, NEW p \in Positions, tick.on = {p}, NEW i, i = tick.tries[p],
           i \in 1 .. Len(att[p]),
           NEW a \in Attempts, att' = [att EXCEPT ![p] = [att[p] EXCEPT ![i] = a]],
           tick' = AsTick(tick'), tick'.pc \in {"capture", "accept"},
           tick'.phase = tick.phase, tick'.todo = tick.todo, tick'.tries = tick.tries,
           tick'.on = tick.on, tick'.amt = tick.amt, tick'.left = tick.left,
           tick'.res \in {"UNKNOWN", Truth(a)}
    PROVE  TickOK' /\ HandOK'
<1>1. TickOK'
  BY DEF TradingInv, TickOK
<1>2. \A q \in Positions : Len(att[q]) \in Nat /\ Len(att'[q]) = Len(att[q])
  <2>1. Len([att[p] EXCEPT ![i] = a]) = Len(att[p])
    BY Replaced DEF TradingInv, AttOK
  <2> QED
    BY <2>1, SeqFacts DEF TradingInv, AttOK
<1>3. att'[p][i] = a
  <2>1. [att[p] EXCEPT ![i] = a][i] = a
    BY Replaced DEF TradingInv, AttOK
  <2> QED
    BY <2>1 DEF TradingInv, AttOK
<1>4. tick'.phase = "recover" =>
          \A q \in tick'.todo : tick'.tries[q] \in 1 .. Len(att'[q])
  BY <1>2 DEF TradingInv, HandOK, TickOK
<1> QED
  BY <1>1, <1>2, <1>3, <1>4 DEF HandOK

(* The request leaves, and is answered or not.                             *)
LEMMA SendOK ==
    ASSUME TradingInv, Send \/ SendUnknown
    PROVE  Holds
<1>1. PICK p \in tick.on : \E n \in Effects(p) :
         LET i == tick.tries[p]
             a == [att[p][i] EXCEPT !.done = @ + n]
         IN  /\ att' = [att EXCEPT ![p][i] = a]
             /\ \/ tick' = [tick EXCEPT !.pc = "capture", !.res = Truth(a), !.src = "capture"]
                \/ tick' = [tick EXCEPT !.pc = "capture", !.res = "UNKNOWN", !.src = "capture"]
                \/ \E noted \in BOOLEAN : Fails(p, noted)
  <2>1. CASE Send
    BY <2>1 DEF Send
  <2>2. CASE SendUnknown
    <3>1. PICK r \in tick.on : \E m \in Effects(r) :
          /\ att' = [att EXCEPT ![r][tick.tries[r]].done = @ + m]
          /\ \/ tick' = [tick EXCEPT !.pc = "capture", !.res = "UNKNOWN", !.src = "capture"]
             \/ \E noted \in BOOLEAN : Fails(r, noted)
      BY <2>2 DEF SendUnknown
    <3>2. PICK m \in Effects(r) :
          /\ att' = [att EXCEPT ![r][tick.tries[r]].done = @ + m]
          /\ \/ tick' = [tick EXCEPT !.pc = "capture", !.res = "UNKNOWN", !.src = "capture"]
             \/ \E noted \in BOOLEAN : Fails(r, noted)
      BY <3>1
    <3> DEFINE j == tick.tries[r]
               c == [att[r][j] EXCEPT !.done = @ + m]
    <3>3. att' = [att EXCEPT ![r][j] = c]
      BY <3>2
    <3> HIDE DEF c
    <3>4. /\ att' = [att EXCEPT ![r][j] = c]
          /\ \/ tick' = [tick EXCEPT !.pc = "capture", !.res = Truth(c), !.src = "capture"]
             \/ tick' = [tick EXCEPT !.pc = "capture", !.res = "UNKNOWN", !.src = "capture"]
             \/ \E noted \in BOOLEAN : Fails(r, noted)
      BY <3>2, <3>3
    <3> QED
      BY <3>4, Zenon DEF c
  <2> QED
    BY <2>1, <2>2
<1>2. PICK n \in Effects(p) :
         LET i == tick.tries[p]
             a == [att[p][i] EXCEPT !.done = @ + n]
         IN  /\ att' = [att EXCEPT ![p][i] = a]
             /\ \/ tick' = [tick EXCEPT !.pc = "capture", !.res = Truth(a), !.src = "capture"]
                \/ tick' = [tick EXCEPT !.pc = "capture", !.res = "UNKNOWN", !.src = "capture"]
                \/ \E noted \in BOOLEAN : Fails(p, noted)
  BY <1>1
<1> DEFINE i == tick.tries[p]
           b == att[p][i]
           a == [b EXCEPT !.done = @ + n]
<1>3. /\ tick.pc = "send" /\ UNCHANGED pos /\ UNCHANGED bot
  BY DEF Send, SendUnknown
<1>4. /\ p \in Positions /\ i \in 1 .. Len(att[p]) /\ a \in Attempts
      /\ a.side = b.side /\ a.left = b.left /\ a.final = b.final /\ a.cap = "NONE"
      /\ b.final = "NONE" /\ (b.side = "EXIT" => a.done <= b.left)
  BY <1>3, EffectFits
<1>5. att' = [att EXCEPT ![p][i] = a]
  BY <1>2
<1>6. \/ tick' = [tick EXCEPT !.pc = "capture", !.res = Truth(a), !.src = "capture"]
      \/ tick' = [tick EXCEPT !.pc = "capture", !.res = "UNKNOWN", !.src = "capture"]
      \/ \E noted \in BOOLEAN : Fails(p, noted)
  BY <1>2
<1> HIDE DEF a
<1>7. Books /\ Flat
  BY <1>3, <1>4, <1>5, AttemptTouched
<1>8. tick.on = {p}
  BY DEF TradingInv, HandOK
<1>9. CASE \E noted \in BOOLEAN : Fails(p, noted)
  BY <1>3, <1>4, <1>7, <1>9, HandFails, StopKept DEF TradingInv, Books, Holds
<1>10. CASE ~ \E noted \in BOOLEAN : Fails(p, noted)
  <2>1. /\ tick' = AsTick(tick') /\ tick'.pc = "capture"
        /\ tick'.phase = tick.phase /\ tick'.todo = tick.todo /\ tick'.tries = tick.tries
        /\ tick'.on = tick.on /\ tick'.amt = tick.amt /\ tick'.left = tick.left
        /\ tick'.res \in {"UNKNOWN", Truth(a)}
    BY <1>6, <1>10 DEF TradingInv, TickOK, AsTick
  <2>2. att' = [att EXCEPT ![p] = [att[p] EXCEPT ![i] = a]]
    BY <1>5, <1>4 DEF TradingInv, AttOK
  <2>3. TickOK' /\ HandOK'
    BY <1>4, <1>7, <1>8, <2>1, <2>2, Answers
  <2> QED
    BY <1>3, <1>7, <2>3, StopKept DEF Holds
<1> QED
  BY <1>9, <1>10

(* The answer is captured.                                                 *)
LEMMA CaptureOK ==
    ASSUME TradingInv, Capture
    PROVE  Holds
<1>1. PICK p \in tick.on : att' = [att EXCEPT ![p][tick.tries[p]].cap = tick.res]
  BY DEF Capture
<1> DEFINE i == tick.tries[p]
           b == att[p][i]
           a == [b EXCEPT !.cap = tick.res]
<1>2. /\ p \in Positions /\ tick.on = {p} /\ i \in 1 .. Len(att[p])
      /\ tick.res \in {"UNKNOWN", Truth(b)}
  BY DEF TradingInv, HandOK, TickOK, Capture
<1>3. b \in Attempts
  BY <1>2, OpenFacts, LedgerTypes
<1>4. tick.res \in Results \cup {"NONE"}
  BY <1>2 DEF Truth, Results
<1> HIDE DEF b
<1>5. /\ a \in Attempts /\ a.side = b.side /\ a.left = b.left /\ a.final = b.final
      /\ a.done = b.done /\ a.cap = tick.res
  BY <1>3, <1>4 DEF Attempts
<1>6. Truth(a) = Truth(b)
  BY <1>5 DEF Truth
<1>7. att' = [att EXCEPT ![p] = [att[p] EXCEPT ![i] = a]]
  BY <1>1, <1>2 DEF TradingInv, AttOK, b
<1> HIDE DEF a
<1>8. Books /\ Flat
  <2>1. att' = [att EXCEPT ![p][i] = a]
    BY <1>2, <1>7 DEF TradingInv, AttOK
  <2>2. /\ a.side = att[p][i].side /\ a.left = att[p][i].left /\ a.final = att[p][i].final
        /\ a.done = att[p][i].done
    BY <1>5 DEF b
  <2>3. a.cap \in {"NONE", "UNKNOWN", Truth(a)} /\ UNCHANGED pos
    BY <1>2, <1>5, <1>6 DEF Capture
  <2>4. a \in Attempts
    BY <1>5
  <2> HIDE DEF i
  <2> QED
    BY <1>2, <2>1, <2>2, <2>3, <2>4, AttemptTouched
<1>9. /\ tick' = AsTick(tick') /\ tick'.pc = "accept"
      /\ tick'.phase = tick.phase /\ tick'.todo = tick.todo /\ tick'.tries = tick.tries
      /\ tick'.on = tick.on /\ tick'.amt = tick.amt /\ tick'.left = tick.left
      /\ tick'.res = tick.res
  BY DEF Capture, TradingInv, TickOK, AsTick
<1>10. TickOK' /\ HandOK'
  BY <1>2, <1>5, <1>6, <1>7, <1>8, <1>9, Answers
<1> QED
  BY <1>8, <1>10, StopKept DEF Holds, Capture

(* The answer is accepted, again or for the first time, or is an error.    *)
LEMMA AcceptOK ==
    ASSUME TradingInv, Accept
    PROVE  Holds
<1>1. PICK p \in tick.on :
         \/ /\ \/ UNCHANGED <<pos, att>>
               \/ \E c \in BOOLEAN : Accepts(p, tick.tries[p], tick.res, c)
            /\ tick' = [tick EXCEPT !.pc = "drain"]
         \/ Fails(p, FALSE) /\ UNCHANGED <<pos, att>>
  <2> DEFINE c == tick.src = "capture"
  <2>1. c \in BOOLEAN
    OBVIOUS
  <2> QED
    BY <2>1, Zenon DEF Accept
<1>2. /\ p \in Positions /\ tick.on = {p} /\ tick.tries[p] \in 1 .. Len(att[p])
      /\ tick.res \in {"UNKNOWN", Truth(att[p][tick.tries[p]])} /\ UNCHANGED bot
  BY DEF TradingInv, HandOK, TickOK, Accept
<1>3. Books /\ Flat
  <2>1. CASE \E c \in BOOLEAN : Accepts(p, tick.tries[p], tick.res, c)
    BY <1>2, <2>1, AcceptsOK
  <2> QED
    BY <1>1, <2>1, NothingMoves
<1>4. CASE Fails(p, FALSE)
  BY <1>2, <1>3, <1>4, HandFails, StopKept DEF TradingInv, Books, Holds
<1>5. CASE ~Fails(p, FALSE)
  <2>1. /\ tick' = AsTick(tick') /\ tick'.pc = "drain"
        /\ tick'.phase = tick.phase /\ tick'.todo = tick.todo /\ tick'.tries = tick.tries
        /\ tick'.on = tick.on /\ tick'.amt = tick.amt /\ tick'.left = tick.left
    BY <1>1, <1>5 DEF TradingInv, TickOK, AsTick
  <2>2. TickOK'
    BY <2>1 DEF TradingInv, TickOK
  <2>3. \A q \in Positions : Len(att[q]) \in Nat /\ Len(att'[q]) \in Nat /\ Len(att[q]) <= Len(att'[q])
    BY <1>3, SeqFacts DEF TradingInv, AttOK, Books, Grows
  <2>4. tick'.phase = "recover" =>
            \A q \in tick'.todo : tick'.tries[q] \in 1 .. Len(att'[q])
    BY <2>1, <2>3 DEF TradingInv, HandOK, TickOK
  <2>5. HandOK'
    BY <1>2, <2>1, <2>4 DEF HandOK
  <2> QED
    BY <1>2, <1>3, <2>2, <2>5, StopKept DEF Holds
<1> QED
  BY <1>4, <1>5

(* The drain of the position's bot may end.                                *)
LEMMA DrainAfterOK ==
    ASSUME TradingInv, DrainAfter
    PROVE  Holds
<1>1. PICK p \in tick.on :
          /\ bot' = Finished({pos[p].origin}, pos)
          /\ GoOn(p, tick.phase = "recover" => att[p][tick.tries[p]].final # "NONE")
  BY DEF DrainAfter
<1>2. p \in Positions
  BY DEF TradingInv, TickOK
<1>3. Books /\ Flat /\ UNCHANGED pos
  BY NothingMoves DEF DrainAfter
<1>4. TickOK' /\ HandOK'
  BY <1>1, <1>2, <1>3, HandGoesOn DEF TradingInv, Books
<1>5. bot' = Finished({pos[p].origin}, pos')
  BY <1>1, <1>3
<1> QED
  BY <1>3, <1>4, <1>5, StopFinishes DEF Holds, TradingInv

----------------------------------------------------------------------------
(* The operator.                                                           *)

(* A command that leaves the attempts alone leaves the tick its hand.      *)
LEMMA HandRests ==
    ASSUME TradingInv, Books, UNCHANGED <<tick, att>>
    PROVE  TickOK' /\ HandOK'
BY HandKept DEF TradingInv, Books

(* Entries are paused and resumed.                                         *)
LEMMA PauseOK ==
    ASSUME TradingInv, NEW e \in Epochs, Pause(e) \/ Resume(e)
    PROVE  Holds
<1>1. Books /\ Flat /\ UNCHANGED <<tick, att>> /\ UNCHANGED pos
  BY NothingMoves DEF Pause, Resume
<1>2. \A d \in Epochs : bot'[d].status = bot[d].status
  BY DEF Pause, Resume, TradingInv, TypeOK
<1> QED
  BY <1>1, <1>2, HandRests, StopStays DEF Holds

(* What STOP_BOT and activate do to the positions. *)
LEMMA StoppedOK ==
    ASSUME TradingInv, NEW e \in Epochs, pos' = Stopped(e), UNCHANGED att
    PROVE  Books /\ Flat
<1>1. \A p \in Positions : pos[p] \in PositionRows /\ pos[p].state \in States
  BY DEF TradingInv, TypeOK, PositionRows
<1>2. \A p \in Positions : \E t \in States :
          /\ pos'[p] = [pos[p] EXCEPT !.state = t]
          /\ t = pos[p].state \/ (t = "CANCELLED" /\ pos[p].state = "WATCHED")
  <2> SUFFICES ASSUME NEW p \in Positions
               PROVE  \E t \in States :
                         /\ pos'[p] = [pos[p] EXCEPT !.state = t]
                         /\ t = pos[p].state \/ (t = "CANCELLED" /\ pos[p].state = "WATCHED")
    OBVIOUS
  <2>1. CASE pos[p].origin = e /\ pos[p].state = "WATCHED"
    <3>1. pos'[p] = [pos[p] EXCEPT !.state = "CANCELLED"]
      BY <2>1 DEF Stopped
    <3> QED
      BY <2>1, <3>1 DEF States
  <2>2. CASE ~(pos[p].origin = e /\ pos[p].state = "WATCHED")
    <3>1. pos'[p] = pos[p]
      BY <2>2 DEF Stopped
    <3>2. pos[p] = [pos[p] EXCEPT !.state = pos[p].state]
      BY <1>1 DEF PositionRows
    <3> QED
      BY <1>1, <3>1, <3>2
  <2> QED
    BY <2>1, <2>2
<1>3. pos' \in [Positions -> PositionRows]
  <2>1. \A p \in Positions : pos'[p] \in PositionRows
    <3> SUFFICES ASSUME NEW p \in Positions PROVE pos'[p] \in PositionRows
      OBVIOUS
    <3>1. PICK t \in States : pos'[p] = [pos[p] EXCEPT !.state = t]
      BY <1>2
    <3> QED
      BY <1>1, <3>1 DEF PositionRows
  <2>2. pos' = [p \in Positions |-> pos'[p]]
    BY DEF Stopped
  <2> QED
    BY <2>1, <2>2
<1> QED
  BY <1>2, <1>3, StatesMove

(* STOP_BOT leaves a bot STOPPED only when nothing is left to drain.       *)
LEMMA StopHolds ==
    ASSUME TradingInv, NEW e \in Epochs, Stop(e)
    PROVE  Holds
<1>1. Books /\ Flat
  BY StoppedOK DEF Stop
<1>2. UNCHANGED <<tick, att>> /\ pos' = Stopped(e)
  BY DEF Stop
<1>3. \A d \in Epochs : bot'[d].status = "STOPPED" =>
          bot[d].status = "STOPPED" \/ Cleared(d, pos')
  BY <1>2 DEF Stop, StopStatus, TradingInv, TypeOK
<1> QED
  BY <1>1, <1>2, <1>3, HandRests, StopStays DEF Holds

(* The same of the predecessor of a switch (activate).                     *)
LEMMA SwitchOK ==
    ASSUME TradingInv, Switch
    PROVE  Holds
<1>1. cur \in Epochs /\ cur + 1 # cur
  BY TradingAssumption DEF TradingInv, TypeOK, Epochs
<1>2. UNCHANGED <<tick, att>> /\ pos' = Stopped(cur)
  BY DEF Switch
<1>3. Books /\ Flat
  BY <1>1, <1>2, StoppedOK
<1>4. \A d \in Epochs : bot'[d].status = "STOPPED" =>
          bot[d].status = "STOPPED" \/ Cleared(d, pos')
  <2> DEFINE bot1 == [bot EXCEPT ![cur + 1].status = "RUNNING"]
             stop == [status |-> StopStatus(cur), paused |-> TRUE]
  <2>1. bot' = [bot1 EXCEPT ![cur] = stop]
    BY DEF Switch
  <2>2. \A d \in Epochs : bot1[d].status \in {bot[d].status, "RUNNING"}
    BY DEF TradingInv, TypeOK
  <2>3. DOMAIN bot1 = Epochs
    BY DEF TradingInv, TypeOK
  <2>4. stop.status = "STOPPED" => Cleared(cur, pos')
    BY <1>2 DEF StopStatus
  <2> HIDE DEF bot1, stop
  <2>5. \A d \in Epochs : bot'[d] = IF d = cur THEN stop ELSE bot1[d]
    BY <1>1, <2>1, <2>3
  <2> QED
    BY <2>2, <2>4, <2>5
<1> QED
  BY <1>2, <1>3, <1>4, HandRests, StopStays DEF Holds

(* A close marks positions, or cancels intents.                            *)
LEMMA CloseOK ==
    ASSUME TradingInv, NEW S, Close(S)
    PROVE  Holds
<1>1. \A p \in Positions : pos[p] \in PositionRows /\ pos[p].state \in States
  BY DEF TradingInv, TypeOK, PositionRows
<1> DEFINE t(p) == IF p \in S /\ pos[p].state = "WATCHED" THEN "CANCELLED"
                   ELSE IF p \in S /\ pos[p].state \in {"OPEN", "UNKNOWN"} THEN "EXIT_REQUIRED"
                   ELSE pos[p].state
<1>2. \A p \in Positions :
          /\ t(p) \in States
          /\ pos'[p] = [pos[p] EXCEPT !.state = t(p)]
          /\ \/ t(p) = pos[p].state
             \/ t(p) = "CANCELLED" /\ pos[p].state = "WATCHED"
             \/ t(p) \notin Settled \cup {"WATCHED"} /\ pos[p].state \notin Settled
  <2> SUFFICES ASSUME NEW p \in Positions
               PROVE  /\ t(p) \in States
                      /\ pos'[p] = [pos[p] EXCEPT !.state = t(p)]
                      /\ \/ t(p) = pos[p].state
                         \/ t(p) = "CANCELLED" /\ pos[p].state = "WATCHED"
                         \/ t(p) \notin Settled \cup {"WATCHED"} /\ pos[p].state \notin Settled
    OBVIOUS
  <2>1. pos[p] = [pos[p] EXCEPT !.state = pos[p].state]
    BY <1>1 DEF PositionRows
  <2>2. pos'[p] = IF p \in S /\ pos[p].state = "WATCHED"
                  THEN [pos[p] EXCEPT !.state = "CANCELLED"]
                  ELSE IF p \in S /\ pos[p].state \in {"OPEN", "UNKNOWN"}
                  THEN [pos[p] EXCEPT !.state = "EXIT_REQUIRED"] ELSE pos[p]
    BY DEF Close
  <2>3. pos'[p] = [pos[p] EXCEPT !.state = t(p)]
    BY <2>1, <2>2
  <2>4. t(p) \in States
    BY <1>1 DEF States
  <2>5. \/ t(p) = pos[p].state
        \/ t(p) = "CANCELLED" /\ pos[p].state = "WATCHED"
        \/ t(p) \notin Settled \cup {"WATCHED"} /\ pos[p].state \notin Settled
    BY DEF Settled
  <2> QED
    BY <2>3, <2>4, <2>5
<1> HIDE DEF t
<1>3. pos' \in [Positions -> PositionRows]
  <2>1. \A p \in Positions : pos'[p] \in PositionRows
    BY <1>1, <1>2 DEF PositionRows
  <2>2. pos' = [p \in Positions |-> pos'[p]]
    BY DEF Close
  <2> QED
    BY <2>1, <2>2
<1>4. UNCHANGED <<tick, att>> /\ UNCHANGED bot
  BY DEF Close
<1>5. Books /\ Flat
  BY <1>2, <1>3, <1>4, StatesMove
<1> QED
  BY <1>4, <1>5, HandRests, StopKept DEF Holds

(* An attempt that the operator begins is not in the tick's hand. *)
LEMMA HandBesides ==
    ASSUME TradingInv, Books, NEW p \in Positions, NEW a \in Attempts,
           att' = [att EXCEPT ![p] = Append(@, a)], UNCHANGED tick
    PROVE  TickOK' /\ HandOK'
<1>1. \A q \in Positions : \A j \in 1 .. Len(att[q]) : att'[q][j] = att[q][j]
  BY AppendKeeps DEF TradingInv
<1> QED
  BY <1>1, HandKept DEF TradingInv, Books

(* The operator claims an attempt.                                         *)
LEMMA ManualAttemptOK ==
    ASSUME TradingInv, NEW p \in Positions, ManualAttempt(p)
    PROVE  Holds
<1>1. UNCHANGED tick /\ UNCHANGED bot
  BY DEF ManualAttempt
<1>2. CASE EntryCancelled(p)
  <2>1. Books /\ Flat /\ UNCHANGED att
    BY <1>2, CancelOK DEF EntryCancelled
  <2> QED
    BY <1>1, <2>1, HandRests, StopKept DEF Holds
<1>3. CASE \E n \in {0, Size} : EntryBegins(p, n)
  <2>1. PICK n \in {0, Size} : EntryBegins(p, n)
    BY <1>3
  <2>2. n \in 0 .. Size
    BY TradingAssumption
  <2> DEFINE a == Attempt("ENTRY", 0, n)
  <2>3. Books /\ Flat /\ att' = [att EXCEPT ![p] = Append(@, a)]
    BY <2>1, <2>2, EntryBeginsOK
  <2>4. a \in Attempts
    BY <2>2, TradingAssumption DEF Attempt, Attempts, Results
  <2> HIDE DEF a
  <2>5. TickOK' /\ HandOK'
    BY <1>1, <2>3, <2>4, HandBesides
  <2> QED
    BY <1>1, <2>3, <2>5, StopKept DEF Holds
<1>4. CASE \E n \in 0 .. pos[p].left : ExitBegins(p, pos[p].left, n)
  <2>1. PICK n \in 0 .. pos[p].left : ExitBegins(p, pos[p].left, n)
    BY <1>4
  <2>2. pos[p].left \in 0 .. Size /\ n \in 0 .. Size
    BY OpenFacts, TradingAssumption DEF PositionRows
  <2> DEFINE a == Attempt("EXIT", pos[p].left, n)
  <2>3. Books /\ Flat /\ att' = [att EXCEPT ![p] = Append(@, a)]
    BY <2>1, ExitBeginsOK
  <2>4. a \in Attempts
    BY <2>2 DEF Attempt, Attempts, Results
  <2> HIDE DEF a
  <2>5. TickOK' /\ HandOK'
    BY <1>1, <2>3, <2>4, HandBesides
  <2> QED
    BY <1>1, <2>3, <2>5, StopKept DEF Holds
<1> QED
  BY <1>2, <1>3, <1>4 DEF ManualAttempt

(* The operator reports a result, but not of what is being sent.           *)
LEMMA SubmitOK ==
    ASSUME TradingInv, NEW p \in Positions, Submit(p)
    PROVE  Holds
<1>1. PICK i \in Open(p) :
          ~InFlight(p, i) /\ \E res \in {Truth(att[p][i]), "UNKNOWN"} : Accepts(p, i, res, FALSE)
  BY DEF Submit
<1>2. PICK res \in {Truth(att[p][i]), "UNKNOWN"} : Accepts(p, i, res, FALSE)
  BY <1>1
<1>3. i \in 1 .. Len(att[p]) /\ UNCHANGED tick
  BY OpenFacts DEF Submit
<1>4. /\ Books /\ Flat
      /\ \A q \in Positions : \A j \in 1 .. Len(att[q]) :
            /\ att'[q][j].done = att[q][j].done
            /\ q # p \/ j # i => att'[q][j] = att[q][j]
  <2>1. FALSE \in BOOLEAN
    OBVIOUS
  <2> QED
    BY <1>2, <1>3, <2>1, AcceptsOK
<1>5. TickOK' /\ HandOK'
  <2>1. \A q \in Positions : \A j \in 1 .. Len(att[q]) :
            InFlight(q, j) => att'[q][j] = att[q][j]
    BY <1>1, <1>4
  <2> QED
    BY <1>3, <1>4, <2>1, HandKept DEF TradingInv, Books
<1>6. bot' = bot \/ bot' = Finished({pos[p].origin}, pos')
  BY DEF Submit
<1>7. StopOK'
  BY <1>4, <1>6, StopKept, StopFinishes DEF TradingInv
<1> QED
  BY <1>4, <1>5, <1>7 DEF Holds

(* A result file arrives.                                                  *)
LEMMA CallbackOK ==
    ASSUME TradingInv, NEW p \in Positions, Callback(p)
    PROVE  Holds
<1>1. PICK i \in Open(p) : ~InFlight(p, i) /\ att' = [att EXCEPT ![p][i].inbox = TRUE]
  BY DEF Callback
<1> DEFINE b == att[p][i]
           a == [b EXCEPT !.inbox = TRUE]
<1>2. i \in 1 .. Len(att[p]) /\ UNCHANGED tick /\ UNCHANGED bot /\ UNCHANGED pos
  BY OpenFacts DEF Callback
<1>3. b \in Attempts /\ b.cap \in {"NONE", "UNKNOWN", Truth(b)}
  BY <1>2, OpenFacts, LedgerTypes DEF Ledger, OrderOK
<1>4. att' = [att EXCEPT ![p][i] = a]
  BY <1>1
<1> HIDE DEF b
<1>5. /\ a \in Attempts /\ a.side = b.side /\ a.left = b.left /\ a.final = b.final
      /\ a.done = b.done /\ a.cap = b.cap
  BY <1>3 DEF Attempts
<1>6. a.cap \in {"NONE", "UNKNOWN", Truth(a)}
  BY <1>3, <1>5 DEF Truth
<1> HIDE DEF a
<1>7. Books /\ Flat
  <2>1. /\ a.side = att[p][i].side /\ a.left = att[p][i].left /\ a.final = att[p][i].final
        /\ a.done = att[p][i].done
    BY <1>5 DEF b
  <2>2. a \in Attempts
    BY <1>5
  <2> QED
    BY <1>2, <1>4, <1>6, <2>1, <2>2, AttemptTouched
<1>8. \A q \in Positions : \A j \in 1 .. Len(att[q]) :
          /\ att'[q][j].done = att[q][j].done
          /\ q # p \/ j # i => att'[q][j] = att[q][j]
  <2>1. att' = [att EXCEPT ![p] = [att[p] EXCEPT ![i] = a]]
    BY <1>4 DEF TradingInv, AttOK
  <2>2. /\ [att[p] EXCEPT ![i] = a][i] = a
        /\ \A j \in 1 .. Len(att[p]) : j # i => [att[p] EXCEPT ![i] = a][j] = att[p][j]
    BY <1>2, <1>5, Replaced DEF TradingInv, AttOK
  <2>3. a.done = att[p][i].done
    BY <1>5 DEF b
  <2>4. att'[p] = [att[p] EXCEPT ![i] = a] /\ \A q \in Positions \ {p} : att'[q] = att[q]
    BY <2>1 DEF TradingInv, AttOK
  <2> QED
    BY <2>2, <2>3, <2>4
<1>9. TickOK' /\ HandOK'
  <2>1. \A q \in Positions : \A j \in 1 .. Len(att[q]) :
            InFlight(q, j) => att'[q][j] = att[q][j]
    BY <1>1, <1>8
  <2> QED
    BY <1>2, <1>7, <1>8, <2>1, HandKept DEF TradingInv, Books
<1> QED
  BY <1>2, <1>7, <1>9, StopKept DEF Holds

----------------------------------------------------------------------------
(* The invariant.                                                          *)

(* The steps of a tick that touch only positions, attempts and the tick. *)
TickMoves ==
    \/ StartTick \/ RecoverAttempt \/ EndRecover \/ SkipExit \/ ClaimExit \/ Gate \/ Admit
    \/ EndWorks \/ HoldIntent \/ ClaimEntry \/ Capture \/ Accept \/ EndTick
    \/ \E p \in Positions, isDue \in BOOLEAN : DecideExit(p, isDue)

(* The types of what is not a position or an attempt. *)
LEMMA OthersTyped ==
    ASSUME TypeOK, Next
    PROVE  /\ cur' \in Epochs /\ faults' \in 0 .. MaxFaults /\ commands' \in 0 .. MaxCommands
           /\ bot' \in [Epochs -> [status : {"NONE", "RUNNING", "DRAINING", "STOPPED"},
                                   paused : BOOLEAN]]
<1> DEFINE Bots == [Epochs -> [status : {"NONE", "RUNNING", "DRAINING", "STOPPED"},
                               paused : BOOLEAN]]
<1>1. /\ cur \in Epochs /\ faults \in 0 .. MaxFaults /\ commands \in 0 .. MaxCommands
      /\ bot \in Bots /\ MaxFaults \in Nat /\ MaxCommands \in Nat
  BY TradingAssumption DEF TypeOK
<1>2. \A E, x : Finished(E, x) \in Bots
  BY <1>1 DEF Finished
<1>3. CASE TickMoves
  <2>1. UNCHANGED <<cur, faults, commands>> /\ UNCHANGED bot
    BY <1>3 DEF TickMoves, StartTick, RecoverAttempt, EndRecover, SkipExit, ClaimExit, Gate,
                Admit, EndWorks, HoldIntent, ClaimEntry, Capture, Accept, EndTick, DecideExit
  <2> QED
    BY <1>1, <2>1
<1>4. CASE PrepareExit \/ SendRefused \/ Send \/ SendUnknown \/ Crash
  <2>1. UNCHANGED <<cur, commands>> /\ UNCHANGED bot
    BY <1>4 DEF PrepareExit, SendRefused, Send, SendUnknown, Crash
  <2>2. faults' \in {faults, faults + 1} /\ faults' <= MaxFaults
    <3>1. CASE PrepareExit \/ SendRefused \/ SendUnknown \/ Crash
      <4>1. faults' = faults \/ (faults' = faults + 1 /\ faults < MaxFaults)
        BY <3>1 DEF PrepareExit, SendRefused, SendUnknown, Crash
      <4> QED
        BY <1>1, <4>1
    <3>2. CASE Send
      <4>1. faults' <= MaxFaults /\ \E k \in {0, 1} : faults' = faults + k
        BY <3>2 DEF Send
      <4> QED
        BY <1>1, <4>1
    <3> QED
      BY <1>4, <3>1, <3>2
  <2> QED
    BY <1>1, <2>1, <2>2
<1>5. CASE EndRows \/ DrainAfter
  <2>1. UNCHANGED <<cur, faults, commands>> /\ \E E, x : bot' = Finished(E, x)
    BY <1>5 DEF EndRows, DrainAfter
  <2> QED
    BY <1>1, <1>2, <2>1
<1>6. CASE Operator
  <2>1. faults' = faults
    BY <1>6 DEF Operator, Pause, Resume, Stop, Close, Switch, ManualAttempt, Submit, Callback
  <2>2. commands' \in 0 .. MaxCommands
    <3>1. commands' = commands \/ (commands' = commands + 1 /\ commands < MaxCommands)
      BY <1>6 DEF Operator, Pause, Resume, Stop, Close, Switch, ManualAttempt, Submit, Callback
    <3> QED
      BY <1>1, <3>1
  <2>3. cur' \in Epochs
    <3>1. cur' = cur \/ (cur' = cur + 1 /\ cur < LastEpoch)
      BY <1>6 DEF Operator, Pause, Resume, Stop, Close, Switch, ManualAttempt, Submit, Callback
    <3> QED
      BY <1>1, <3>1, TradingAssumption DEF Epochs
  <2>4. bot' \in Bots
    <3>1. CASE \E e \in Epochs : Pause(e) \/ Resume(e) \/ Stop(e)
      <4>1. \A e \in Epochs : StopStatus(e) \in {"STOPPED", "DRAINING"}
        BY DEF StopStatus
      <4>2. PICK e \in Epochs : Pause(e) \/ Resume(e) \/ Stop(e)
        BY <3>1
      <4>3. CASE Pause(e) \/ Resume(e)
        BY <1>1, <4>3 DEF Pause, Resume
      <4>4. CASE Stop(e)
        <5> DEFINE stop == [status |-> StopStatus(e), paused |-> TRUE]
        <5>1. stop \in [status : {"NONE", "RUNNING", "DRAINING", "STOPPED"}, paused : BOOLEAN]
          BY <4>1
        <5>2. bot' = [bot EXCEPT ![e] = stop]
          BY <4>4 DEF Stop
        <5> HIDE DEF stop
        <5> QED
          BY <1>1, <5>1, <5>2
      <4> QED
        BY <4>2, <4>3, <4>4
    <3>2. CASE Switch
      <4> DEFINE bot1 == [bot EXCEPT ![cur + 1].status = "RUNNING"]
                 stop == [status |-> StopStatus(cur), paused |-> TRUE]
      <4>1. bot1 \in Bots
        BY <1>1
      <4>2. stop \in [status : {"NONE", "RUNNING", "DRAINING", "STOPPED"}, paused : BOOLEAN]
        BY DEF StopStatus
      <4>3. bot' = [bot1 EXCEPT ![cur] = stop]
        BY <3>2 DEF Switch
      <4> HIDE DEF bot1, stop
      <4> QED
        BY <4>1, <4>2, <4>3
    <3>3. CASE \E p \in Positions : Submit(p)
      <4>1. bot' = bot \/ \E E, x : bot' = Finished(E, x)
        BY <3>3 DEF Submit
      <4> QED
        BY <1>1, <1>2, <4>1
    <3>4. CASE \/ \E S \in Closable : Close(S)
               \/ \E p \in Positions : ManualAttempt(p) \/ Callback(p)
      BY <1>1, <3>4 DEF Close, ManualAttempt, Callback
    <3> QED
      BY <1>6, <3>1, <3>2, <3>3, <3>4 DEF Operator
  <2> QED
    BY <1>1, <2>1, <2>2, <2>3, <2>4
<1> QED
  BY <1>3, <1>4, <1>5, <1>6 DEF Next, TickStep, TickMoves

(* Positions and attempts keep their types. *)
LEMMA StepTyped ==
    ASSUME TypeOK, Next, Books
    PROVE  TypeOK'
<1>1. \A p \in Positions : \A i \in DOMAIN att'[p] : att'[p][i] \in Attempts
  BY SeqFacts DEF Books, AttOK
<1> QED
  BY <1>1, OthersTyped DEF Books, TypeOK, Attempts, PositionRows

(* Every step keeps the books, what the tick has in hand and the bots. *)
LEMMA StepHolds ==
    ASSUME TradingInv, Next
    PROVE  Holds
<1>1. CASE StartTick
  BY <1>1, StartTickOK
<1>2. CASE RecoverAttempt \/ EndRecover
  BY <1>2, RecoverAttemptOK, EndRecoverOK
<1>3. CASE SkipExit \/ PrepareExit \/ ClaimExit
  BY <1>3, SkipExitOK, PrepareExitOK, ClaimExitOK
<1>4. CASE EndRows \/ Gate \/ Admit \/ EndWorks
  BY <1>4, EndRowsOK, GateOK, AdmitOK, EndWorksOK
<1>5. CASE HoldIntent \/ ClaimEntry
  BY <1>5, HoldIntentOK, ClaimEntryOK
<1>6. CASE SendRefused \/ Send \/ SendUnknown \/ Capture
  BY <1>6, SendRefusedOK, SendOK, CaptureOK
<1>7. CASE Accept \/ DrainAfter \/ EndTick \/ Crash
  BY <1>7, AcceptOK, DrainAfterOK, EndTickOK
<1>8. CASE \E p \in Positions, isDue \in BOOLEAN : DecideExit(p, isDue)
  BY <1>8, DecideExitOK
<1>9. CASE Operator
  BY <1>9, PauseOK, StopHolds, CloseOK, SwitchOK, ManualAttemptOK, SubmitOK, CallbackOK
     DEF Operator
<1> QED
  BY <1>1, <1>2, <1>3, <1>4, <1>5, <1>6, <1>7, <1>8, <1>9 DEF Next, TickStep

(* The invariant holds at first: nothing was bought and nothing is in      *)
(* hand.                                                                   *)
LEMMA TradingStarts ==
    ASSUME Init
    PROVE  TradingInv
<1> DEFINE x == [state |-> "ABSENT", origin |-> 0, entered |-> 0, left |-> 0]
<1>1. \A p \in Positions : pos[p] = x /\ att[p] = <<>>
  BY DEF Init
<1>2. <<>> \in Seq(Attempts) /\ Len(<<>>) = 0 /\ DOMAIN <<>> = {}
  BY EmptySeq
<1>3. x \in PositionRows
  BY TradingAssumption DEF PositionRows, States
<1>4. Sold(<<>>) = 0
  <2>1. Exits(<<>>) = {}
    BY <1>2 DEF Exits
  <2> QED
    BY <1>2, <2>1, SoldNothing
<1>5. Ledger(x, <<>>)
  BY <1>2, <1>3, <1>4 DEF Ledger, OrderOK, BookOK, StateOK
<1>6. LedgersOK /\ AttOK /\ OneEntry
  <2>1. att \in [Positions -> Seq(Attempts)]
    BY <1>2 DEF Init
  <2> HIDE DEF x
  <2> QED
    BY <1>1, <1>2, <1>5, <2>1 DEF LedgersOK, AttOK, OneEntry, OpenEntry
<1>7. TypeOK
  <2>1. pos \in [Positions -> PositionRows]
    BY <1>3 DEF Init
  <2>2. cur \in Epochs /\ faults \in 0 .. MaxFaults /\ commands \in 0 .. MaxCommands
    BY TradingAssumption DEF Init, Epochs
  <2>3. bot \in [Epochs -> [status : {"NONE", "RUNNING", "DRAINING", "STOPPED"},
                            paused : BOOLEAN]]
    BY DEF Init
  <2>4. \A p \in Positions : DOMAIN att[p] = {}
    BY <1>1, <1>2
  <2> QED
    BY <2>1, <2>2, <2>3, <2>4 DEF TypeOK, PositionRows
<1>8. TickOK /\ HandOK
  BY DEF Init, Idle, TickOK, AsTick, HandOK
<1>9. StopOK
  BY DEF Init, StopOK
<1> QED
  BY <1>6, <1>7, <1>8, <1>9 DEF TradingInv

(* The books, the tick in hand and the stopped bots, whatever ticks and    *)
(* operators do (trading_coordinator.py, paper_plane.py).                  *)
THEOREM TradingInvariant == Spec => []TradingInv
<1>1. Init => TradingInv
  BY TradingStarts
<1>2. TradingInv /\ [Next]_vars => TradingInv'
  <2> SUFFICES ASSUME TradingInv, [Next]_vars PROVE TradingInv'
    OBVIOUS
  <2>1. CASE Next
    BY <2>1, StepHolds, StepTyped DEF Holds, Books, TradingInv
  <2>2. CASE UNCHANGED vars
    <3>1. Books /\ Flat /\ UNCHANGED <<tick, att>> /\ UNCHANGED bot
      BY <2>2, NothingMoves DEF vars
    <3>2. TickOK' /\ HandOK' /\ StopOK'
      BY <3>1, HandRests, StopKept
    <3>3. TypeOK'
      BY <2>2 DEF vars, TypeOK, TradingInv
    <3> QED
      BY <3>1, <3>2, <3>3 DEF Books, TradingInv
  <2> QED
    BY <2>1, <2>2
<1> QED
  BY <1>1, <1>2, PTL DEF Spec

----------------------------------------------------------------------------
(* What follows for the properties.                                        *)

(* Positions, attempts and the counters have their types. *)
THEOREM TradingTypes == Spec => []TypeOK
<1>1. TradingInv => TypeOK
  BY DEF TradingInv
<1> QED
  BY <1>1, TradingInvariant, PTL

(* A position has one open attempt at most, and only one entry is open:    *)
(* enforce_operating_envelope lets none begin before.                      *)
THEOREM OneEntryIsOpen == Spec => []OneOpenEntry
<1>1. ASSUME TradingInv PROVE OneOpenEntry
  <2>1. \A p \in Positions : Cardinality(Open(p)) <= 1
    <3> SUFFICES ASSUME NEW p \in Positions PROVE Cardinality(Open(p)) <= 1
      OBVIOUS
    <3>1. Open(p) \subseteq {Len(att[p])}
      BY <1>1, OpenFacts
    <3>2. IsFiniteSet({Len(att[p])}) /\ Cardinality({Len(att[p])}) = 1
      BY FS_Singleton
    <3>3. Cardinality(Open(p)) <= Cardinality({Len(att[p])})
      BY <3>1, <3>2, FS_Subset
    <3> QED
      BY <3>2, <3>3
  <2>2. ASSUME NEW p \in Positions, Open(p) \cap Tries(p, "ENTRY") # {}
        PROVE  OpenEntry(att[p])
    <3>1. PICK i \in Open(p) : att[p][i].side = "ENTRY"
      BY <2>2 DEF Tries
    <3>2. /\ Ledger(pos[p], att[p]) /\ Len(att[p]) \in Nat /\ i = Len(att[p])
          /\ i \in 1 .. Len(att[p]) /\ att[p][i].final = "NONE"
      BY <1>1, <3>1, OpenFacts
    <3>3. i = 1
      BY <3>1, <3>2 DEF Ledger, OrderOK
    <3> QED
      BY <3>2, <3>3 DEF OpenEntry
  <2> QED
    BY <1>1, <2>1, <2>2 DEF OneOpenEntry, TradingInv, OneEntry
<1> QED
  BY <1>1, TradingInvariant, PTL

(* What the entry of a position did, once it is settled. *)
LEMMA EntryEffect ==
    ASSUME TradingInv, NEW p \in Positions
    PROVE  /\ Effect(p, Final(p, "ENTRY")) = pos[p].entered
           /\ ~HasOpen(p) => Final(p, "ENTRY") = Tries(p, "ENTRY")
<1> DEFINE s == att[p]
           d == Done(s)
<1>1. /\ Ledger(pos[p], s) /\ s \in Seq(Attempts) /\ Len(s) \in Nat
      /\ DOMAIN s = 1 .. Len(s) /\ (s = <<>> <=> Len(s) = 0)
  BY OpenFacts, LedgerTypes
<1>2. Final(p, "ENTRY") = IF Len(s) > 0 /\ s[1].final # "NONE" THEN {1} ELSE {}
  <2>1. Final(p, "ENTRY") = {i \in 1 .. Len(s) : s[i].side = "ENTRY" /\ s[i].final # "NONE"}
    BY <1>1 DEF Final, Tries
  <2>2. \A i \in 1 .. Len(s) : s[i].side = "ENTRY" <=> i = 1
    BY <1>1 DEF Ledger, OrderOK
  <2>3. Len(s) > 0 => 1 \in 1 .. Len(s)
    BY <1>1
  <2>4. \A i \in 1 .. Len(s) : Len(s) > 0
    BY <1>1
  <2> QED
    BY <2>1, <2>2, <2>3, <2>4
<1>3. Effect(p, Final(p, "ENTRY")) = Sum(d, Final(p, "ENTRY"))
  <2>1. Final(p, "ENTRY") \in SUBSET DOMAIN s
    BY DEF Final, Tries
  <2> QED
    BY <1>1, <2>1, EffectIsSum
<1>4. ~HasOpen(p) => Final(p, "ENTRY") = Tries(p, "ENTRY")
  BY DEF HasOpen, Open, Final, Tries
<1>5. CASE Len(s) > 0 /\ s[1].final # "NONE"
  <2>1. IsFiniteSet({1}) /\ IsFiniteSet({}) /\ {1} \ {1} = {}
    BY FS_Singleton, FS_EmptySet
  <2>2. 1 \in DOMAIN s /\ d[1] = s[1].done /\ d[1] \in Nat
    BY <1>1, <1>5, ExitsFinite
  <2>3. Integral(d, {1})
    BY <2>2 DEF Integral
  <2>4. Sum(d, {}) = 0
    BY <2>1, SumUnfold
  <2>5. Sum(d, {1}) = d[1] + Sum(d, {1} \ {1})
    BY <2>1, <2>3, SumSplit
  <2>6. pos[p].entered = s[1].done
    BY <1>1, <1>5 DEF Ledger, BookOK
  <2>7. Final(p, "ENTRY") = {1}
    BY <1>2, <1>5
  <2> HIDE DEF d, s
  <2>8. Sum(d, {1}) = d[1]
    BY <2>1, <2>2, <2>4, <2>5
  <2> QED
    BY <1>3, <1>4, <2>2, <2>6, <2>7, <2>8
<1>6. CASE ~(Len(s) > 0 /\ s[1].final # "NONE")
  <2>1. Sum(d, {}) = 0
    BY FS_EmptySet, SumUnfold
  <2>2. pos[p].entered = 0
    BY <1>1, <1>6 DEF Ledger, BookOK
  <2>3. Final(p, "ENTRY") = {}
    BY <1>2, <1>6
  <2> HIDE DEF d
  <2> QED
    BY <1>3, <1>4, <2>1, <2>2, <2>3
<1> QED
  BY <1>5, <1>6

(* What its settled exits did, and that an open one cannot add too much. *)
LEMMA ExitEffect ==
    ASSUME TradingInv, NEW p \in Positions
    PROVE  /\ pos[p].left = pos[p].entered - Effect(p, Final(p, "EXIT"))
           /\ Effect(p, Tries(p, "EXIT")) <= pos[p].entered
           /\ ~HasOpen(p) => Final(p, "EXIT") = Tries(p, "EXIT")
           /\ pos[p].left \in Nat /\ pos[p].entered \in Nat
           /\ Effect(p, Final(p, "EXIT")) \in Nat
<1> DEFINE s == att[p]
           d == Done(s)
           n == Len(s)
<1>1. /\ Ledger(pos[p], s) /\ s \in Seq(Attempts) /\ n \in Nat
      /\ DOMAIN s = 1 .. n /\ Sold(s) \in Nat /\ pos[p] \in PositionRows
      /\ Open(p) = {i \in 1 .. n : s[i].final = "NONE"} /\ Open(p) \subseteq {n}
  BY OpenFacts, LedgerTypes
<1>2. Final(p, "EXIT") = Exits(s)
  BY DEF Final, Tries, Exits
<1>3. Effect(p, Final(p, "EXIT")) = Sold(s)
  <2>1. Exits(s) \in SUBSET DOMAIN s
    BY DEF Exits
  <2> QED
    BY <1>1, <1>2, <2>1, EffectIsSum DEF Sold
<1>4. pos[p].left \in Nat /\ pos[p].entered \in Nat
  <2>1. pos[p].left \in 0 .. Size /\ pos[p].entered \in 0 .. Size /\ Size \in Nat
    BY <1>1, TradingAssumption DEF PositionRows
  <2> QED
    BY <2>1
<1>5. pos[p].left = pos[p].entered - Sold(s)
  BY <1>1 DEF Ledger, BookOK
<1>6. ~HasOpen(p) => Final(p, "EXIT") = Tries(p, "EXIT")
  BY DEF HasOpen, Open, Final, Tries
<1>7. Effect(p, Tries(p, "EXIT")) <= pos[p].entered
  <2>1. CASE Tries(p, "EXIT") = Exits(s)
    BY <1>2, <1>3, <1>4, <1>5, <1>1, <2>1
  <2>2. CASE Tries(p, "EXIT") # Exits(s)
    <3>1. PICK i \in Tries(p, "EXIT") : i \notin Exits(s)
      BY <2>2 DEF Exits, Tries
    <3>2. i \in 1 .. n /\ s[i].side = "EXIT" /\ s[i].final = "NONE" /\ i = n /\ n > 1
      <4>1. i \in 1 .. n /\ s[i].side = "EXIT" /\ s[i].final = "NONE"
        BY <1>1, <3>1 DEF Tries, Exits
      <4>2. i # 1
        BY <1>1, <4>1 DEF Ledger, OrderOK
      <4> QED
        BY <1>1, <4>1, <4>2
    <3>3. Tries(p, "EXIT") \ {n} = Exits(s) /\ n \in Tries(p, "EXIT")
      <4>1. n \in Tries(p, "EXIT") /\ n \notin Exits(s) /\ Exits(s) \subseteq Tries(p, "EXIT")
        BY <3>1, <3>2 DEF Exits, Tries
      <4>2. \A j \in Tries(p, "EXIT") : j # n => j \in Exits(s)
        BY <1>1 DEF Exits, Tries
      <4> QED
        BY <4>1, <4>2
    <3>4. s[n].left = pos[p].left /\ s[n].done <= pos[p].left
      BY <1>1, <3>2 DEF Ledger, BookOK
    <3>5. d[n] = s[n].done /\ d[n] \in Nat
      BY <1>1, <3>2, ExitsFinite
    <3>6. Effect(p, Tries(p, "EXIT")) = Sum(d, Tries(p, "EXIT"))
      <4>1. Tries(p, "EXIT") \in SUBSET DOMAIN s
        BY DEF Tries
      <4> QED
        BY <1>1, <4>1, EffectIsSum
    <3>7. Sum(d, Tries(p, "EXIT")) = d[n] + Sold(s)
      <4>1. Tries(p, "EXIT") \subseteq DOMAIN s
        BY DEF Tries
      <4>2. IsFiniteSet(Tries(p, "EXIT")) /\ Integral(d, Tries(p, "EXIT"))
        BY <1>1, <4>1, ExitsFinite, FS_Subset DEF Integral
      <4>3. Sum(d, Tries(p, "EXIT")) = d[n] + Sum(d, Tries(p, "EXIT") \ {n})
        BY <3>3, <4>2, SumSplit
      <4> QED
        BY <3>3, <4>3 DEF Sold
    <3> HIDE DEF d
    <3> QED
      BY <1>1, <1>4, <1>5, <3>4, <3>5, <3>6, <3>7
  <2> QED
    BY <2>1, <2>2
<1> QED
  BY <1>1, <1>3, <1>4, <1>5, <1>6, <1>7

(* The books agree with what the requests did, and no more is sold than    *)
(* was bought (_dispatch, accept_modeled_result).                          *)
THEOREM BooksAreTrue == Spec => []BooksMatchEffects
<1>1. ASSUME TradingInv PROVE BooksMatchEffects
  <2> SUFFICES ASSUME NEW p \in Positions
               PROVE  /\ \A i \in DOMAIN att[p] :
                            att[p][i].final # "NONE" => att[p][i].final = Truth(att[p][i])
                      /\ pos[p].entered = Effect(p, Final(p, "ENTRY"))
                      /\ pos[p].left = pos[p].entered - Effect(p, Final(p, "EXIT"))
                      /\ Effect(p, Tries(p, "EXIT")) <= pos[p].entered
    BY DEF BooksMatchEffects
  <2>1. \A i \in DOMAIN att[p] : att[p][i].final # "NONE" => att[p][i].final = Truth(att[p][i])
    BY <1>1, OpenFacts DEF Ledger, OrderOK
  <2> QED
    BY <1>1, <2>1, EntryEffect, ExitEffect
<1> QED
  BY <1>1, TradingInvariant, PTL

(* A bot that is shown as STOPPED owns nothing any more (STOP_BOT,         *)
(* activate, maybe_finish_drain).                                          *)
THEOREM StoppedBotsAreFlat == Spec => []StoppedIsFlat
<1>1. ASSUME TradingInv PROVE StoppedIsFlat
  <2> SUFFICES ASSUME NEW e \in Epochs, bot[e].status = "STOPPED",
                      NEW p \in Positions, pos[p].origin = e
               PROVE  /\ ~HasOpen(p)
                      /\ Effect(p, Tries(p, "ENTRY")) = Effect(p, Tries(p, "EXIT"))
    BY DEF StoppedIsFlat
  <2>1. pos[p].state \in Settled
    BY <1>1 DEF TradingInv, StopOK, Cleared
  <2>2. ~HasOpen(p)
    BY <1>1, <2>1, OpenFacts
  <2>3. pos[p].left = 0
    BY <1>1, <2>1, OpenFacts DEF Ledger, StateOK
  <2>4. /\ Effect(p, Tries(p, "ENTRY")) = pos[p].entered
        /\ pos[p].left = pos[p].entered - Effect(p, Tries(p, "EXIT"))
        /\ pos[p].entered \in Nat /\ Effect(p, Tries(p, "EXIT")) \in Nat
    BY <1>1, <2>2, EntryEffect, ExitEffect
  <2> QED
    BY <2>2, <2>3, <2>4
<1> QED
  BY <1>1, TradingInvariant, PTL
=============================================================================
