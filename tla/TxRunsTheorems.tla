--------------------------- MODULE TxRunsTheorems ---------------------------
(***************************************************************************)
(* For any number of requests, rows and nested runs: tx.Run is all or       *)
(* nothing, and requests that pass on their context never hang.             *)
(***************************************************************************)
EXTENDS TxRuns, SequenceTheorems, TLAPS

(* A run that joins holds no write, a request outside any run has written  *)
(* nothing in one, and who does not stray waits with the transaction it is *)
(* in.                                                                     *)
JoinedEmpty ==
    \A a \in Joins : \A i \in DOMAIN stack[a] : i > 1 => stack[a][i].writes = {}
IdleUnwritten == \A a \in Actors : stack[a] = <<>> => work[a] = {}
WaitsWithCurrent ==
    \A a \in Actors \ Strays : Waiting(a) => pending[a].session = Current(a)

IInv == TypeOK /\ HeldTogether /\ JoinedEmpty /\ IdleUnwritten /\ WaitsWithCurrent

-----------------------------------------------------------------------------
(* Leaving a run keeps those around it. *)
LEMMA FrontFacts ==
    ASSUME NEW S, NEW s \in Seq(S), s # <<>>
    PROVE  /\ Front(s) \in Seq(S)
           /\ Len(Front(s)) = Len(s) - 1
           /\ \A i \in DOMAIN Front(s) : i \in DOMAIN s /\ Front(s)[i] = s[i]
           /\ Last(s) = s[Len(s)]
           /\ Len(s) \in Nat \ {0}
<1>1. Len(s) \in Nat \ {0}
  OBVIOUS
<1>2. Front(s) = SubSeq(s, 1, Len(s) - 1) /\ Last(s) = s[Len(s)]
  BY DEF Front, Last
<1>3. \A i \in 1..(Len(s) - 1) : s[i] \in S
  BY <1>1
<1>4. /\ SubSeq(s, 1, Len(s) - 1) \in Seq(S)
      /\ Len(SubSeq(s, 1, Len(s) - 1)) = IF 1 <= Len(s) - 1 THEN Len(s) - 1 - 1 + 1 ELSE 0
      /\ \A i \in 1..(Len(s) - 1 - 1 + 1) : SubSeq(s, 1, Len(s) - 1)[i] = s[1 + i - 1]
  BY <1>1, <1>3, SubSeqProperties
<1>5. DOMAIN Front(s) = 1..(Len(s) - 1) /\ DOMAIN s = 1..Len(s)
  BY <1>1, <1>2, <1>4
<1> QED
  BY <1>1, <1>2, <1>4, <1>5

LEMMA AppendFacts ==
    ASSUME NEW S, NEW s \in Seq(S), NEW x \in S
    PROVE  /\ Append(s, x) \in Seq(S)
           /\ Len(Append(s, x)) = Len(s) + 1
           /\ \A i \in DOMAIN s : Append(s, x)[i] = s[i]
           /\ Append(s, x)[Len(s) + 1] = x
           /\ \A i \in DOMAIN Append(s, x) : i \in DOMAIN s \/ i = Len(s) + 1
OBVIOUS

LEMMA CurrentIn ==
    ASSUME TypeOK, NEW a \in Actors
    PROVE  /\ Current(a) \in Nat
           /\ stack[a] # <<>> => Current(a) \in DOMAIN stack[a]
           /\ stack[a] = <<>> => Current(a) = 0
<1>1. stack[a] \in Seq(Run)
  BY DEF TypeOK
<1> QED
  BY <1>1 DEF Current

LEMMA CurrentKept ==
    ASSUME NEW a, stack'[a] = stack[a]
    PROVE  Current(a)' = Current(a)
BY DEF Current

(* A change to one run of a stack leaves the others. *)
LEMMA ExceptFacts ==
    ASSUME NEW S, NEW s \in Seq(S), NEW k \in DOMAIN s, NEW x \in S
    PROVE  LET t == [s EXCEPT ![k] = x]
           IN  /\ t \in Seq(S) /\ Len(t) = Len(s) /\ DOMAIN t = DOMAIN s
               /\ t[k] = x
               /\ \A i \in DOMAIN s : i # k => t[i] = s[i]
OBVIOUS

LEMMA WritesKeep ==
    ASSUME NEW s \in Seq(Run), NEW k \in DOMAIN s, NEW W \in SUBSET Write
    PROVE  LET t == [s EXCEPT ![k].writes = W]
           IN  /\ t \in Seq(Run) /\ Len(t) = Len(s) /\ DOMAIN t = DOMAIN s
               /\ t[k].writes = W
               /\ \A i \in DOMAIN s : i # k => t[i] = s[i]
<1>1. s[k] \in Run
  OBVIOUS
<1> DEFINE x == [s[k] EXCEPT !.writes = W]
<1>2. x \in Run /\ x.writes = W
  BY <1>1 DEF Run
<1>3. [s EXCEPT ![k].writes = W] = [s EXCEPT ![k] = x]
  OBVIOUS
<1> HIDE DEF x
<1> QED
  BY <1>2, <1>3, ExceptFacts

-----------------------------------------------------------------------------
(* What the invariant says of one actor: its stack, its statement and what  *)
(* it has written.                                                          *)
FindsIn(a, st) == IF a \in Joins /\ st # <<>> THEN 1 ELSE Len(st)
Fits(a, st, pe, wk) ==
    /\ st \in Seq(Run) /\ Len(st) <= MaxDepth
    /\ pe \in {NoStatement} \cup [session : Nat, row : Rows]
    /\ pe # NoStatement => pe.session = FindsIn(a, st) \/ (a \in Strays /\ pe.session = 0)
    /\ wk \in SUBSET Write
    /\ st = <<>> => wk = {}
    /\ a \in Joins /\ st # <<>> => st[1].writes = wk
    /\ a \in Joins => \A i \in DOMAIN st : i > 1 => st[i].writes = {}

LEMMA FitsNow ==
    ASSUME IInv, NEW a \in Actors
    PROVE  Fits(a, stack[a], pending[a], work[a]) /\ Current(a) = FindsIn(a, stack[a])
<1>1. Current(a) = FindsIn(a, stack[a])
  BY DEF Current, FindsIn
<1>2. stack[a] \in Seq(Run) /\ pending[a] \in {NoStatement} \cup [session : Nat, row : Rows]
  BY DEF IInv, TypeOK
<1>3. pending[a] # NoStatement =>
        pending[a].session = FindsIn(a, stack[a]) \/ (a \in Strays /\ pending[a].session = 0)
  BY <1>1 DEF IInv, TypeOK, WaitsWithCurrent, Waiting
<1> QED
  BY <1>1, <1>2, <1>3 DEF Fits, IInv, TypeOK, HeldTogether, JoinedEmpty, IdleUnwritten

(* An actor's step keeps the invariant if what it leaves fits. *)
LEMMA OneActor ==
    ASSUME IInv, TxAssumption, NEW a \in Actors, NEW st, NEW pe, NEW wk,
           stack' = [stack EXCEPT ![a] = st],
           pending' = [pending EXCEPT ![a] = pe],
           work' = [work EXCEPT ![a] = wk],
           Fits(a, st, pe, wk),
           defaultDB' \in BOOLEAN, left' \in [Actors -> Nat],
           landed' \in SUBSET Write, said' \in {"nothing", "ok", "error"}
    PROVE  IInv'
<1>1. /\ stack'[a] = st /\ pending'[a] = pe /\ work'[a] = wk
      /\ \A b \in Actors \ {a} : stack'[b] = stack[b] /\ pending'[b] = pending[b] /\ work'[b] = work[b]
  BY DEF IInv, TypeOK
<1>2. \A b \in Actors : Fits(b, stack'[b], pending'[b], work'[b])
  BY <1>1, FitsNow
<1>3. \A b \in Actors : Current(b)' = FindsIn(b, stack'[b])
  BY DEF Current, FindsIn
<1>4. /\ stack' \in [Actors -> Seq(Run)]
      /\ pending' \in [Actors -> {NoStatement} \cup [session : Nat, row : Rows]]
      /\ work' \in [Actors -> SUBSET Write]
  BY <1>1, <1>2 DEF IInv, TypeOK, Fits
<1>5. TypeOK'
  BY <1>2, <1>3, <1>4 DEF TypeOK, Fits, Waiting
<1>6. WaitsWithCurrent'
  BY <1>2, <1>3 DEF WaitsWithCurrent, Fits, Waiting
<1>7. Joins \subseteq Actors
  BY DEF TxAssumption
<1>8. HeldTogether' /\ JoinedEmpty' /\ IdleUnwritten'
  BY <1>2, <1>7 DEF HeldTogether, JoinedEmpty, IdleUnwritten, Fits
<1> QED
  BY <1>5, <1>6, <1>8 DEF IInv
(* What a run has written are writes, and no statement is session -1. *)
LEMMA RunFacts ==
    ASSUME IInv, NEW a \in Actors
    PROVE  /\ \A i \in DOMAIN stack[a] : stack[a][i] \in Run /\ stack[a][i].writes \in SUBSET Write
           /\ Opened \in Run /\ Opened.writes = {}
           /\ stack[a] = <<>> \/ (Len(stack[a]) \in Nat \ {0} /\ 1 \in DOMAIN stack[a])
           /\ DOMAIN stack[a] = 1..Len(stack[a])
<1>1. stack[a] \in Seq(Run)
  BY DEF IInv, TypeOK
<1>2. ASSUME NEW i \in DOMAIN stack[a]
      PROVE  stack[a][i] \in Run /\ stack[a][i].writes \in SUBSET Write
  <2>1. stack[a][i] \in Run
    BY <1>1
  <2> QED BY <2>1 DEF Run
<1>3. Opened \in Run /\ Opened.writes = {}
  BY DEF Run, Opened
<1>4. /\ stack[a] = <<>> \/ (Len(stack[a]) \in Nat \ {0} /\ 1 \in DOMAIN stack[a])
      /\ DOMAIN stack[a] = 1..Len(stack[a])
  BY <1>1
<1> QED
  BY <1>2, <1>3, <1>4

LEMMA BeginKeeps ==
    ASSUME IInv, TxAssumption, NEW a \in Actors, Begin(a)
    PROVE  IInv'
<1> DEFINE st == Append(stack[a], Opened)
<1>1. Fits(a, stack[a], pending[a], work[a]) /\ Len(stack[a]) < MaxDepth /\ MaxDepth \in Nat
  BY FitsNow DEF Begin, TxAssumption
<1>2. /\ st \in Seq(Run) /\ Len(st) = Len(stack[a]) + 1 /\ DOMAIN st = 1..Len(st)
      /\ \A i \in DOMAIN stack[a] : st[i] = stack[a][i]
      /\ st[Len(stack[a]) + 1] = Opened
      /\ \A i \in DOMAIN st : i \in DOMAIN stack[a] \/ i = Len(stack[a]) + 1
  BY <1>1, RunFacts, AppendFacts DEF Fits
<1>3. Len(st) <= MaxDepth /\ st # <<>> /\ Len(stack[a]) \in Nat
  BY <1>1, <1>2 DEF Fits
<1>4. a \in Joins => st[1].writes = work[a]
  <2>1. CASE stack[a] = <<>>
    <3>1. st[1] = Opened /\ work[a] = {}
      BY <1>1, <1>2, <2>1 DEF Fits
    <3> QED BY <3>1, RunFacts
  <2>2. CASE stack[a] # <<>>
    BY <1>1, <1>2, <2>2, RunFacts DEF Fits
  <2> QED BY <2>1, <2>2
<1>5. a \in Joins => \A i \in DOMAIN st : i > 1 => st[i].writes = {}
  BY <1>1, <1>2, RunFacts DEF Fits
<1>6. pending[a] = NoStatement
  BY DEF Begin
<1> HIDE DEF st
<1>7. Fits(a, st, pending[a], work[a])
  BY <1>1, <1>2, <1>3, <1>4, <1>5, <1>6 DEF Fits
<1>8. /\ stack' = [stack EXCEPT ![a] = st]
      /\ pending' = [pending EXCEPT ![a] = pending[a]]
      /\ work' = [work EXCEPT ![a] = work[a]]
      /\ defaultDB' \in BOOLEAN /\ left' \in [Actors -> Nat]
      /\ landed' \in SUBSET Write /\ said' \in {"nothing", "ok", "error"}
  BY DEF Begin, Quiet, IInv, TypeOK, st
<1> QED
  BY <1>7, <1>8, OneActor

LEMMA NotBegunKeeps ==
    ASSUME IInv, TxAssumption, NEW a \in Actors, NotBegun(a)
    PROVE  IInv'
<1>1. Fits(a, stack[a], pending[a], work[a])
  BY FitsNow
<1>2. /\ stack' = [stack EXCEPT ![a] = stack[a]]
      /\ pending' = [pending EXCEPT ![a] = pending[a]]
      /\ work' = [work EXCEPT ![a] = work[a]]
      /\ defaultDB' \in BOOLEAN /\ left' \in [Actors -> Nat]
      /\ landed' \in SUBSET Write /\ said' \in {"nothing", "ok", "error"}
  BY DEF NotBegun, IInv, TypeOK
<1> QED
  BY <1>1, <1>2, OneActor

LEMMA IssueKeeps ==
    ASSUME IInv, TxAssumption, NEW a \in Actors, NEW row \in Rows, Issue(a, row)
    PROVE  IInv'
<1>1. Fits(a, stack[a], pending[a], work[a]) /\ Current(a) = FindsIn(a, stack[a])
  BY FitsNow
<1>2. PICK session \in {Current(a)} \cup (IF a \in Strays THEN {0} ELSE {}) :
            pending' = [pending EXCEPT ![a] = [session |-> session, row |-> row]]
  BY DEF Issue
<1> DEFINE pe == [session |-> session, row |-> row]
<1>3. pe.session = FindsIn(a, stack[a]) \/ (a \in Strays /\ pe.session = 0)
  BY <1>1, <1>2
<1>4. session \in Nat
  BY <1>1, <1>3 DEF Fits, FindsIn
<1>5. Fits(a, stack[a], pe, work[a])
  BY <1>1, <1>3, <1>4 DEF Fits
<1>6. left[a] \in Nat /\ left[a] > 0 /\ left' = [left EXCEPT ![a] = @ - 1]
  BY DEF Issue, IInv, TypeOK
<1>7. left' \in [Actors -> Nat]
  BY <1>6 DEF IInv, TypeOK
<1>8. /\ stack' = [stack EXCEPT ![a] = stack[a]]
      /\ work' = [work EXCEPT ![a] = work[a]]
      /\ defaultDB' \in BOOLEAN
      /\ landed' \in SUBSET Write /\ said' \in {"nothing", "ok", "error"}
  BY DEF Issue, Quiet, IInv, TypeOK
<1> QED
  BY <1>2, <1>5, <1>7, <1>8, OneActor

LEMMA PerformKeeps ==
    ASSUME IInv, TxAssumption, NEW a \in Actors, Perform(a)
    PROVE  IInv'
<1> DEFINE s == pending[a].session
           w == [by |-> a, left |-> left[a], row |-> pending[a].row]
<1>1. Fits(a, stack[a], pending[a], work[a]) /\ Waiting(a)
  BY FitsNow DEF Perform
<1>2. w \in Write
  BY <1>1 DEF Fits, Waiting, Write, IInv, TypeOK
<1>3. /\ pending' = [pending EXCEPT ![a] = NoStatement]
      /\ defaultDB' \in BOOLEAN /\ left' \in [Actors -> Nat]
      /\ said' \in {"nothing", "ok", "error"}
  BY DEF Perform, IInv, TypeOK
<1>4. CASE s = 0
  <2>1. Fits(a, stack[a], NoStatement, work[a])
    BY <1>1 DEF Fits
  <2>2. landed' \in SUBSET Write
    BY <1>2, <1>4 DEF Perform
  <2>3. stack' = [stack EXCEPT ![a] = stack[a]] /\ work' = [work EXCEPT ![a] = work[a]]
    BY <1>4 DEF Perform, IInv, TypeOK
  <2> QED
    BY <1>3, <2>1, <2>2, <2>3, OneActor
<1>5. CASE s # 0
  <2> DEFINE W == stack[a][s].writes \cup {w}
             st == [stack[a] EXCEPT ![s].writes = W]
             wk == work[a] \cup {w}
  <2>1. s = FindsIn(a, stack[a]) /\ stack[a] \in Seq(Run)
    BY <1>1, <1>5 DEF Fits, Waiting
  <2>2. s \in DOMAIN stack[a] /\ stack[a] # <<>> /\ (a \in Joins => s = 1)
    BY <1>5, <2>1, RunFacts DEF FindsIn
  <2>3. W \in SUBSET Write
    BY <1>2, <2>2, RunFacts
  <2>4. /\ st \in Seq(Run) /\ Len(st) = Len(stack[a]) /\ DOMAIN st = DOMAIN stack[a]
        /\ st[s].writes = W
        /\ \A i \in DOMAIN stack[a] : i # s => st[i] = stack[a][i]
    <3>1. stack[a] \in Seq(Run) /\ s \in DOMAIN stack[a] /\ W \in SUBSET Write
      BY <2>1, <2>2, <2>3
    <3> HIDE DEF W, s
    <3> QED BY <3>1, WritesKeep
  <2>5. /\ stack' = [stack EXCEPT ![a] = st]
        /\ work' = [work EXCEPT ![a] = wk]
        /\ landed' \in SUBSET Write
    BY <1>5 DEF Perform, IInv, TypeOK
  <2>6. wk \in SUBSET Write /\ (a \in Joins => W = wk)
    BY <1>1, <1>2, <2>2 DEF Fits
  <2>7. st # <<>>
    BY <2>2, <2>4
  <2> HIDE DEF st, W, wk
  <2>8. Fits(a, st, NoStatement, wk)
    BY <1>1, <2>2, <2>4, <2>6, <2>7 DEF Fits
  <2> QED
    BY <1>3, <2>5, <2>8, OneActor
<1> QED
  BY <1>4, <1>5
(* A transaction that is aborted or lost keeps what was written in it. *)
LEMMA StateChangeFits ==
    ASSUME IInv, NEW a \in Actors, NEW k \in DOMAIN stack[a], NEW how \in {"aborted", "lost"},
           NEW pe \in {NoStatement, pending[a]}
    PROVE  Fits(a, [stack[a] EXCEPT ![k].state = how], pe, work[a])
<1> DEFINE st == [stack[a] EXCEPT ![k].state = how]
<1>1. Fits(a, stack[a], pending[a], work[a])
  BY FitsNow
<1>2. stack[a] \in Seq(Run) /\ k \in DOMAIN stack[a] /\ how \in {"aborted", "lost"}
  BY <1>1 DEF Fits
<1>3. /\ st \in Seq(Run) /\ Len(st) = Len(stack[a]) /\ DOMAIN st = DOMAIN stack[a]
      /\ \A i \in DOMAIN stack[a] : st[i].writes = stack[a][i].writes
  <2> DEFINE s == stack[a]
             r == [stack[a][k] EXCEPT !.state = how]
  <2>1. r \in Run /\ r.writes = stack[a][k].writes
    BY <1>2, RunFacts DEF Run
  <2>2. st = [s EXCEPT ![k] = r]
    OBVIOUS
  <2>3. s \in Seq(Run) /\ k \in DOMAIN s
    BY <1>2
  <2> HIDE DEF s, r, st
  <2>4. /\ st \in Seq(Run) /\ Len(st) = Len(s) /\ DOMAIN st = DOMAIN s /\ st[k] = r
        /\ \A i \in DOMAIN s : i # k => st[i] = s[i]
    BY <2>1, <2>2, <2>3, ExceptFacts
  <2>5. \A i \in DOMAIN stack[a] : st[i].writes = stack[a][i].writes
    BY <2>1, <2>4 DEF s
  <2> QED BY <2>4, <2>5 DEF s
<1>4. stack[a] # <<>> /\ st # <<>> /\ 1 \in DOMAIN stack[a]
  BY <1>2, <1>3
<1> HIDE DEF st
<1>5. FindsIn(a, st) = FindsIn(a, stack[a])
  BY <1>3, <1>4 DEF FindsIn
<1>6. Fits(a, st, pe, work[a])
  BY <1>1, <1>3, <1>4, <1>5 DEF Fits
<1> QED
  BY <1>6 DEF st

LEMMA FailKeeps ==
    ASSUME IInv, TxAssumption, NEW a \in Actors, Fail(a)
    PROVE  IInv'
<1> DEFINE s == pending[a].session
<1>1. Fits(a, stack[a], pending[a], work[a]) /\ Waiting(a)
  BY FitsNow DEF Fail
<1>2. /\ pending' = [pending EXCEPT ![a] = NoStatement]
      /\ work' = [work EXCEPT ![a] = work[a]]
      /\ defaultDB' \in BOOLEAN /\ left' \in [Actors -> Nat]
      /\ landed' \in SUBSET Write /\ said' \in {"nothing", "ok", "error"}
  BY DEF Fail, Quiet, IInv, TypeOK
<1>3. CASE s = 0 \/ stack[a][s].state # "open"
  <2>1. Fits(a, stack[a], NoStatement, work[a])
    BY <1>1 DEF Fits
  <2>2. stack' = [stack EXCEPT ![a] = stack[a]]
    BY <1>3 DEF Fail, IInv, TypeOK
  <2> QED
    BY <1>2, <2>1, <2>2, OneActor
<1>4. CASE s # 0 /\ stack[a][s].state = "open"
  <2>1. s = FindsIn(a, stack[a]) /\ stack[a] \in Seq(Run)
    BY <1>1, <1>4 DEF Fits, Waiting
  <2>2. s \in DOMAIN stack[a]
    BY <1>4, <2>1, RunFacts DEF FindsIn
  <2>3. stack' = [stack EXCEPT ![a] = [stack[a] EXCEPT ![s].state = "aborted"]]
    BY <1>4 DEF Fail, IInv, TypeOK
  <2>4. Fits(a, [stack[a] EXCEPT ![s].state = "aborted"], NoStatement, work[a])
    BY <2>2, StateChangeFits
  <2> QED
    BY <1>2, <2>3, <2>4, OneActor
<1> QED
  BY <1>3, <1>4

LEMMA LoseKeeps ==
    ASSUME IInv, TxAssumption, NEW a \in Actors, Lose(a)
    PROVE  IInv'
<1>1. PICK i \in DOMAIN stack[a] : stack' = [stack EXCEPT ![a][i].state = "lost"]
  BY DEF Lose
<1>2. /\ stack' = [stack EXCEPT ![a] = [stack[a] EXCEPT ![i].state = "lost"]]
      /\ pending' = [pending EXCEPT ![a] = pending[a]]
      /\ work' = [work EXCEPT ![a] = work[a]]
      /\ defaultDB' \in BOOLEAN /\ left' \in [Actors -> Nat]
      /\ landed' \in SUBSET Write /\ said' \in {"nothing", "ok", "error"}
  BY <1>1 DEF Lose, Quiet, IInv, TypeOK
<1>3. Fits(a, [stack[a] EXCEPT ![i].state = "lost"], pending[a], work[a])
  BY StateChangeFits
<1> QED
  BY <1>2, <1>3, OneActor

LEMMA LeaveKeeps ==
    ASSUME IInv, TxAssumption, NEW a \in Actors, Leaving(a), NEW how \in {"ok", "error"},
           Leave(a, how), landed' \in SUBSET Write, UNCHANGED <<defaultDB, pending, left>>
    PROVE  IInv'
<1> DEFINE st == Front(stack[a])
           wk == IF Len(stack[a]) = 1 THEN {} ELSE work[a]
<1>1. Fits(a, stack[a], pending[a], work[a]) /\ pending[a] = NoStatement /\ stack[a] # <<>>
  BY FitsNow DEF Leaving
<1>2. /\ stack[a] \in Seq(Run) /\ Len(stack[a]) \in Nat \ {0}
      /\ st \in Seq(Run) /\ Len(st) = Len(stack[a]) - 1
      /\ \A i \in DOMAIN st : i \in DOMAIN stack[a] /\ st[i] = stack[a][i]
  BY <1>1, FrontFacts DEF Fits
<1> HIDE DEF st
<1>3. /\ Len(st) <= MaxDepth
      /\ st = <<>> => wk = {}
      /\ st # <<>> => wk = work[a] /\ 1 \in DOMAIN st
      /\ wk \in SUBSET Write
  <2>1. wk \in SUBSET Write /\ MaxDepth \in Nat /\ Len(stack[a]) <= MaxDepth
    BY <1>1 DEF Fits, TxAssumption
  <2>2. CASE Len(stack[a]) = 1
    <3>1. st = <<>>
      BY <1>2, <2>2
    <3> QED BY <2>1, <2>2, <3>1
  <2>3. CASE Len(stack[a]) # 1
    <3>1. Len(st) \in Nat \ {0}
      BY <1>2, <2>3
    <3>2. 1 \in DOMAIN st /\ st # <<>>
      <4>1. DOMAIN st = 1..Len(st)
        BY <1>2
      <4>2. 1 \in 1..Len(st)
        BY <3>1
      <4> QED BY <4>1, <4>2
    <3>3. Len(st) <= MaxDepth
      BY <1>2, <2>1
    <3> QED BY <2>1, <2>3, <3>2, <3>3
  <2> QED BY <2>2, <2>3
<1>4. Fits(a, st, pending[a], wk)
  BY <1>1, <1>2, <1>3 DEF Fits
<1>5. /\ stack' = [stack EXCEPT ![a] = st]
      /\ pending' = [pending EXCEPT ![a] = pending[a]]
      /\ work' = [work EXCEPT ![a] = wk]
      /\ defaultDB' \in BOOLEAN /\ left' \in [Actors -> Nat]
      /\ said' \in {"nothing", "ok", "error"}
  BY DEF Leave, IInv, TypeOK, st
<1> QED
  BY <1>4, <1>5, OneActor

(* How a run ends: what Commit lands is what the last run on the stack wrote. *)
LEMMA ReturnEnds ==
    ASSUME IInv, NEW a \in Actors, Return(a)
    PROVE  /\ Leaving(a) /\ UNCHANGED <<defaultDB, pending, left>>
           /\ \E how \in {"ok", "error"} : Leave(a, how)
           /\ landed' \in SUBSET Write
<1>1. Leaving(a) /\ UNCHANGED <<defaultDB, pending, left>>
  BY DEF Return
<1>2. stack[a] \in Seq(Run) /\ stack[a] # <<>>
  BY <1>1 DEF IInv, TypeOK, Leaving
<1>3. Last(stack[a]).writes \in SUBSET Write
  <2>1. Last(stack[a]) = stack[a][Len(stack[a])]
    BY DEF Last
  <2>2. Len(stack[a]) \in DOMAIN stack[a]
    BY <1>2
  <2> QED BY <2>1, <2>2, RunFacts
<1>4. Leave(a, "ok") \/ Leave(a, "error")
  BY DEF Return, Commit
<1>5. landed' \in SUBSET Write
  BY <1>3 DEF Return, Commit
<1> QED
  BY <1>1, <1>4, <1>5

-----------------------------------------------------------------------------
(* tx.go and db.py keep the invariant, for any requests and any nesting. *)
LEMMA Invariance == Spec => []IInv
<1>1. Init => IInv
  <2> SUFFICES ASSUME Init PROVE IInv
    OBVIOUS
  <2>1. TypeOK
    <3>1. Budgets \subseteq [Actors -> Nat] /\ MaxDepth \in Nat
      BY TxAssumption DEF TxAssumption
    <3>2. <<>> \in Seq(Run) /\ Len(<<>>) = 0
      OBVIOUS
    <3>3. left \in [Actors -> Nat]
      BY <3>1 DEF Init
    <3>4. \A a \in Actors : Len(stack[a]) <= MaxDepth
      BY <3>1, <3>2 DEF Init
    <3>5. /\ stack \in [Actors -> Seq(Run)] /\ work \in [Actors -> SUBSET Write]
          /\ pending \in [Actors -> {NoStatement} \cup [session : Nat, row : Rows]]
      BY <3>2 DEF Init
    <3> QED BY <3>3, <3>4, <3>5 DEF Init, TypeOK, Waiting
  <2>2. HeldTogether /\ JoinedEmpty
    <3>1. Joins \subseteq Actors
      BY TxAssumption DEF TxAssumption
    <3> QED BY <3>1 DEF Init, HeldTogether, JoinedEmpty
  <2> QED BY <2>1, <2>2 DEF Init, IInv, IdleUnwritten, WaitsWithCurrent, Waiting
<1>2. IInv /\ [Next]_vars => IInv'
  <2> SUFFICES ASSUME IInv, [Next]_vars PROVE IInv'
    OBVIOUS
  <2> USE TxAssumption
  <2>1. CASE UNCHANGED vars
    BY <2>1 DEF vars, IInv, TypeOK, HeldTogether, JoinedEmpty, IdleUnwritten,
                WaitsWithCurrent, Waiting, Current
  <2>2. CASE InitPool
    BY <2>2 DEF InitPool, Quiet, IInv, TypeOK, HeldTogether, JoinedEmpty, IdleUnwritten,
                WaitsWithCurrent, Waiting, Current
  <2>3. ASSUME NEW a \in Actors, Step(a) PROVE IInv'
    <3>1. CASE Begin(a)
      BY <3>1, BeginKeeps
    <3>2. CASE NotBegun(a)
      BY <3>2, NotBegunKeeps
    <3>3. ASSUME NEW row \in Rows, Issue(a, row) PROVE IInv'
      BY <3>3, IssueKeeps
    <3>4. CASE Perform(a)
      BY <3>4, PerformKeeps
    <3>5. CASE Fail(a)
      BY <3>5, FailKeeps
    <3>6. CASE Lose(a)
      BY <3>6, LoseKeeps
    <3>7. CASE Return(a)
      BY <3>7, ReturnEnds, LeaveKeeps
    <3>8. CASE Raise(a)
      BY <3>8, LeaveKeeps DEF Raise
    <3> QED BY <2>3, <3>1, <3>2, <3>3, <3>4, <3>5, <3>6, <3>7, <3>8 DEF Step
  <2> QED BY <2>1, <2>2, <2>3 DEF Next
<1> QED
  BY <1>1, <1>2, PTL DEF Spec

(* The types, and that the transaction of a Go request holds all that was     *)
(* written in its runs (tx.go:31-58), however many requests there are and     *)
(* however deep they nest.                                                    *)
THEOREM RunsHoldTogether == Spec => []Inv
<1>1. IInv => Inv
  BY DEF IInv, Inv
<1> QED
  BY <1>1, Invariance, PTL

(* Only an actor's Return or Raise takes its last run off its stack. *)
LEMMA OnlyLeavingEnds ==
    ASSUME IInv, TxAssumption, NEW x \in Actors, Step(x), ~Return(x), ~Raise(x),
           NEW a \in Actors, stack[a] # <<>>
    PROVE  stack'[a] # <<>>
<1>1. 1 \in DOMAIN stack[a] /\ DOMAIN <<>> = {}
  BY RunFacts
<1>2. stack \in [Actors -> Seq(Run)]
  BY DEF IInv, TypeOK
<1>3. CASE Begin(x)
  <2>1. stack' = [stack EXCEPT ![x] = Append(stack[x], Opened)]
    BY <1>3 DEF Begin
  <2>2. Append(stack[x], Opened) # <<>>
    BY <1>2, RunFacts, AppendFacts
  <2> QED BY <1>2, <2>1, <2>2
<1>4. CASE Perform(x) \/ Fail(x) \/ Lose(x)
  <2>1. CASE stack' = stack
    BY <2>1
  <2>2. ASSUME NEW k, NEW W, stack' = [stack EXCEPT ![x][k].writes = W]
        PROVE  DOMAIN stack'[a] = DOMAIN stack[a]
    BY <1>2, <2>2
  <2>3. ASSUME NEW k, NEW how, stack' = [stack EXCEPT ![x][k].state = how]
        PROVE  DOMAIN stack'[a] = DOMAIN stack[a]
    BY <1>2, <2>3
  <2>4. CASE Perform(x)
    <3>1. \/ stack' = stack
          \/ \E k, W : stack' = [stack EXCEPT ![x][k].writes = W]
      BY <2>4 DEF Perform
    <3> QED BY <1>1, <2>1, <2>2, <3>1
  <2>5. CASE Fail(x)
    <3>1. \/ stack' = stack
          \/ \E k, how : stack' = [stack EXCEPT ![x][k].state = how]
      BY <2>5 DEF Fail
    <3> QED BY <1>1, <2>1, <2>3, <3>1
  <2>6. CASE Lose(x)
    <3>1. \E k, how : stack' = [stack EXCEPT ![x][k].state = how]
      BY <2>6 DEF Lose
    <3> QED BY <1>1, <2>3, <3>1
  <2> QED BY <1>4, <2>4, <2>5, <2>6
<1>5. CASE NotBegun(x) \/ \E row \in Rows : Issue(x, row)
  BY <1>5 DEF NotBegun, Issue
<1> QED
  BY <1>3, <1>4, <1>5 DEF Step

(* The outermost run of a Go request commits all of its work or none. *)
LEMMA AllOrNothingStep ==
    ASSUME IInv, TxAssumption, NEW a \in Joins, stack[a] # <<>>, stack'[a] = <<>>, Next
    PROVE  \/ work[a] \subseteq landed'
           \/ work[a] \cap landed' = {} /\ said' = "error"
<1>1. a \in Actors
  BY DEF TxAssumption
<1>2. stack \in [Actors -> Seq(Run)]
  BY DEF IInv, TypeOK
<1>3. PICK x \in Actors : Return(x) \/ Raise(x)
  BY <1>1, OnlyLeavingEnds DEF Next, InitPool
<1>4. stack' = [stack EXCEPT ![x] = Front(@)]
  BY <1>3 DEF Return, Raise, Commit, Leave
<1>5. x = a /\ Front(stack[a]) = <<>>
  BY <1>1, <1>2, <1>4
<1>6. Len(stack[a]) = 1
  <2>1. stack[a] \in Seq(Run) /\ Len(<<>>) = 0
    BY <1>1, <1>2
  <2>2. Len(Front(stack[a])) = Len(stack[a]) - 1 /\ Len(stack[a]) \in Nat \ {0}
    BY <2>1, FrontFacts
  <2> QED BY <1>5, <2>1, <2>2
<1>7. Owned(a) /\ Last(stack[a]).writes = work[a]
  BY <1>6 DEF Owned, Current, Last, IInv, HeldTogether
<1>8. CASE Raise(a)
  BY <1>8 DEF Raise, Leave
<1>9. CASE Return(a)
  BY <1>7, <1>9 DEF Return, Commit, Leave
<1> QED
  BY <1>3, <1>5, <1>8, <1>9

(* tx.Run is all or nothing for what is written through its context           *)
(* (tx.go:26-30): nested runs that failed land with the rest or not at all.   *)
THEOREM RunIsAllOrNothing == Spec => AllOrNothing
<1>1. IInv /\ [Next]_vars =>
        [\A a \in Joins : stack[a] # <<>> /\ stack'[a] = <<>> =>
            \/ work[a] \subseteq landed'
            \/ work[a] \cap landed' = {} /\ said' = "error"]_vars
  BY AllOrNothingStep, TxAssumption
<1> QED
  BY <1>1, Invariance, PTL DEF Spec, AllOrNothing

(* What is in a transaction was written by the request that holds it. *)
OwnWrites ==
    \A a \in Actors : \A i \in DOMAIN stack[a] : \A w \in stack[a][i].writes : w.by = a

(* A step touches the stack of one actor, and puts on it nothing another one wrote. *)
LEMMA OwnWritesOf ==
    ASSUME IInv, OwnWrites, NEW a \in Actors, NEW st, stack' = [stack EXCEPT ![a] = st],
           \A i \in DOMAIN st : \A w \in st[i].writes : w.by = a
    PROVE  OwnWrites'
<1>1. stack'[a] = st /\ \A b \in Actors \ {a} : stack'[b] = stack[b]
  BY DEF IInv, TypeOK
<1> QED
  BY <1>1 DEF OwnWrites

LEMMA OwnWritesKept ==
    ASSUME IInv, OwnWrites, NEW a \in Actors, Step(a)
    PROVE  OwnWrites'
<1>1. stack[a] \in Seq(Run) /\ stack \in [Actors -> Seq(Run)]
  BY DEF IInv, TypeOK
<1>2. \A i \in DOMAIN stack[a] : \A w \in stack[a][i].writes : w.by = a
  BY DEF OwnWrites
<1>3. CASE Begin(a)
  <2> DEFINE st == Append(stack[a], Opened)
  <2>1. /\ \A i \in DOMAIN stack[a] : st[i] = stack[a][i]
        /\ st[Len(stack[a]) + 1] = Opened
        /\ \A i \in DOMAIN st : i \in DOMAIN stack[a] \/ i = Len(stack[a]) + 1
    BY <1>1, RunFacts, AppendFacts
  <2>2. stack' = [stack EXCEPT ![a] = st] /\ Opened.writes = {}
    BY <1>3 DEF Begin, Opened
  <2> HIDE DEF st
  <2>3. \A i \in DOMAIN st : \A w \in st[i].writes : w.by = a
    BY <1>2, <2>1, <2>2
  <2> QED BY <2>2, <2>3, OwnWritesOf
<1>4. CASE Perform(a)
  <2>1. CASE UNCHANGED stack
    BY <2>1 DEF OwnWrites
  <2>2. ASSUME NEW s \in DOMAIN stack[a], NEW w \in Write, w.by = a,
               stack' = [stack EXCEPT ![a][s].writes = @ \cup {w}]
        PROVE  OwnWrites'
    <3> DEFINE W == stack[a][s].writes \cup {w}
               st == [stack[a] EXCEPT ![s].writes = W]
    <3>1. W \in SUBSET Write
      BY RunFacts
    <3>2. st[s].writes = W /\ DOMAIN st = DOMAIN stack[a]
          /\ \A i \in DOMAIN stack[a] : i # s => st[i] = stack[a][i]
      <4> HIDE DEF W
      <4> QED BY <1>1, <3>1, WritesKeep
    <3>3. stack' = [stack EXCEPT ![a] = st]
      BY <1>1, <2>2
    <3>4. \A v \in W : v.by = a
      BY <1>2, <2>2
    <3> HIDE DEF st, W
    <3>5. \A i \in DOMAIN st : \A v \in st[i].writes : v.by = a
      BY <1>2, <3>2, <3>4
    <3> QED BY <3>3, <3>5, OwnWritesOf
  <2>3. Waiting(a) /\ pending[a] \in [session : Nat, row : Rows] /\ left[a] \in Nat
    BY <1>4 DEF Perform, Waiting, IInv, TypeOK
  <2>4. pending[a].session # 0 => pending[a].session \in DOMAIN stack[a]
    <3>1. pending[a].session \in {0, Current(a)} /\ TypeOK
      BY <2>3 DEF IInv, TypeOK
    <3> QED BY <3>1, CurrentIn
  <2>5. [by |-> a, left |-> left[a], row |-> pending[a].row] \in Write
    BY <2>3 DEF Write
  <2> QED BY <1>4, <2>1, <2>2, <2>4, <2>5 DEF Perform
<1>5. ASSUME NEW k \in DOMAIN stack[a], NEW how,
             stack' = [stack EXCEPT ![a][k].state = how]
      PROVE  OwnWrites'
  <2> DEFINE st == [stack[a] EXCEPT ![k].state = how]
  <2>1. stack[a][k] \in Run
    BY RunFacts
  <2>2. DOMAIN st = DOMAIN stack[a] /\ \A i \in DOMAIN stack[a] : st[i].writes = stack[a][i].writes
    BY <1>1, <2>1 DEF Run
  <2>3. stack' = [stack EXCEPT ![a] = st]
    BY <1>1, <1>5
  <2> HIDE DEF st
  <2>4. \A i \in DOMAIN st : \A w \in st[i].writes : w.by = a
    BY <1>2, <2>2
  <2> QED BY <2>3, <2>4, OwnWritesOf
<1>6. CASE Fail(a)
  <2>1. CASE UNCHANGED stack
    BY <2>1 DEF OwnWrites
  <2>2. ~(UNCHANGED stack) => pending[a].session \in DOMAIN stack[a]
    <3>1. pending[a].session \in {0, Current(a)} /\ TypeOK
      BY <1>6 DEF Fail, IInv, TypeOK
    <3> QED BY <1>6, <3>1, CurrentIn DEF Fail
  <2> QED BY <1>5, <1>6, <2>1, <2>2 DEF Fail
<1>7. CASE Lose(a)
  BY <1>5, <1>7 DEF Lose
<1>8. CASE Return(a) \/ Raise(a)
  <2> DEFINE st == Front(stack[a])
  <2>1. stack' = [stack EXCEPT ![a] = st] /\ stack[a] # <<>>
    BY <1>8 DEF Return, Raise, Commit, Leave, Leaving
  <2>2. \A i \in DOMAIN st : i \in DOMAIN stack[a] /\ st[i] = stack[a][i]
    BY <1>1, <2>1, FrontFacts
  <2> HIDE DEF st
  <2>3. \A i \in DOMAIN st : \A w \in st[i].writes : w.by = a
    BY <1>2, <2>2
  <2> QED BY <2>1, <2>3, OwnWritesOf
<1>9. CASE NotBegun(a) \/ \E row \in Rows : Issue(a, row)
  BY <1>9 DEF NotBegun, Issue, OwnWrites
<1> QED
  BY <1>3, <1>4, <1>6, <1>7, <1>8, <1>9 DEF Step

(* What a step lands is what the pool of Go commits at once, or what a run that *)
(* ends has written.                                                            *)
LEMMA LandsStep ==
    ASSUME IInv, OwnWrites, Next, NEW w \in landed'
    PROVE  \/ \E i \in Ending(w.by) : w \in stack[w.by][i].writes
           \/ w.by \in Joins /\ pending[w.by].session = 0
<1>1. PICK a \in Actors : Step(a)
  BY DEF Next, InitPool, Quiet
<1>2. Perform(a) \/ Return(a)
  BY <1>1 DEF Step, Begin, NotBegun, Issue, Fail, Lose, Raise, Quiet
<1>3. CASE Perform(a)
  BY <1>3 DEF Perform, PoolCommits
<1>4. CASE Return(a)
  <2> DEFINE n == Len(stack[a])
  <2>1. w \in Last(stack[a]).writes /\ stack' = [stack EXCEPT ![a] = Front(@)] /\ stack[a] # <<>>
    BY <1>4 DEF Return, Commit, Leave, Leaving
  <2>2. stack[a] \in Seq(Run) /\ stack'[a] = Front(stack[a])
    BY <2>1 DEF IInv, TypeOK
  <2>3. Len(stack'[a]) = n - 1 /\ Last(stack[a]) = stack[a][n] /\ n \in Nat \ {0}
    BY <2>1, <2>2, FrontFacts
  <2>4. n \in DOMAIN stack[a] /\ n > Len(stack'[a])
    BY <2>2, <2>3
  <2>5. w.by = a
    BY <2>1, <2>3, <2>4 DEF OwnWrites
  <2> QED BY <2>1, <2>3, <2>4, <2>5 DEF Ending
<1> QED
  BY <1>2, <1>3, <1>4

(* Nothing lands before the run it was written in ends, in Python the innermost  *)
(* one (db.py:39-52), in Go the outermost (tx.go:31-58); only Go's statements     *)
(* outside any run land at once (tx.go:63-74).                                    *)
THEOREM NothingLandsEarly == Spec => LandsWithItsRun
<1>1. Init => OwnWrites
  BY DEF Init, OwnWrites
<1>2. IInv /\ OwnWrites /\ [Next]_vars => OwnWrites'
  <2> SUFFICES ASSUME IInv, OwnWrites, [Next]_vars PROVE OwnWrites'
    OBVIOUS
  <2>1. CASE UNCHANGED stack
    BY <2>1 DEF OwnWrites
  <2> QED BY <2>1, OwnWritesKept DEF Next, InitPool, vars
<1>3. IInv /\ OwnWrites /\ [Next]_vars =>
        [\A w \in landed' \ landed :
            \/ \E i \in Ending(w.by) : w \in stack[w.by][i].writes
            \/ w.by \in Joins /\ pending[w.by].session = 0]_vars
  BY LandsStep
<1> QED
  BY <1>1, <1>2, <1>3, Invariance, PTL DEF Spec, LandsWithItsRun

(* Actors that wait for each other with the one session each of them holds    *)
(* are a deadlock PostgreSQL sees.                                            *)
LEMMA OneSessionIsSeen ==
    ASSUME IInv, TxAssumption, NEW S \in SUBSET Actors,
           S # {}, \A a \in S : RealNext(a) \cap S # {}, \A a \in S : ~TwoSessions(a)
    PROVE  Seen(S)
<1>1. ASSUME NEW a \in S PROVE Waiting(a)
  BY <1>1 DEF RealNext, HeldBack
<1>2. ASSUME NEW a \in S, NEW b \in RealNext(a) \cap S PROVE b \in SeenNext(a)
  <2>1. b \in Actors /\ Waiting(b) /\ ~TwoSessions(b)
    BY <1>1
  <2>2. PICK s \in HeldBack(a) : s[1] = b
    BY DEF RealNext
  <2>3. PICK i \in 0..MaxDepth : s = <<b, i>>
    BY <2>2 DEF HeldBack, Sessions
  <2>4. i \in DOMAIN stack[b] /\ stack[b][i].writes # {}
    BY <2>2, <2>3 DEF HeldBack, Holds
  <2>5. Len(stack[b]) \in Nat \ {0} /\ DOMAIN stack[b] = 1..Len(stack[b])
    BY <2>1, <2>4, RunFacts
  <2>6. CASE b \in Joins
    <3>1. i = 1
      <4>1. ~(i > 1)
        BY <2>4, <2>6 DEF IInv, JoinedEmpty
      <4>2. i \in Nat /\ i >= 1
        BY <2>4, <2>5
      <4> QED BY <4>1, <4>2
    <3>2. Current(b) = 1
      BY <2>5, <2>6 DEF Current
    <3> QED BY <2>1, <2>2, <2>3, <3>1, <3>2
            DEF IInv, WaitsWithCurrent, SeenNext, Waits, TwoSessions
  <2>7. CASE b \notin Joins
    <3> DEFINE n == Len(stack[b])
    <3>0. n \in Nat \ {0} /\ ~(n > 1)
      BY <2>1, <2>5, <2>7 DEF TwoSessions
    <3>1. n = 1
      <4> HIDE DEF n
      <4> QED BY <3>0
    <3>2. i = 1 /\ Current(b) = 1
      BY <2>4, <2>5, <2>7, <3>1 DEF Current
    <3> QED BY <2>1, <2>2, <2>3, <3>2
            DEF IInv, WaitsWithCurrent, SeenNext, Waits, TwoSessions
  <2> QED BY <2>6, <2>7
<1> QED
  BY <1>2 DEF Seen

(* Requests hang unseen by PostgreSQL only with a request among them that     *)
(* holds one session and waits with another: a nested run of Python           *)
(* (db.py:39-52), or a Go context from outside the run (tx.go:63-74).         *)
THEOREM HangNeedsTwoSessions == Spec => []HangsWithTwoSessions
<1>1. ASSUME IInv PROVE HangsWithTwoSessions
  BY <1>1, TxAssumption, OneSessionIsSeen DEF HangsWithTwoSessions, Unseen
<1> QED
  BY <1>1, Invariance, PTL
=============================================================================
