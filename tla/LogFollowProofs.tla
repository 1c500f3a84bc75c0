--------------------------- MODULE LogFollowProofs ---------------------------
(***************************************************************************)
(* Theorems about LogFollow: the pane keeps the log as it was written, no  *)
(* wake-up between the threads is lost, and a paused view stays on its     *)
(* text, for any sizes of file, pane and seed and any keys.                *)
(***************************************************************************)
EXTENDS LogFollow, SequenceTheorems, WellFoundedInduction, TLAPS

(* A set of numbers has a least one: all that is needed here of induction. *)
Below == {p \in Nat \X Nat : p[1] < p[2]}
LEMMA Least ==
  ASSUME NEW T, T \subseteq Nat, T # {}
  PROVE  \E x \in T : \A y \in T : x <= y
<1>1. IsWellFoundedOn(Below, Nat)
  BY NatLessThanWellFounded DEF OpToRel, Below
<1>2. PICK x \in T : \A y \in T : ~(<<y, x>> \in Below)
  BY <1>1, WFMin, Zenon
<1>3. \A y \in T : <<y, x>> \in Nat \X Nat /\ <<y, x>>[1] = y /\ <<y, x>>[2] = x
  OBVIOUS
<1>4. \A y \in T : ~(y < x)
  BY <1>2, <1>3 DEF Below
<1>. QED BY <1>4

(* Max and Min of two numbers, and of what is bounded.                     *)
LEMMA MinOf ==
  ASSUME NEW T, T \subseteq Nat, T # {}
  PROVE  Min(T) \in T /\ \A y \in T : Min(T) <= y
BY Least DEF Min

LEMMA MaxOf ==
  ASSUME NEW n \in Nat, NEW T, T \subseteq 0..n, T # {}
  PROVE  Max(T) \in T /\ \A y \in T : Max(T) >= y
<1>1. PICK D : D = {d \in 0..n : n - d \in T}
  OBVIOUS
<1>2. PICK x \in T : TRUE
  OBVIOUS
<1>3. D \subseteq Nat /\ \A y \in T : n - y \in D
  BY <1>1
<1>4. PICK d \in D : \A y \in D : d <= y
  BY <1>2, <1>3, Least
<1>5. n - d \in T /\ d \in 0..n
  BY <1>1
<1>6. \A y \in T : n - d >= y
  BY <1>3, <1>4, <1>5
<1>. QED BY <1>5, <1>6 DEF Max

LEMMA MaxTwo ==
  ASSUME NEW a \in Int, NEW b \in Int
  PROVE  Max({a, b}) = IF a >= b THEN a ELSE b
BY DEF Max

LEMMA MinTwo ==
  ASSUME NEW a \in Int, NEW b \in Int
  PROVE  Min({a, b}) = IF a <= b THEN a ELSE b
BY DEF Min

LEMMA LessIs ==
  ASSUME NEW n \in Int, NEW by \in Int
  PROVE  Less(n, by) = IF n >= by THEN n - by ELSE 0
BY MaxTwo DEF Less

-----------------------------------------------------------------------------
(* The invariant.                                                          *)

(* Types.                                                                  *)
Unit == Nat \X Nat
LogType == [there : BOOLEAN, gen : Nat, len : Nat]
TailType == [at : {"none", "seeds", "idle", "reads", "raises"}, offset : Nat, start : Nat]
BufType == [lines : Seq(Seq(Unit)), open : BOOLEAN, evicted : Nat, dropped : Nat]
SelType == [anchor : Nat, cursor : Nat]
SearchType == [dir : {"forward", "backward"}, hit : Nat \cup {None}]
ViewType == [offset : Nat, follow : BOOLEAN, sel : SelType \cup {None},
             search : SearchType \cup {None}]
ModeType == {Normal, Selecting} \cup
  [at : {"search"}, dir : {"forward", "backward"}, input : {"empty", "bad", "good"},
   offset : Nat, follow : BOOLEAN, search : SearchType \cup {None}]
UiType == {"seed", "draw", "writes", "top", "wait", "focus", "check", "due"}
PaneTyped ==
  /\ log \in LogType /\ tail \in TailType /\ buf \in BufType
  /\ view \in ViewType /\ mode \in ModeType /\ drag \in Nat \cup {None}
  /\ ui \in UiType /\ found \in Nat \cup {None}
  /\ dirty \in BOOLEAN /\ viewDirty \in BOOLEAN /\ left \in Int
  /\ DOMAIN frame = {"all", "shown"} /\ frame.all \in BOOLEAN
  /\ frame = [all |-> frame.all, shown |-> frame.shown]

(* What an event relies on.                                                *)
PlaceInv ==
  /\ drag # None => Size > 0
  /\ mode.at = "select" => view.sel # None
  /\ ui = "focus" => view.search # None /\ found # None /\ frame.shown = None

(* The view is where the last frame left it, less what the reader dropped  *)
(* and the main thread has folded in.                                      *)
Gone == buf.dropped - buf.evicted
StaysInv ==
  /\ buf.evicted <= buf.dropped
  /\ frame.shown # None =>
       /\ frame.shown.top \in Nat /\ view.offset = Less(frame.shown.top, Gone)
       /\ frame.shown.top <= buf.dropped + MaxScroll
       /\ frame.shown.sel # None =>
            /\ frame.shown.sel.anchor \in Nat /\ frame.shown.sel.cursor \in Nat
            /\ view.sel # None
            /\ view.sel = [anchor |-> Less(frame.shown.sel.anchor, Gone),
                           cursor |-> Less(frame.shown.sel.cursor, Gone)]
       /\ frame.shown.hit # None =>
            /\ frame.shown.hit \in Nat
            /\ view.search # None /\ view.search.hit = Less(frame.shown.hit, Gone)

(* The lines hold the log as it was written.                               *)
LastOf(lines) == lines[Len(lines)][Len(lines[Len(lines)])]
LinesWhole(lines) ==
  /\ \A i \in 1..Len(lines) : Whole(lines[i])
  /\ \A i \in 1..Len(lines) - 1 :
       EndsLine(Last(lines[i])) /\ Follows(Last(lines[i]), lines[i + 1][1])
BufWhole(b) ==
  /\ LinesWhole(b.lines)
  /\ b.lines = <<>> => ~b.open
  /\ b.lines # <<>> => (b.open <=> ~EndsLine(LastOf(b.lines)))
(* Where the reader goes on is where the lines end.                        *)
TailInv ==
  /\ BufWhole(buf)
  /\ tail.at \in {"none", "seeds"} => buf.lines = <<>>
  /\ buf.lines # <<>> =>
       LET u == LastOf(buf.lines) IN
       /\ u[1] <= log.gen
       /\ u[1] = log.gen => u[2] = tail.offset /\ u[2] <= log.len

(* The inductive invariant.                                                *)
PaneInv == PaneTyped /\ PlaceInv /\ StaysInv /\ TailInv /\ FrameDue

-----------------------------------------------------------------------------
(* What ingest makes of what was read.                                     *)

(* The recursive function of Puts is what its equation says: no shortest   *)
(* prefix of the units is without it.                                      *)
LEMMA PutsDefined ==
  ASSUME NEW units, Len(units) \in Nat
  PROVE  \E put : /\ DOMAIN put = 0..Len(units) /\ put[0] = buf
                  /\ \A n \in 1..Len(units) : put[n] = Put(put[n - 1], units[n])
                  /\ Puts(units) = put[Len(units)]
<1>. DEFINE Def(g, n) == IF n = 0 THEN buf ELSE Put(g[n - 1], units[n])
            N == Len(units)
            Is(g, m) == g = [n \in 0..m |-> Def(g, n)]
            Bad == {m \in 0..N : ~\E g : Is(g, m)}
<1>1. Bad = {}
  <2>. SUFFICES ASSUME Bad # {} PROVE FALSE
    OBVIOUS
  <2>1. PICK m \in Bad : \A y \in Bad : m <= y
    <3>. Bad \subseteq Nat
      OBVIOUS
    <3>. QED BY Least
  <2>2. CASE m = 0
    <3>. DEFINE g == [n \in 0..0 |-> buf]
    <3>1. g = [n \in 0..m |-> Def(g, n)]
      BY <2>2
    <3>. QED BY <2>1, <3>1
  <2>3. CASE m # 0
    <3>1. m - 1 \in 0..N /\ m \in 0..N /\ m - 1 \notin Bad
      BY <2>1, <2>3
    <3>2. PICK h : Is(h, m - 1)
      BY <3>1
    <3>. DEFINE g == [n \in 0..m |-> IF n = m THEN Put(h[m - 1], units[m]) ELSE h[n]]
    <3>3. \A n \in 0..m : g[n] = Def(g, n)
      <4>1. \A n \in 0..(m - 1) : h[n] = Def(h, n)
        BY <3>1, <3>2
      <4>. QED BY <4>1, <3>1, <2>3
    <3>4. Is(g, m)
      BY <3>3
    <3>. QED BY <2>1, <3>4
  <2>. QED BY <2>2, <2>3
<1>2. \E g : Is(g, N)
  BY <1>1
<1>3. PICK put : put = CHOOSE g : Is(g, N)
  OBVIOUS
<1>4. Is(put, N)
  BY <1>2, <1>3
<1>5. Puts(units) = put[N]
  BY <1>3 DEF Puts
<1>. QED BY <1>4, <1>5

(* One unit more goes on where the lines end.                              *)
LEMMA PutKeeps ==
  ASSUME NEW b \in BufType, BufWhole(b), NEW u \in Unit,
         b.lines # <<>> => Follows(LastOf(b.lines), u)
  PROVE  /\ Put(b, u) \in BufType /\ BufWhole(Put(b, u))
         /\ Put(b, u).lines # <<>> /\ LastOf(Put(b, u).lines) = u
         /\ Len(Put(b, u).lines) >= Len(b.lines)
         /\ Put(b, u).evicted = b.evicted /\ Put(b, u).dropped = b.dropped
<1>a. PICK L, n : L = b.lines /\ n = Len(L)
  OBVIOUS
<1>b. PICK new : new = IF b.open THEN [L EXCEPT ![n] = Append(L[n], u)] ELSE Append(L, <<u>>)
  OBVIOUS
<1>c. PICK ends : ends = ~EndsLine(u) /\ ends \in BOOLEAN
  BY DEF EndsLine
<1>0. /\ L \in Seq(Seq(Unit)) /\ n \in Nat /\ DOMAIN L = 1..n
      /\ \A i \in 1..n : L[i] \in Seq(Unit) /\ Len(L[i]) \in Nat /\ DOMAIN L[i] = 1..Len(L[i])
  BY <1>a DEF BufType
<1>1. /\ Put(b, u) = [b EXCEPT !.lines = new, !.open = ends]
      /\ Put(b, u).lines = new
      /\ Put(b, u) = [lines |-> new, open |-> ends, evicted |-> b.evicted, dropped |-> b.dropped]
  <2>1. Put(b, u) = [b EXCEPT !.lines = new, !.open = ends]
    BY <1>a, <1>b, <1>c DEF Put
  <2>. QED BY <2>1 DEF BufType
<1>d. LinesWhole(L) /\ (L = <<>> => ~b.open) /\ (L # <<>> => (b.open <=> ~EndsLine(LastOf(L))) /\ Follows(LastOf(L), u))
  BY <1>a DEF BufWhole
<1>2. \A i \in 1..n : L[i] # <<>> /\ Len(L[i]) >= 1
  BY <1>0, <1>d, EmptySeq DEF LinesWhole, Whole
<1>3. CASE b.open
  <2>1. n >= 1 /\ n \in 1..n
    BY <1>0, <1>3, <1>d, EmptySeq
  <2>2. PICK l \in Seq(Unit) : l = L[n]
    BY <1>0, <2>1
  <2>3. PICK m \in Nat : m = Len(l) /\ m >= 1
    BY <2>1, <2>2, <1>2
  <2>4. PICK l2 : l2 = Append(l, u)
    OBVIOUS
  <2>5. /\ l2 \in Seq(Unit) /\ Len(l2) = m + 1 /\ l2[m + 1] = u /\ l2 # <<>>
        /\ \A i \in 1..m : l2[i] = l[i]
    BY <2>2, <2>3, <2>4, AppendProperties
  <2>6. /\ new \in Seq(Seq(Unit)) /\ Len(new) = n /\ new[n] = l2
        /\ \A i \in 1..n - 1 : new[i] = L[i]
    BY <1>0, <1>b, <1>3, <2>1, <2>2, <2>4, <2>5, ExceptSeq
  <2>7. LastOf(L) = l[m] /\ LastOf(new) = u
    BY <1>a, <2>2, <2>3, <2>5, <2>6 DEF LastOf
  <2>8. ~EndsLine(l[m]) /\ Follows(l[m], u)
    BY <1>0, <1>3, <1>d, <2>1, <2>7, EmptySeq
  <2>9. Whole(l2)
    <3>1. Whole(l)
      BY <1>a, <1>d, <2>1, <2>2 DEF LinesWhole
    <3>. SUFFICES ASSUME NEW k \in 1..Len(l2) - 1 PROVE Follows(l2[k], l2[k + 1]) /\ ~EndsLine(l2[k])
      BY <2>5 DEF Whole
    <3>2. CASE k = m
      BY <3>2, <2>5, <2>8, <2>3
    <3>3. CASE k # m
      <4>. k \in 1..m - 1 /\ k \in 1..m /\ k + 1 \in 1..m
        BY <3>3, <2>5, <2>3
      <4>. QED BY <3>1, <2>5, <2>3 DEF Whole
    <3>. QED BY <3>2, <3>3
  <2>10. LinesWhole(new)
    <3>1. \A i \in 1..Len(new) : Whole(new[i])
      <4>. SUFFICES ASSUME NEW i \in 1..n PROVE Whole(new[i])
        BY <2>6
      <4>1. CASE i = n
        BY <4>1, <2>6, <2>9
      <4>2. CASE i # n
        <5>1. i \in 1..n - 1 /\ new[i] = L[i]
          BY <4>2, <2>6, <1>0
        <5>2. Whole(L[i])
          BY <1>a, <1>d DEF LinesWhole
        <5>. QED BY <5>1, <5>2
      <4>. QED BY <4>1, <4>2
    <3>2. \A i \in 1..n - 1 : Last(new[i]) = Last(L[i]) /\ i \in 1..n
      BY <2>6
    <3>3. \A i \in 1..n - 1 : new[i + 1][1] = L[i + 1][1]
      <4>. SUFFICES ASSUME NEW i \in 1..n - 1 PROVE new[i + 1][1] = L[i + 1][1]
        OBVIOUS
      <4>1. CASE i + 1 = n
        BY <4>1, <2>2, <2>3, <2>5, <2>6
      <4>2. CASE i + 1 # n
        BY <4>2, <2>6, <1>0
      <4>. QED BY <4>1, <4>2
    <3>. QED BY <2>6, <3>1, <3>2, <3>3, <1>a, <1>d DEF LinesWhole
  <2>11. new # <<>>
    BY <2>6, <2>1, EmptySeq
  <2>a. ends \in BOOLEAN /\ (ends <=> ~EndsLine(u))
    BY <1>c
  <2>b. Put(b, u) \in BufType
    BY <1>1, <2>a, <2>6, <2>7, <2>10, <2>11 DEF BufType
  <2>c. BufWhole(Put(b, u))
    BY <1>1, <2>a, <2>6, <2>7, <2>10, <2>11 DEF BufWhole
  <2>. QED BY <1>1, <1>a, <1>0, <2>b, <2>c, <2>6, <2>7, <2>10, <2>11
<1>4. CASE ~b.open
  <2>1. <<u>> \in Seq(Unit) /\ Len(<<u>>) = 1 /\ <<u>>[1] = u /\ <<u>> # <<>>
    OBVIOUS
  <2>2. /\ new \in Seq(Seq(Unit)) /\ Len(new) = n + 1 /\ new[n + 1] = <<u>> /\ new # <<>>
        /\ \A i \in 1..n : new[i] = L[i]
    <3>1. new = Append(L, <<u>>)
      BY <1>b, <1>4
    <3>2. PICK S, v : S = Seq(Unit) /\ v = <<u>>
      OBVIOUS
    <3>3. L \in Seq(S) /\ v \in S /\ new = Append(L, v)
      BY <3>1, <3>2, <1>0, <2>1
    <3>4. /\ new \in Seq(S) /\ new # <<>> /\ Len(new) = Len(L) + 1
          /\ \A i \in 1..Len(L) : new[i] = L[i]
          /\ new[Len(L) + 1] = v
      BY <3>3, AppendProperties
    <3>. QED BY <3>2, <3>4, <1>a
  <2>3. LastOf(new) = u
    BY <2>1, <2>2 DEF LastOf
  <2>4. Whole(<<u>>)
    BY <2>1 DEF Whole
  <2>5. \A i \in 1..Len(new) : Whole(new[i])
    <3>. SUFFICES ASSUME NEW i \in 1..n + 1 PROVE Whole(new[i])
      BY <2>2
    <3>1. CASE i = n + 1
      BY <3>1, <2>2, <2>4
    <3>2. CASE i # n + 1
      <4>1. i \in 1..n /\ new[i] = L[i]
        BY <3>2, <2>2, <1>0
      <4>2. Whole(L[i])
        BY <4>1, <1>a, <1>d DEF LinesWhole
      <4>. QED BY <4>1, <4>2
    <3>. QED BY <3>1, <3>2
  <2>6. \A i \in 1..n : EndsLine(Last(new[i])) /\ Follows(Last(new[i]), new[i + 1][1])
    <3>. SUFFICES ASSUME NEW i \in 1..n
                  PROVE  EndsLine(Last(new[i])) /\ Follows(Last(new[i]), new[i + 1][1])
      OBVIOUS
    <3>1. CASE i = n
      <4>1. L # <<>>
        BY <3>1, <1>0, EmptySeq
      <4>2. Last(new[n]) = LastOf(L)
        BY <3>1, <2>2, <1>a DEF LastOf, Last
      <4>. QED BY <3>1, <4>1, <4>2, <2>1, <2>2, <1>4, <1>d
    <3>2. CASE i # n
      <4>. i \in 1..n - 1 /\ i + 1 \in 1..n
        BY <3>2, <1>0
      <4>. QED BY <2>2, <1>a, <1>d DEF LinesWhole
    <3>. QED BY <3>1, <3>2
  <2>7. LinesWhole(new)
    <3>1. Len(new) - 1 = n
      BY <2>2, <1>0
    <3>. QED BY <3>1, <2>5, <2>6 DEF LinesWhole
  <2>a. ends \in BOOLEAN /\ (ends <=> ~EndsLine(u))
    BY <1>c
  <2>b. Put(b, u) \in BufType
    BY <1>1, <2>a, <2>2, <2>3, <2>7 DEF BufType
  <2>c. BufWhole(Put(b, u))
    BY <1>1, <2>a, <2>2, <2>3, <2>7 DEF BufWhole
  <2>. QED BY <1>1, <1>a, <1>0, <2>b, <2>c, <2>2, <2>3, <2>7
<1>. QED BY <1>3, <1>4 DEF BufType

(* Each unit goes on where the one before ended.                           *)
Chain(units) == \A i \in 1..Len(units) - 1 : Follows(units[i], units[i + 1])
Continues(units) ==
  /\ units \in Seq(Unit) /\ Chain(units)
  /\ buf.lines # <<>> /\ units # <<>> => Follows(LastOf(buf.lines), units[1])

(* By induction along the units.                                           *)
LEMMA PutsKeep ==
  ASSUME buf \in BufType, BufWhole(buf), NEW units, Continues(units)
  PROVE  /\ Puts(units) \in BufType /\ BufWhole(Puts(units))
         /\ Len(Puts(units).lines) >= Size
         /\ Puts(units).evicted = buf.evicted /\ Puts(units).dropped = buf.dropped
         /\ units = <<>> => Puts(units) = buf
         /\ units # <<>> =>
              Puts(units).lines # <<>> /\ LastOf(Puts(units).lines) = units[Len(units)]
<1>1. units \in Seq(Unit) /\ Len(units) \in Nat /\ Size \in Nat
  BY DEF Continues, Size, BufType
<1>2. PICK put : /\ DOMAIN put = 0..Len(units) /\ put[0] = buf
                 /\ \A n \in 1..Len(units) : put[n] = Put(put[n - 1], units[n])
                 /\ Puts(units) = put[Len(units)]
  BY <1>1, PutsDefined
<1>. DEFINE Good(n) ==
       /\ put[n] \in BufType /\ BufWhole(put[n]) /\ Len(put[n].lines) >= Size
       /\ put[n].evicted = buf.evicted /\ put[n].dropped = buf.dropped
       /\ n = 0 => put[n] = buf
       /\ n # 0 => put[n].lines # <<>> /\ LastOf(put[n].lines) = units[n]
<1>3. Good(0)
  BY <1>1, <1>2 DEF Size
<1>4. ASSUME NEW n \in 1..Len(units), Good(n - 1) PROVE Good(n)
  <2>1. PICK b \in BufType, u \in Unit : b = put[n - 1] /\ u = units[n]
    BY <1>1, <1>4
  <2>2. b.lines # <<>> => Follows(LastOf(b.lines), u)
    <3>1. CASE n = 1
      <4>. b = buf /\ u = units[1] /\ units # <<>>
        BY <1>1, <1>2, <2>1, <3>1
      <4>. QED BY DEF Continues
    <3>2. CASE n # 1
      <4>1. n - 1 \in 1..Len(units) - 1 /\ n - 1 # 0 /\ (n - 1) + 1 = n
        BY <1>1, <3>2
      <4>2. Follows(units[n - 1], units[n])
        BY <4>1 DEF Continues, Chain
      <4>. QED BY <1>4, <2>1, <4>1, <4>2
    <3>. QED BY <3>1, <3>2
  <2>3. put[n] = Put(b, u)
    BY <1>2, <2>1
  <2>4. BufWhole(b) /\ Len(b.lines) >= Size /\ b.evicted = buf.evicted /\ b.dropped = buf.dropped
    BY <1>4, <2>1
  <2>5. /\ put[n] \in BufType /\ BufWhole(put[n])
        /\ put[n].lines # <<>> /\ LastOf(put[n].lines) = u
        /\ Len(put[n].lines) >= Len(b.lines)
        /\ put[n].evicted = b.evicted /\ put[n].dropped = b.dropped
    BY <2>2, <2>3, <2>4, PutKeeps
  <2>6. Len(put[n].lines) \in Nat /\ Len(b.lines) \in Nat
    BY <2>5 DEF BufType
  <2>. QED BY <1>1, <2>1, <2>4, <2>5, <2>6
<1>5. \A n \in 0..Len(units) : Good(n)
  <2>1. PICK T : T = {n \in 0..Len(units) : ~Good(n)}
    OBVIOUS
  <2>. SUFFICES ASSUME T # {} PROVE FALSE
    BY <2>1
  <2>2. T \subseteq Nat
    BY <1>1, <2>1
  <2>3. PICK m \in T : \A y \in T : m <= y
    BY <2>2, Least
  <2>4. m \in 0..Len(units) /\ ~Good(m)
    BY <2>1
  <2>5. m # 0
    BY <1>3, <2>4
  <2>6. m \in 1..Len(units) /\ m - 1 \in 0..Len(units) /\ m - 1 \notin T
    BY <1>1, <2>2, <2>3, <2>4, <2>5
  <2>7. Good(m - 1)
    BY <2>1, <2>6
  <2>. QED BY <1>4, <2>4, <2>6, <2>7
<1>6. Good(Len(units)) /\ (units = <<>> <=> Len(units) = 0)
  BY <1>1, <1>5
<1>. QED BY <1>2, <1>6

(* The newest lines of those there are.                                    *)
LEMMA DropKeeps ==
  ASSUME NEW lines \in Seq(Seq(Unit)), LinesWhole(lines), NEW k \in Nat,
         k < Len(lines) \/ k = 0
  PROVE  LET rest == SubSeq(lines, k + 1, Len(lines)) IN
         /\ rest \in Seq(Seq(Unit)) /\ Len(rest) = Len(lines) - k /\ LinesWhole(rest)
         /\ lines = <<>> <=> rest = <<>>
         /\ lines # <<>> => LastOf(rest) = LastOf(lines)
<1>0. Len(lines) \in Nat /\ (lines = <<>> <=> Len(lines) = 0)
  <2>1. PICK S : S = Seq(Unit)
    OBVIOUS
  <2>. QED BY <2>1, EmptySeq, LenProperties
<1>1. PICK n : n = Len(lines) /\ n \in Nat /\ (lines = <<>> <=> n = 0)
  BY <1>0
<1>2. PICK rest : rest = SubSeq(lines, k + 1, n)
  OBVIOUS
<1>3. \A i \in k + 1 .. n : lines[i] \in Seq(Unit)
  BY <1>1
<1>4. /\ rest \in Seq(Seq(Unit)) /\ Len(rest) = n - k
      /\ \A i \in 1..n - k : rest[i] = lines[i + k]
  <2>1. PICK S, j : S = Seq(Unit) /\ j = k + 1 /\ j \in Int
    OBVIOUS
  <2>2. /\ rest \in Seq(S) /\ Len(rest) = IF j <= n THEN n - j + 1 ELSE 0
        /\ \A i \in 1..n - j + 1 : rest[i] = lines[j + i - 1]
    <3>1. lines \in Seq(S) /\ j \in Int /\ n \in Int /\ rest = SubSeq(lines, j, n)
      BY <1>1, <1>2, <2>1
    <3>2. \A i \in j..n : lines[i] \in S
      BY <1>3, <2>1
    <3>. QED BY <3>1, <3>2, SubSeqProperties
  <2>3. Len(rest) = n - k
    BY <1>1, <2>1, <2>2
  <2>4. \A i \in 1..n - k : j + i - 1 = i + k /\ i \in 1..n - j + 1
    BY <1>1, <2>1
  <2>. QED BY <2>1, <2>2, <2>3, <2>4
<1>5. \A i \in 1..n - k : Whole(rest[i])
  <2>. SUFFICES ASSUME NEW i \in 1..n - k PROVE Whole(rest[i])
    OBVIOUS
  <2>1. i + k \in 1..n /\ rest[i] = lines[i + k]
    BY <1>1, <1>4
  <2>2. Whole(lines[i + k])
    BY <1>1, <2>1 DEF LinesWhole
  <2>. QED BY <2>1, <2>2
<1>6. \A i \in 1..n - k - 1 : EndsLine(Last(rest[i])) /\ Follows(Last(rest[i]), rest[i + 1][1])
  <2>. SUFFICES ASSUME NEW i \in 1..n - k - 1
                PROVE  EndsLine(Last(rest[i])) /\ Follows(Last(rest[i]), rest[i + 1][1])
    OBVIOUS
  <2>1. /\ i \in 1..n - k /\ i + 1 \in 1..n - k /\ i + k \in 1..n - 1
        /\ (i + 1) + k = (i + k) + 1
    BY <1>1
  <2>2. rest[i] = lines[i + k] /\ rest[i + 1] = lines[(i + k) + 1]
    BY <1>4, <2>1
  <2>. QED BY <1>1, <2>1, <2>2 DEF LinesWhole
<1>7. LinesWhole(rest)
  BY <1>4, <1>5, <1>6 DEF LinesWhole
<1>8. lines = <<>> <=> rest = <<>>
  BY <1>1, <1>4
<1>9. lines # <<>> => LastOf(rest) = LastOf(lines)
  <2>. SUFFICES ASSUME lines # <<>> PROVE rest[Len(rest)] = lines[Len(lines)]
    BY DEF LastOf
  <2>1. n - k \in 1..n - k /\ (n - k) + k = n
    BY <1>1
  <2>. QED BY <1>1, <1>4, <2>1
<1>. QED BY <1>1, <1>2, <1>4, <1>7, <1>8, <1>9

(* What is dropped at the front does not cost the end.                     *)
LEMMA IngestKeeps ==
  ASSUME LogAssumption, buf \in BufType, BufWhole(buf), NEW units, Continues(units)
  PROVE  LET b == Ingest(units) IN
         /\ b \in BufType /\ BufWhole(b)
         /\ b.dropped >= buf.dropped /\ b.dropped - b.evicted = buf.dropped - buf.evicted
         /\ b.dropped + Less(Len(b.lines), Height) >= buf.dropped + MaxScroll
         /\ buf.lines # <<>> => b.lines # <<>>
         /\ units = <<>> =>
              /\ b.lines = <<>> <=> buf.lines = <<>>
              /\ buf.lines # <<>> => LastOf(b.lines) = LastOf(buf.lines)
         /\ units # <<>> => b.lines # <<>> /\ LastOf(b.lines) = units[Len(units)]
<1>1. PICK a \in BufType : a = Puts(units)
  BY PutsKeep
<1>2. PICK over : over = Less(Len(a.lines), MaxLines)
  OBVIOUS
<1>3. /\ Len(a.lines) \in Nat /\ Size \in Nat /\ MaxLines \in Nat \ {0} /\ Height \in Nat
      /\ a.lines \in Seq(Seq(Unit)) /\ buf.lines \in Seq(Seq(Unit)) /\ a.evicted \in Nat /\ a.dropped \in Nat
  BY DEF BufType, Size, LogAssumption
<1>4. over \in Nat /\ (over < Len(a.lines) \/ over = 0) /\ (over # 0 => Len(a.lines) - over = MaxLines)
  <2>1. over = IF Len(a.lines) >= MaxLines THEN Len(a.lines) - MaxLines ELSE 0
    BY <1>2, <1>3, LessIs
  <2>. QED BY <1>3, <2>1
<1>5. PICK rest : rest = SubSeq(a.lines, over + 1, Len(a.lines))
  OBVIOUS
<1>6. /\ BufWhole(a) /\ Len(a.lines) >= Size
      /\ a.evicted = buf.evicted /\ a.dropped = buf.dropped
      /\ units = <<>> => a = buf
      /\ units # <<>> => a.lines # <<>> /\ LastOf(a.lines) = units[Len(units)]
  BY <1>1, PutsKeep
<1>7. /\ rest \in Seq(Seq(Unit)) /\ Len(rest) = Len(a.lines) - over /\ LinesWhole(rest)
      /\ a.lines = <<>> <=> rest = <<>>
      /\ a.lines # <<>> => LastOf(rest) = LastOf(a.lines)
  BY <1>3, <1>4, <1>5, <1>6, DropKeeps DEF BufWhole
<1>8. PICK b : b = Ingest(units)
  OBVIOUS
<1>9. b = [lines |-> rest, open |-> a.open, evicted |-> a.evicted + over, dropped |-> a.dropped + over]
  BY <1>1, <1>2, <1>5, <1>8 DEF Ingest, BufType
<1>10. b \in BufType
  <2>1. a.evicted + over \in Nat /\ a.dropped + over \in Nat /\ a.open \in BOOLEAN
    BY <1>3, <1>4 DEF BufType
  <2>. QED BY <1>7, <1>9, <2>1 DEF BufType
<1>11. BufWhole(b)
  BY <1>6, <1>7, <1>9 DEF BufWhole
<1>12. buf.lines # <<>> => a.lines # <<>>
  BY <1>3, <1>6 DEF Size
<1>13. b.dropped + Less(Len(rest), Height) >= buf.dropped + MaxScroll
  <2>1. MaxScroll = IF Size >= Height THEN Size - Height ELSE 0
    BY <1>3, LessIs DEF MaxScroll
  <2>2. Less(Len(rest), Height) = IF Len(rest) >= Height THEN Len(rest) - Height ELSE 0
    <3>1. PICK l : l = Len(rest)
      OBVIOUS
    <3>2. l = Len(a.lines) - over
      BY <1>7, <3>1
    <3>3. l \in Int /\ Height \in Int
      BY <1>3, <1>4, <3>2
    <3>4. Less(l, Height) = IF l >= Height THEN l - Height ELSE 0
      BY <3>3, LessIs
    <3>. QED BY <3>1, <3>4
  <2>3. b.dropped = buf.dropped + over /\ buf.dropped \in Nat
    BY <1>3, <1>6, <1>9
  <2>4. PICK was \in Nat, all \in Nat, h \in Nat, d \in Nat :
          was = Size /\ all = Len(a.lines) /\ h = Height /\ d = buf.dropped
    BY <1>3, <2>3
  <2>5. /\ Len(rest) = all - over /\ all >= was
        /\ MaxScroll = IF was >= h THEN was - h ELSE 0
        /\ Less(Len(rest), Height) = IF all - over >= h THEN all - over - h ELSE 0
    BY <1>6, <1>7, <2>1, <2>2, <2>4
  <2>6. PICK more, less : more = Less(Len(rest), Height) /\ less = MaxScroll
    OBVIOUS
  <2>7. /\ more = IF all - over >= h THEN all - over - h ELSE 0
        /\ less = IF was >= h THEN was - h ELSE 0
        /\ all >= was /\ over \in Nat
    BY <1>4, <2>5, <2>6
  <2>8. d + over + more >= d + less
    BY <2>4, <2>7
  <2>. QED BY <2>3, <2>4, <2>6, <2>8
<1>14. b.dropped >= buf.dropped /\ b.dropped - b.evicted = buf.dropped - buf.evicted
  BY <1>3, <1>4, <1>6, <1>9
<1>. QED BY <1>6, <1>7, <1>8, <1>9, <1>10, <1>11, <1>12, <1>13, <1>14

(* What one read returns.                                                  *)
LEMMA ReadFromIs ==
  ASSUME log \in LogType, NEW o \in Nat
  PROVE  LET units == ReadFrom(o) IN
         /\ units \in Seq(Unit) /\ Chain(units)
         /\ Len(units) = IF log.len >= o THEN log.len - o ELSE 0
         /\ \A i \in 1..Len(units) : units[i] = <<log.gen, o + i>>
<1>1. PICK n \in Nat : n = (IF log.len >= o THEN log.len - o ELSE 0) /\ n = Less(log.len, o)
  BY LessIs DEF LogType
<1>2. PICK units : units = ReadFrom(o)
  OBVIOUS
<1>3. units = [i \in 1..n |-> <<log.gen, o + i>>]
  BY <1>1, <1>2 DEF ReadFrom
<1>4. /\ units \in Seq(Unit) /\ Len(units) = n
      /\ \A i \in 1..n : units[i] = <<log.gen, o + i>>
  BY <1>3 DEF Unit, LogType
<1>5. Chain(units)
  <2>. SUFFICES ASSUME NEW i \in 1..n - 1 PROVE Follows(units[i], units[i + 1])
    BY <1>1, <1>4 DEF Chain
  <2>1. units[i] = <<log.gen, o + i>> /\ units[i + 1] = <<log.gen, o + i + 1>>
    BY <1>4
  <2>. QED BY <2>1 DEF Follows
<1>. QED BY <1>1, <1>2, <1>4, <1>5

(* The window without the line it starts in the middle of.                 *)
LEMMA FragmentGoes ==
  ASSUME NEW units \in Seq(Unit), Chain(units)
  PROVE  LET rest == WithoutFragment(units) IN
         /\ rest \in Seq(Unit) /\ Chain(rest)
         /\ rest # <<>> => units # <<>> /\ rest[Len(rest)] = units[Len(units)]
<1>1. PICK n \in Nat : n = Len(units) /\ DOMAIN units = 1..n
  BY LenProperties
<1>2. PICK k : k = SelectInSeq(units, EndsLine)
  OBVIOUS
<1>3. k \in 0..n
  <2>1. PICK I : I = {i \in 1..Len(units) : EndsLine(units[i])}
    OBVIOUS
  <2>2. k = IF I # {} THEN Min(I) ELSE 0
    BY <1>2, <2>1 DEF SelectInSeq
  <2>3. I \subseteq 1..n /\ I \subseteq Nat
    BY <1>1, <2>1
  <2>4. I # {} => Min(I) \in I
    BY <2>3, MinOf
  <2>5. CASE I = {}
    BY <1>1, <2>2, <2>5
  <2>6. CASE I # {}
    <3>1. k = Min(I)
      BY <2>2, <2>6
    <3>2. k \in I
      BY <2>4, <2>6, <3>1
    <3>3. I \subseteq 0..n
      BY <1>1, <2>3
    <3>. QED BY <3>2, <3>3
  <2>. QED BY <2>5, <2>6
<1>4. PICK m \in {0, n} : WithoutFragment(units) = SubSeq(units, k + 1, m)
  BY <1>1, <1>2 DEF WithoutFragment
<1>5. PICK rest : rest = WithoutFragment(units)
  OBVIOUS
<1>6. \A i \in k + 1 .. m : units[i] \in Unit
  BY <1>1, <1>3
<1>7. /\ rest \in Seq(Unit) /\ Len(rest) = (IF k + 1 <= m THEN m - k ELSE 0)
      /\ \A i \in 1..m - k : rest[i] = units[i + k]
  <2>1. PICK j \in Int : j = k + 1
    BY <1>3
  <2>2. /\ rest \in Seq(Unit) /\ Len(rest) = IF j <= m THEN m - j + 1 ELSE 0
        /\ \A i \in 1..m - j + 1 : rest[i] = units[j + i - 1]
    BY <1>1, <1>4, <1>5, <1>6, <2>1, SubSeqProperties
  <2>3. \A i \in 1..m - k : j + i - 1 = i + k /\ i \in 1..m - j + 1
    BY <1>1, <1>3, <2>1
  <2>. QED BY <1>1, <1>3, <2>1, <2>2, <2>3
<1>8. Chain(rest)
  <2>. SUFFICES ASSUME NEW i \in 1..Len(rest) - 1 PROVE Follows(rest[i], rest[i + 1])
    BY DEF Chain
  <2>1. m = n /\ i \in 1..m - k /\ i + 1 \in 1..m - k /\ i + k \in 1..n - 1 /\ (i + 1) + k = (i + k) + 1
    BY <1>1, <1>3, <1>7
  <2>. QED BY <1>1, <1>7, <2>1 DEF Chain
<1>9. ASSUME rest # <<>> PROVE units # <<>> /\ rest[Len(rest)] = units[Len(units)]
  <2>1. Len(rest) # 0 /\ Len(rest) \in Nat
    BY <1>7, <1>9
  <2>2. m = n /\ n # 0 /\ Len(rest) \in 1..m - k /\ Len(rest) + k = n
    BY <1>1, <1>3, <1>7, <2>1
  <2>. QED BY <1>1, <1>7, <2>2
<1>. QED BY <1>5, <1>7, <1>8, <1>9

LEMMA LastIsUnit ==
  ASSUME NEW lines \in Seq(Seq(Unit)), LinesWhole(lines), lines # <<>>
  PROVE  LastOf(lines) \in Unit
<1>1. PICK n \in Nat : n = Len(lines) /\ n # 0
  <2>1. PICK S : S = Seq(Unit)
    OBVIOUS
  <2>. QED BY <2>1, EmptySeq, LenProperties
<1>2. lines[n] \in Seq(Unit) /\ lines[n] # <<>>
  BY <1>1 DEF LinesWhole, Whole
<1>3. Len(lines[n]) \in 1..Len(lines[n])
  BY <1>2
<1>. QED BY <1>1, <1>2, <1>3 DEF LastOf

(* New lines at the back of the pane, and old ones off its front.          *)
LEMMA LandKeeps ==
  ASSUME LogAssumption, PaneInv, NEW units, Continues(units), buf' = Ingest(units),
         UNCHANGED <<view, drag, mode, found>>, ui' = ui \/ ui' # "focus",
         frame'.shown = frame.shown
  PROVE  /\ buf' \in BufType /\ BufWhole(buf') /\ PlaceInv' /\ StaysInv'
         /\ buf.lines # <<>> => buf'.lines # <<>>
         /\ units = <<>> =>
              /\ buf'.lines = <<>> <=> buf.lines = <<>>
              /\ buf.lines # <<>> => LastOf(buf'.lines) = LastOf(buf.lines)
         /\ units # <<>> => buf'.lines # <<>> /\ LastOf(buf'.lines) = units[Len(units)]
<1>1. buf \in BufType /\ BufWhole(buf)
  BY DEF PaneInv, PaneTyped, TailInv
<1>2. /\ buf' \in BufType /\ BufWhole(buf')
      /\ buf'.dropped >= buf.dropped /\ Gone' = Gone
      /\ buf'.dropped + MaxScroll' >= buf.dropped + MaxScroll
      /\ buf.lines # <<>> => buf'.lines # <<>>
      /\ units = <<>> =>
           /\ buf'.lines = <<>> <=> buf.lines = <<>>
           /\ buf.lines # <<>> => LastOf(buf'.lines) = LastOf(buf.lines)
      /\ units # <<>> => buf'.lines # <<>> /\ LastOf(buf'.lines) = units[Len(units)]
  <2>1. MaxScroll' = Less(Len(buf'.lines), Height)
    BY DEF MaxScroll, Size
  <2>. QED BY <1>1, <2>1, IngestKeeps DEF Gone
<1>3. /\ Size \in Nat /\ Size' \in Nat /\ (Size > 0 <=> buf.lines # <<>>)
      /\ (Size' > 0 <=> buf'.lines # <<>>)
  BY <1>1, <1>2 DEF Size, BufType
<1>4. PlaceInv'
  BY <1>2, <1>3 DEF PaneInv, PlaceInv
<1>5. buf'.evicted <= buf'.dropped
  BY <1>1, <1>2 DEF PaneInv, StaysInv, Gone, BufType
<1>6. MaxScroll \in Int /\ MaxScroll' \in Int
  <2>0. Height \in Nat
    BY DEF LogAssumption
  <2>1. MaxScroll = IF Size >= Height THEN Size - Height ELSE 0
    <3>1. PICK s \in Int : s = Size
      BY <1>3
    <3>2. MaxScroll = Less(s, Height)
      BY <3>1 DEF MaxScroll
    <3>. QED BY <2>0, <3>1, <3>2, LessIs
  <2>2. MaxScroll' = IF Size' >= Height THEN Size' - Height ELSE 0
    <3>1. PICK s \in Int : s = Size'
      BY <1>3
    <3>2. MaxScroll' = Less(s, Height)
      BY <3>1 DEF MaxScroll
    <3>. QED BY <2>0, <3>1, <3>2, LessIs
  <2>. QED BY <1>3, <2>0, <2>1, <2>2
<1>7. frame.shown # None => frame.shown.top <= buf'.dropped + MaxScroll'
  BY <1>1, <1>2, <1>6 DEF PaneInv, StaysInv, BufType
<1>8. StaysInv'
  BY <1>2, <1>5, <1>7 DEF PaneInv, StaysInv
<1>. QED BY <1>2, <1>4, <1>8

-----------------------------------------------------------------------------
(* The file and the reader.                                                *)

LEMMA WriteKeeps ==
  ASSUME PaneInv, Write \/ Cut
  PROVE  PaneInv'
<1>. USE DEF PaneInv
<1>1. /\ UNCHANGED <<tail, buf, view, mode, drag, ui, found, dirty, viewDirty, frame>>
      /\ left' \in Int /\ log' \in LogType
      /\ log'.gen >= log.gen /\ (log'.gen = log.gen => log'.len >= log.len)
  <2>1. CASE Write
    <3>1. PICK n \in Nat : n = log.len + 1
      BY DEF PaneTyped, LogType
    <3>2. log' = [log EXCEPT !.there = TRUE, !.len = n]
      BY <2>1, <3>1 DEF Write
    <3>a. PICK l \in LogType : l = log
      BY DEF PaneTyped
    <3>3. log' \in LogType /\ log'.gen = log.gen /\ log'.len = n /\ n >= log.len /\ log.gen \in Nat
      <4>1. /\ l.there \in BOOLEAN /\ l.gen \in Nat /\ l.len \in Nat
            /\ l = [there |-> l.there, gen |-> l.gen, len |-> l.len]
        BY DEF LogType
      <4>2. log' = [there |-> TRUE, gen |-> l.gen, len |-> n]
        BY <3>2, <3>a, <4>1
      <4>3. log' \in LogType
        BY <4>1, <4>2 DEF LogType
      <4>. QED BY <3>1, <3>a, <4>1, <4>2, <4>3
    <3>4. left' \in Int
      BY <2>1 DEF Write, PaneTyped
    <3>. QED BY <2>1, <3>3, <3>4 DEF Write
  <2>2. CASE Cut
    <3>1. PICK n \in Nat : n = log.gen + 1
      BY DEF PaneTyped, LogType
    <3>2. log' = [log EXCEPT !.gen = n, !.len = 0]
      BY <2>2, <3>1 DEF Cut
    <3>a. PICK l \in LogType : l = log
      BY DEF PaneTyped
    <3>3. log' \in LogType /\ log'.gen = n /\ n > log.gen /\ log.gen \in Nat
      <4>1. /\ l.there \in BOOLEAN /\ l.gen \in Nat /\ l.len \in Nat
            /\ l = [there |-> l.there, gen |-> l.gen, len |-> l.len]
        BY DEF LogType
      <4>2. log' = [there |-> l.there, gen |-> n, len |-> 0]
        BY <3>2, <3>a, <4>1
      <4>3. log' \in LogType
        BY <4>1, <4>2 DEF LogType
      <4>. QED BY <3>1, <3>a, <4>1, <4>2, <4>3
    <3>4. left' \in Int
      BY <2>2 DEF Cut, PaneTyped
    <3>. QED BY <2>2, <3>3, <3>4 DEF Cut
  <2>. QED BY <2>1, <2>2
<1>2. PaneTyped'
  BY <1>1 DEF PaneTyped
<1>3. PlaceInv' /\ FrameDue'
  BY <1>1 DEF PlaceInv, FrameDue, Size
<1>4. StaysInv'
  BY <1>1 DEF StaysInv, Gone, MaxScroll, Size
<1>5. TailInv'
  <2>1. buf.lines # <<>> => LastOf(buf.lines) \in Unit
    BY LastIsUnit DEF PaneTyped, BufType, TailInv, BufWhole
  <2>. QED BY <1>1, <2>1 DEF TailInv, PaneTyped, LogType, Unit, BufWhole
<1>. QED BY <1>2, <1>3, <1>4, <1>5

LEMMA LooksKeep ==
  ASSUME LogAssumption, PaneInv, SeedLooks \/ Poll \/ Raise
  PROVE  PaneInv'
<1>. USE DEF PaneInv
<1>1. /\ UNCHANGED <<log, buf, view, mode, drag, found, viewDirty, frame, left>>
      /\ ui' = ui \/ (ui = "seed" /\ ui' = "draw")
      /\ dirty' \in BOOLEAN /\ (dirty => dirty') /\ (tail.at = "raises" => dirty')
  BY DEF SeedLooks, Poll, Raise, PaneTyped
<1>2. /\ tail' \in TailType
      /\ tail'.at \in {"none", "seeds"} => tail.at \in {"none", "seeds"}
      /\ tail'.offset = tail.offset \/ (log.len < tail.offset /\ tail.at = "idle")
  <2>1. CASE SeedLooks
    <3>1. PICK s \in Nat : s = Less(log.len, Seed)
      BY LessIs DEF PaneTyped, LogType, LogAssumption
    <3>. QED BY <2>1, <3>1 DEF SeedLooks, PaneTyped, TailType
  <2>2. CASE Poll
    <3>1. PICK o \in Nat : /\ o = IF log.len < tail.offset THEN 0 ELSE tail.offset
                           /\ tail.at = "idle"
                           /\ tail' = [tail EXCEPT !.offset = o, !.at = IF log.len = o THEN "idle" ELSE "reads"]
      BY <2>2 DEF Poll, PaneTyped, TailType
    <3>2. PICK at \in {"idle", "reads"} : tail' = [tail EXCEPT !.offset = o, !.at = at]
      BY <3>1
    <3>. QED BY <3>1, <3>2 DEF PaneTyped, TailType
  <2>3. CASE Raise
    BY <2>3 DEF Raise, PaneTyped, TailType
  <2>. QED BY <2>1, <2>2, <2>3
<1>3. PaneTyped'
  BY <1>1, <1>2 DEF PaneTyped, UiType
<1>4. PlaceInv' /\ FrameDue'
  BY <1>1 DEF PlaceInv, FrameDue, Size
<1>5. StaysInv'
  BY <1>1 DEF StaysInv, Gone, MaxScroll, Size
<1>6. TailInv'
  BY <1>1, <1>2 DEF TailInv, PaneTyped, LogType, TailType, BufWhole
<1>. QED BY <1>3, <1>4, <1>5, <1>6

LEMMA ReadKeeps ==
  ASSUME LogAssumption, PaneInv, Read
  PROVE  PaneInv'
<1>. USE DEF PaneInv
<1>1. /\ UNCHANGED <<log, view, mode, drag, ui, found, dirty, viewDirty, left>>
      /\ tail.at = "reads" /\ tail.offset \in Nat /\ log \in LogType
      /\ log.len \in Nat /\ log.gen \in Nat
  BY DEF Read, PaneTyped, TailType, LogType
<1>2. PICK units : units = ReadFrom(tail.offset)
  OBVIOUS
<1>3. /\ units \in Seq(Unit) /\ Chain(units) /\ Len(units) \in Nat
      /\ Len(units) = IF log.len >= tail.offset THEN log.len - tail.offset ELSE 0
      /\ \A i \in 1..Len(units) : units[i] = <<log.gen, tail.offset + i>>
      /\ units = <<>> <=> Len(units) = 0
  <2>1. units \in Seq(Unit) /\ Chain(units)
        /\ Len(units) = (IF log.len >= tail.offset THEN log.len - tail.offset ELSE 0)
        /\ \A i \in 1..Len(units) : units[i] = <<log.gen, tail.offset + i>>
    BY <1>1, <1>2, ReadFromIs
  <2>2. Len(units) \in Nat /\ (units = <<>> <=> Len(units) = 0)
    BY <2>1, EmptySeq, LenProperties
  <2>. QED BY <2>1, <2>2
<1>4. /\ buf' = Ingest(units)
      /\ tail' = [tail EXCEPT !.offset = tail.offset + Len(units),
                              !.at = IF units = <<>> THEN "idle" ELSE "raises"]
      /\ frame' = [frame EXCEPT !.all = frame.all /\ units = <<>>]
  BY <1>2 DEF Read
<1>5. Continues(units)
  <2>. SUFFICES ASSUME buf.lines # <<>>, units # <<>> PROVE Follows(LastOf(buf.lines), units[1])
    BY <1>3 DEF Continues
  <2>1. LastOf(buf.lines) \in Unit
    BY LastIsUnit DEF PaneTyped, BufType, TailInv, BufWhole
  <2>2. units[1] = <<log.gen, tail.offset + 1>>
    BY <1>3
  <2>. QED BY <1>1, <2>1, <2>2 DEF Follows, TailInv, Unit
<1>6. /\ frame'.shown = frame.shown /\ frame'.all = (frame.all /\ units = <<>>)
      /\ DOMAIN frame' = {"all", "shown"} /\ frame'.all \in BOOLEAN
      /\ frame' = [all |-> frame'.all, shown |-> frame'.shown]
  <2>1. PICK y \in BOOLEAN : y = (frame.all /\ units = <<>>)
    BY DEF PaneTyped
  <2>2. frame' = [frame EXCEPT !.all = y]
    BY <1>4, <2>1
  <2>. QED BY <2>1, <2>2 DEF PaneTyped
<1>7. /\ buf' \in BufType /\ BufWhole(buf') /\ PlaceInv' /\ StaysInv'
      /\ buf.lines # <<>> => buf'.lines # <<>>
      /\ units = <<>> =>
           /\ buf'.lines = <<>> <=> buf.lines = <<>>
           /\ buf.lines # <<>> => LastOf(buf'.lines) = LastOf(buf.lines)
      /\ units # <<>> => buf'.lines # <<>> /\ LastOf(buf'.lines) = units[Len(units)]
  BY <1>1, <1>4, <1>5, <1>6, LandKeeps
<1>8. /\ tail' \in TailType /\ tail'.at = (IF units = <<>> THEN "idle" ELSE "raises")
      /\ tail'.offset = tail.offset + Len(units)
  <2>1. PICK at \in {"idle", "raises"} : at = IF units = <<>> THEN "idle" ELSE "raises"
    OBVIOUS
  <2>2. PICK o \in Nat : o = tail.offset + Len(units)
    BY <1>1, <1>3
  <2>3. tail' = [tail EXCEPT !.offset = o, !.at = at]
    BY <1>4, <2>1, <2>2
  <2>. QED BY <2>1, <2>2, <2>3 DEF PaneTyped, TailType
<1>9. PaneTyped'
  BY <1>1, <1>6, <1>7, <1>8 DEF PaneTyped
<1>10. FrameDue'
  BY <1>1, <1>6, <1>8 DEF FrameDue
<1>11. TailInv'
  <2>1. CASE units = <<>>
    BY <1>1, <1>3, <1>7, <1>8, <2>1 DEF TailInv
  <2>2. CASE units # <<>>
    <3>1. LastOf(buf'.lines) = <<log.gen, tail.offset + Len(units)>>
      <4>1. Len(units) \in 1..Len(units)
        BY <1>3, <2>2
      <4>. QED BY <1>3, <1>7, <2>2, <4>1
    <3>2. tail.offset + Len(units) = log.len
      BY <1>1, <1>3, <2>2
    <3>. QED BY <1>1, <1>7, <1>8, <2>2, <3>1, <3>2 DEF TailInv
  <2>. QED BY <2>1, <2>2
<1>. QED BY <1>7, <1>9, <1>10, <1>11

LEMMA SeedReadsKeeps ==
  ASSUME LogAssumption, PaneInv, SeedReads
  PROVE  PaneInv'
<1>. USE DEF PaneInv
<1>1. /\ UNCHANGED <<log, view, mode, drag, found, dirty, viewDirty, frame, left>>
      /\ ui = "seed" /\ ui' = "draw" /\ buf.lines = <<>>
      /\ tail.at = "seeds" /\ tail.start \in Nat /\ log \in LogType
      /\ log.len \in Nat /\ log.gen \in Nat
  BY DEF SeedReads, PaneTyped, TailType, LogType, TailInv
<1>2. PICK all : all = ReadFrom(tail.start)
  OBVIOUS
<1>3. /\ all \in Seq(Unit) /\ Chain(all) /\ Len(all) \in Nat
      /\ Len(all) = IF log.len >= tail.start THEN log.len - tail.start ELSE 0
      /\ \A i \in 1..Len(all) : all[i] = <<log.gen, tail.start + i>>
      /\ all = <<>> <=> Len(all) = 0
  <2>1. all \in Seq(Unit) /\ Chain(all)
        /\ Len(all) = (IF log.len >= tail.start THEN log.len - tail.start ELSE 0)
        /\ \A i \in 1..Len(all) : all[i] = <<log.gen, tail.start + i>>
    BY <1>1, <1>2, ReadFromIs
  <2>2. Len(all) \in Nat /\ (all = <<>> <=> Len(all) = 0)
    BY <2>1, EmptySeq, LenProperties
  <2>. QED BY <2>1, <2>2
<1>4. PICK units : units = IF tail.start > 0 THEN WithoutFragment(all) ELSE all
  OBVIOUS
<1>5. /\ buf' = Ingest(units)
      /\ tail' = [tail EXCEPT !.at = "idle", !.offset = tail.start + Len(all), !.start = 0]
  BY <1>2, <1>4 DEF SeedReads
<1>6. /\ units \in Seq(Unit) /\ Chain(units)
      /\ units # <<>> => all # <<>> /\ units[Len(units)] = all[Len(all)]
  BY <1>3, <1>4, FragmentGoes
<1>7. Continues(units)
  BY <1>1, <1>6 DEF Continues
<1>8. ui' # "focus"
  BY <1>1
<1>9. /\ buf' \in BufType /\ BufWhole(buf') /\ PlaceInv' /\ StaysInv'
      /\ units = <<>> => (buf'.lines = <<>> <=> buf.lines = <<>>)
      /\ units # <<>> => LastOf(buf'.lines) = units[Len(units)]
  BY <1>1, <1>5, <1>7, LandKeeps
<1>10. /\ tail' \in TailType /\ tail'.at = "idle" /\ tail'.offset = tail.start + Len(all)
  <2>1. PICK o \in Nat : o = tail.start + Len(all)
    BY <1>1, <1>3
  <2>2. tail' = [tail EXCEPT !.at = "idle", !.offset = o, !.start = 0]
    BY <1>5, <2>1
  <2>. QED BY <2>1, <2>2 DEF PaneTyped, TailType
<1>11. PaneTyped' /\ FrameDue'
  BY <1>1, <1>9, <1>10 DEF PaneTyped, UiType, FrameDue
<1>12. TailInv'
  <2>1. CASE units = <<>>
    BY <1>1, <1>9, <1>10, <2>1 DEF TailInv
  <2>2. CASE units # <<>>
    <3>1. LastOf(buf'.lines) = <<log.gen, tail.start + Len(all)>>
      <4>1. Len(all) \in 1..Len(all)
        BY <1>3, <1>6, <2>2
      <4>. QED BY <1>3, <1>6, <1>9, <2>2, <4>1
    <3>2. tail.start + Len(all) = log.len
      BY <1>1, <1>3, <1>6, <2>2
    <3>. QED BY <1>1, <1>9, <1>10, <3>1, <3>2 DEF TailInv
  <2>. QED BY <2>1, <2>2
<1>. QED BY <1>9, <1>11, <1>12

-----------------------------------------------------------------------------
(* What the reader dropped, folded into the view.                          *)

LEMMA NoneIs ==
  ASSUME LogAssumption
  PROVE  /\ Height \in Nat \ {0} /\ Steps \subseteq Nat /\ None \notin Nat
         /\ None \notin SelType /\ None \notin SearchType
BY DEF LogAssumption, SelType, SearchType

LEMMA LessTwice ==
  ASSUME NEW x \in Nat, NEW a \in Nat, NEW b \in Nat
  PROVE  Less(x, a) \in Nat /\ Less(Less(x, a), b) = Less(x, a + b)
<1>1. PICK y \in Nat : y = Less(x, a) /\ y = IF x >= a THEN x - a ELSE 0
  BY LessIs
<1>2. Less(y, b) = IF y >= b THEN y - b ELSE 0
  BY LessIs
<1>3. Less(x, a + b) = IF x >= a + b THEN x - (a + b) ELSE 0
  BY LessIs
<1>. QED BY <1>1, <1>2, <1>3

LEMMA PaneSized ==
  ASSUME LogAssumption, PaneInv
  PROVE  /\ Size \in Nat /\ MaxScroll \in Nat /\ buf.evicted \in Nat /\ buf.dropped \in Nat
         /\ Gone \in Nat /\ Gone + buf.evicted = buf.dropped
<1>1. Size \in Nat /\ buf.evicted \in Nat /\ buf.dropped \in Nat /\ buf.evicted <= buf.dropped
  BY DEF PaneInv, PaneTyped, BufType, Size, StaysInv
<1>2. MaxScroll \in Nat
  BY <1>1, NoneIs, LessTwice DEF MaxScroll
<1>. QED BY <1>1, <1>2 DEF Gone

(* The indices less what went off the front.                               *)
LEMMA ShiftedIs ==
  ASSUME LogAssumption, NEW v \in ViewType, NEW by \in Nat
  PROVE  /\ Shifted(v, by) \in ViewType
         /\ Shifted(v, by).offset = Less(v.offset, by) /\ Shifted(v, by).follow = v.follow
         /\ Shifted(v, by).sel = None <=> v.sel = None
         /\ v.sel # None =>
              Shifted(v, by).sel = [anchor |-> Less(v.sel.anchor, by), cursor |-> Less(v.sel.cursor, by)]
         /\ Shifted(v, by).search = None <=> v.search = None
         /\ v.search # None =>
              /\ Shifted(v, by).search \in SearchType
              /\ v.search.hit = None => Shifted(v, by).search.hit = None
              /\ v.search.hit # None => Shifted(v, by).search.hit = Less(v.search.hit, by)
<1>1. PICK sel : sel = IF v.sel = None THEN None
                       ELSE [anchor |-> Less(v.sel.anchor, by), cursor |-> Less(v.sel.cursor, by)]
  OBVIOUS
<1>2. PICK hit : hit = IF v.search.hit = None THEN None ELSE Less(v.search.hit, by)
  OBVIOUS
<1>3. PICK search : search = IF v.search = None THEN None ELSE [dir |-> v.search.dir, hit |-> hit]
  OBVIOUS
<1>4. PICK o : o = Less(v.offset, by)
  OBVIOUS
<1>5. Shifted(v, by) = [v EXCEPT !.offset = o, !.sel = sel, !.search = search]
  BY <1>1, <1>2, <1>3, <1>4 DEF Shifted, Slid
<1>6. o \in Nat
  BY <1>4, LessTwice DEF ViewType
<1>7. sel \in SelType \cup {None} /\ (sel = None <=> v.sel = None)
  <2>1. CASE v.sel = None
    BY <1>1, <2>1
  <2>2. CASE v.sel # None
    <3>1. v.sel.anchor \in Nat /\ v.sel.cursor \in Nat
      BY <2>2 DEF ViewType, SelType
    <3>2. Less(v.sel.anchor, by) \in Nat /\ Less(v.sel.cursor, by) \in Nat
      BY <3>1, LessTwice
    <3>3. sel \in SelType
      BY <1>1, <2>2, <3>2 DEF SelType
    <3>. QED BY <2>2, <3>3, NoneIs
  <2>. QED BY <2>1, <2>2
<1>8. /\ search \in SearchType \cup {None} /\ (search = None <=> v.search = None)
      /\ v.search # None => search \in SearchType /\ search.hit = hit
  <2>1. CASE v.search = None
    BY <1>3, <2>1
  <2>2. CASE v.search # None
    <3>1. v.search \in SearchType
      BY <2>2 DEF ViewType
    <3>2. hit \in Nat \cup {None}
      BY <1>2, <3>1, LessTwice DEF SearchType
    <3>3. search \in SearchType /\ search.hit = hit
      BY <1>3, <2>2, <3>1, <3>2 DEF SearchType
    <3>. QED BY <2>2, <3>3, NoneIs
  <2>. QED BY <2>1, <2>2
<1>9. /\ Shifted(v, by) \in ViewType /\ Shifted(v, by).offset = o /\ Shifted(v, by).follow = v.follow
      /\ Shifted(v, by).sel = sel /\ Shifted(v, by).search = search
  BY <1>5, <1>6, <1>7, <1>8 DEF ViewType
<1>. QED BY <1>1, <1>2, <1>4, <1>7, <1>8, <1>9

(* Where the view stands once what was dropped is folded in: Gone is all   *)
(* that was dropped.                                                       *)
LEMMA SlidStays ==
  ASSUME LogAssumption, PaneInv, NEW v, v = Shifted(view, buf.evicted)
  PROVE  /\ v \in ViewType
         /\ v.sel = None <=> view.sel = None
         /\ v.search = None <=> view.search = None
         /\ frame.shown # None =>
              /\ frame.shown.top \in Nat /\ v.offset = Less(frame.shown.top, buf.dropped)
              /\ frame.shown.top <= buf.dropped + MaxScroll
              /\ frame.shown.sel # None =>
                   /\ frame.shown.sel.anchor \in Nat /\ frame.shown.sel.cursor \in Nat
                   /\ v.sel # None
                   /\ v.sel = [anchor |-> Less(frame.shown.sel.anchor, buf.dropped),
                               cursor |-> Less(frame.shown.sel.cursor, buf.dropped)]
              /\ frame.shown.hit # None =>
                   /\ frame.shown.hit \in Nat
                   /\ v.search # None /\ v.search.hit = Less(frame.shown.hit, buf.dropped)
<1>1. view \in ViewType /\ buf.evicted \in Nat /\ Gone \in Nat /\ Gone + buf.evicted = buf.dropped
  BY PaneSized DEF PaneInv, PaneTyped
<1>2. /\ v \in ViewType /\ v.offset = Less(view.offset, buf.evicted)
      /\ v.sel = None <=> view.sel = None
      /\ view.sel # None =>
           v.sel = [anchor |-> Less(view.sel.anchor, buf.evicted), cursor |-> Less(view.sel.cursor, buf.evicted)]
      /\ v.search = None <=> view.search = None
      /\ view.search # None /\ view.search.hit # None => v.search.hit = Less(view.search.hit, buf.evicted)
  BY <1>1, ShiftedIs
<1>3. ASSUME NEW x \in Nat PROVE Less(Less(x, Gone), buf.evicted) = Less(x, buf.dropped) /\ Less(x, Gone) \in Nat
  <2>1. PICK g \in Nat, e \in Nat : g = Gone /\ e = buf.evicted /\ g + e = buf.dropped
    BY <1>1
  <2>2. Less(x, g) \in Nat /\ Less(Less(x, g), e) = Less(x, g + e)
    BY LessTwice
  <2>. QED BY <2>1, <2>2
<1>4. ASSUME frame.shown # None PROVE v.offset = Less(frame.shown.top, buf.dropped)
  BY <1>2, <1>3, <1>4 DEF PaneInv, StaysInv
<1>5. ASSUME frame.shown # None, frame.shown.sel # None
      PROVE  v.sel = [anchor |-> Less(frame.shown.sel.anchor, buf.dropped),
                      cursor |-> Less(frame.shown.sel.cursor, buf.dropped)]
  <2>1. PICK a \in Nat, c \in Nat : a = frame.shown.sel.anchor /\ c = frame.shown.sel.cursor
    BY <1>5 DEF PaneInv, StaysInv
  <2>2. view.sel # None /\ view.sel = [anchor |-> Less(a, Gone), cursor |-> Less(c, Gone)]
    BY <1>5, <2>1 DEF PaneInv, StaysInv
  <2>3. view.sel.anchor = Less(a, Gone) /\ view.sel.cursor = Less(c, Gone)
    BY <2>2
  <2>4. Less(Less(a, Gone), buf.evicted) = Less(a, buf.dropped) /\ Less(Less(c, Gone), buf.evicted) = Less(c, buf.dropped)
    BY <1>3
  <2>. QED BY <1>2, <2>1, <2>2, <2>3, <2>4
<1>6. ASSUME frame.shown # None, frame.shown.hit # None
      PROVE  v.search.hit = Less(frame.shown.hit, buf.dropped)
  <2>1. PICK h \in Nat : h = frame.shown.hit
    BY <1>6 DEF PaneInv, StaysInv
  <2>2. view.search # None /\ view.search.hit = Less(h, Gone)
    BY <1>6, <2>1 DEF PaneInv, StaysInv
  <2>3. view.search.hit # None
    BY <1>3, <2>1, <2>2, NoneIs
  <2>. QED BY <1>2, <1>3, <2>1, <2>2, <2>3
<1>. QED BY <1>2, <1>4, <1>5, <1>6 DEF PaneInv, StaysInv

LEMMA SlideKeeps ==
  ASSUME LogAssumption, PaneInv, ApplyEvictions, ui' \in UiType \ {"focus"},
         UNCHANGED <<log, tail, mode, drag, found, frame, left>>,
         dirty' \in BOOLEAN, viewDirty' \in BOOLEAN
  PROVE  PaneTyped' /\ PlaceInv' /\ StaysInv' /\ TailInv'
<1>. USE DEF PaneInv
<1>1. view' = Shifted(view, buf.evicted) /\ buf' = [buf EXCEPT !.evicted = 0]
  BY DEF ApplyEvictions
<1>2. PICK v : v = Shifted(view, buf.evicted)
  OBVIOUS
<1>3. /\ v \in ViewType /\ (v.sel = None <=> view.sel = None) /\ (v.search = None <=> view.search = None)
      /\ frame.shown # None =>
           /\ frame.shown.top \in Nat /\ v.offset = Less(frame.shown.top, buf.dropped)
           /\ frame.shown.top <= buf.dropped + MaxScroll
           /\ frame.shown.sel # None =>
                /\ frame.shown.sel.anchor \in Nat /\ frame.shown.sel.cursor \in Nat
                /\ v.sel # None
                /\ v.sel = [anchor |-> Less(frame.shown.sel.anchor, buf.dropped),
                            cursor |-> Less(frame.shown.sel.cursor, buf.dropped)]
           /\ frame.shown.hit # None =>
                /\ frame.shown.hit \in Nat
                /\ v.search # None /\ v.search.hit = Less(frame.shown.hit, buf.dropped)
  BY <1>2, SlidStays
<1>4. /\ buf' \in BufType /\ buf'.lines = buf.lines /\ buf'.open = buf.open
      /\ buf'.dropped = buf.dropped /\ buf'.evicted = 0 /\ buf.dropped \in Nat
  BY <1>1 DEF PaneTyped, BufType
<1>5. Size' = Size /\ MaxScroll' = MaxScroll /\ Gone' = buf.dropped
  BY <1>4 DEF Size, MaxScroll, Gone
<1>6. PaneTyped'
  BY <1>1, <1>2, <1>3, <1>4 DEF PaneTyped
<1>7. PlaceInv'
  BY <1>1, <1>2, <1>3, <1>5 DEF PlaceInv
<1>8. StaysInv'
  BY <1>1, <1>2, <1>3, <1>4, <1>5 DEF StaysInv
<1>9. TailInv'
  BY <1>4 DEF TailInv, BufWhole
<1>. QED BY <1>6, <1>7, <1>8, <1>9

-----------------------------------------------------------------------------
(* The loop of the main thread.                                            *)

LEMMA LoopKeeps ==
  ASSUME LogAssumption, PaneInv, Top \/ Clear
  PROVE  PaneInv'
<1>1. ApplyEvictions /\ ui' \in {"wait", "draw"} /\ UNCHANGED <<log, tail, mode, drag, found, frame, left>>
      /\ dirty' \in BOOLEAN /\ viewDirty' \in BOOLEAN
  BY DEF Top, Clear, PaneInv, PaneTyped
<1>2. FrameDue'
  BY DEF Top, Clear, PaneInv, FrameDue
<1>. QED BY <1>1, <1>2, SlideKeeps DEF PaneInv, UiType

LEMMA RestKeeps ==
  ASSUME PaneInv, Tick \/ Skip \/ Written
  PROVE  PaneInv'
<1>1. /\ UNCHANGED <<log, tail, buf, view, mode, drag, found, dirty, viewDirty, frame, left>>
      /\ ui' \in {"check", "top"} /\ ui \in {"wait", "check", "due", "writes"}
  BY DEF Tick, Skip, Written
<1>2. PaneTyped' /\ PlaceInv' /\ FrameDue'
  BY <1>1 DEF PaneInv, PaneTyped, UiType, PlaceInv, FrameDue, Size
<1>3. StaysInv'
  BY <1>1 DEF PaneInv, StaysInv, Gone, MaxScroll, Size
<1>4. TailInv'
  BY <1>1 DEF PaneInv, TailInv, BufWhole
<1>. QED BY <1>2, <1>3, <1>4 DEF PaneInv

LEMMA Moved ==
  ASSUME LogAssumption, PaneInv, NEW v \in ViewType, NEW n \in Nat
  PROVE  \A w \in {Up(v, n), Down(v, n), Home(v), End(v), Resolved(v)} :
           w \in ViewType /\ w.sel = v.sel /\ w.search = v.search
<1>1. MaxScroll \in Nat /\ v.offset \in Nat
  BY PaneSized DEF ViewType
<1>2. Less(v.offset, n) \in Nat
  BY <1>1, LessTwice
<1>3. Min({v.offset + n, MaxScroll}) \in Nat /\ Min({v.offset, MaxScroll}) \in Nat
  BY <1>1, MinTwo
<1>4. Up(v, n) \in ViewType /\ Up(v, n).sel = v.sel /\ Up(v, n).search = v.search
  BY <1>2 DEF Up, ViewType
<1>5. Down(v, n) \in ViewType /\ Down(v, n).sel = v.sel /\ Down(v, n).search = v.search
  <2>1. PICK o \in Nat : o = Min({v.offset + n, MaxScroll})
    BY <1>3
  <2>2. PICK f \in BOOLEAN : f = (v.follow \/ o >= MaxScroll)
    BY DEF ViewType
  <2>3. Down(v, n) = [v EXCEPT !.offset = o, !.follow = f]
    BY <2>1, <2>2 DEF Down
  <2>. QED BY <2>3 DEF ViewType
<1>6. Home(v) \in ViewType /\ Home(v).sel = v.sel /\ Home(v).search = v.search
  BY DEF Home, ViewType
<1>7. End(v) \in ViewType /\ End(v).sel = v.sel /\ End(v).search = v.search
  BY <1>1 DEF End, ViewType
<1>8. Resolved(v) \in ViewType /\ Resolved(v).sel = v.sel /\ Resolved(v).search = v.search
  <2>1. PICK o \in Nat : o = IF v.follow THEN MaxScroll ELSE Min({v.offset, MaxScroll})
    BY <1>1, <1>3
  <2>2. Resolved(v) = [v EXCEPT !.offset = o]
    BY <2>1 DEF Resolved
  <2>. QED BY <2>2 DEF ViewType
<1>. QED BY <1>4, <1>5, <1>6, <1>7, <1>8

(* What a frame shows, of a view that is typed.                            *)
LEMMA ShownIs ==
  ASSUME LogAssumption, NEW v \in ViewType, NEW n \in Nat
  PROVE  LET s == Shown(v, n) IN
         /\ s.top = n + v.offset
         /\ s.sel # None => /\ v.sel # None /\ v.sel \in SelType
                            /\ s.sel.anchor = n + v.sel.anchor /\ s.sel.cursor = n + v.sel.cursor
         /\ v.sel # None => s.sel = [anchor |-> n + v.sel.anchor, cursor |-> n + v.sel.cursor]
         /\ s.hit # None => v.search # None /\ v.search.hit \in Nat /\ s.hit = n + v.search.hit
         /\ v.search # None /\ v.search.hit # None => s.hit = n + v.search.hit
<1>1. PICK sel : sel = IF v.sel = None THEN None
                       ELSE [anchor |-> n + v.sel.anchor, cursor |-> n + v.sel.cursor]
  OBVIOUS
<1>2. PICK hit : hit = IF v.search = None \/ v.search.hit = None THEN None ELSE n + v.search.hit
  OBVIOUS
<1>3. Shown(v, n) = [top |-> n + v.offset, sel |-> sel, hit |-> hit]
  BY <1>1, <1>2 DEF Shown
<1>4. v.sel # None => v.sel \in SelType
  BY DEF ViewType
<1>5. v.search # None => v.search.hit \in Nat \cup {None}
  BY DEF ViewType, SearchType
<1>. QED BY <1>1, <1>2, <1>3, <1>4, <1>5

LEMMA RenderKeeps ==
  ASSUME LogAssumption, PaneInv, Render
  PROVE  PaneInv'
<1>. USE DEF PaneInv
<1>1. PICK v : v = Shifted(view, buf.evicted)
  OBVIOUS
<1>2. PICK w : w = Resolved(v)
  OBVIOUS
<1>3. PICK d \in Nat, m \in Nat : d = buf.dropped /\ m = MaxScroll
  BY PaneSized
<1>4. /\ view' = w /\ buf' = [buf EXCEPT !.evicted = 0]
      /\ frame' = [all |-> TRUE, shown |-> Shown(w, d)]
      /\ ui' = "writes" /\ UNCHANGED <<log, tail, mode, drag, found, dirty, viewDirty, left>>
  BY <1>1, <1>2, <1>3 DEF Render
<1>5. v \in ViewType /\ (v.sel = None <=> view.sel = None)
  BY <1>1, SlidStays
<1>6. w \in ViewType /\ w.sel = v.sel /\ w.search = v.search
  BY <1>2, <1>5, Moved
<1>7. w.offset \in Nat /\ w.offset <= m
  <2>1. v.offset \in Nat
    BY <1>5 DEF ViewType
  <2>2. Min({v.offset, m}) = IF v.offset <= m THEN v.offset ELSE m
    BY <2>1, MinTwo
  <2>3. w.offset = IF v.follow THEN m ELSE Min({v.offset, m})
    BY <1>2, <1>3, <1>5 DEF Resolved, ViewType
  <2>. QED BY <2>1, <2>2, <2>3
<1>8. /\ buf' \in BufType /\ buf'.lines = buf.lines /\ buf'.open = buf.open
      /\ buf'.dropped = d /\ buf'.evicted = 0
  BY <1>3, <1>4 DEF PaneTyped, BufType
<1>9. Size' = Size /\ MaxScroll' = m /\ Gone' = d
  BY <1>3, <1>8 DEF Size, MaxScroll, Gone
<1>10. PaneTyped'
  BY <1>4, <1>6, <1>8 DEF PaneTyped, UiType
<1>11. PlaceInv' /\ FrameDue'
  BY <1>4, <1>5, <1>6, <1>9 DEF PlaceInv, FrameDue
<1>12. TailInv'
  BY <1>4, <1>8 DEF TailInv, BufWhole
<1>13. StaysInv'
  <2>1. PICK s : s = Shown(w, d) /\ frame'.shown = s
    BY <1>4
  <2>2. ASSUME NEW x \in Nat PROVE Less(d + x, d) = x
    BY LessIs
  <2>3. /\ s.top \in Nat /\ s.top = d + w.offset /\ w.offset = Less(s.top, d) /\ s.top <= d + m
    <3>1. PICK o \in Nat : o = w.offset /\ o <= m
      BY <1>7
    <3>2. s.top = d + o
      BY <1>6, <2>1, <3>1, ShownIs
    <3>. QED BY <1>3, <2>2, <3>1, <3>2
  <2>4. ASSUME s.sel # None
        PROVE  /\ s.sel.anchor \in Nat /\ s.sel.cursor \in Nat /\ w.sel # None
               /\ w.sel = [anchor |-> Less(s.sel.anchor, d), cursor |-> Less(s.sel.cursor, d)]
    <3>1. /\ w.sel # None /\ w.sel \in SelType
          /\ s.sel.anchor = d + w.sel.anchor /\ s.sel.cursor = d + w.sel.cursor
      BY <1>6, <2>1, <2>4, ShownIs
    <3>2. PICK a \in Nat, c \in Nat : w.sel = [anchor |-> a, cursor |-> c] /\ a = w.sel.anchor /\ c = w.sel.cursor
      BY <3>1 DEF SelType
    <3>3. Less(d + a, d) = a /\ Less(d + c, d) = c /\ d + a \in Nat /\ d + c \in Nat
      BY <2>2
    <3>. QED BY <3>1, <3>2, <3>3
  <2>5. ASSUME s.hit # None
        PROVE  s.hit \in Nat /\ w.search # None /\ w.search.hit = Less(s.hit, d)
    <3>1. w.search # None /\ w.search.hit \in Nat /\ s.hit = d + w.search.hit
      BY <1>6, <2>1, <2>5, ShownIs
    <3>2. PICK h \in Nat : h = w.search.hit
      BY <3>1
    <3>. QED BY <2>2, <3>1, <3>2
  <2>. QED BY <1>4, <1>8, <1>9, <2>1, <2>3, <2>4, <2>5 DEF StaysInv
<1>. QED BY <1>10, <1>11, <1>12, <1>13

-----------------------------------------------------------------------------
(* Events.  Each ends what the last frame shows.                           *)

LEMMA HandlesKeeps ==
  ASSUME LogAssumption, PaneInv,
         NEW v \in ViewType, NEW m \in ModeType, NEW d \in Nat \cup {None},
         d # None => Size > 0, m.at = "select" => v.sel # None,
         Handles(v, m, d)
  PROVE  PaneInv'
<1>. USE DEF PaneInv
<1>1. /\ view' = v /\ mode' = m /\ drag' = d /\ ui' = "check" /\ viewDirty' = TRUE
      /\ UNCHANGED <<log, tail, buf, found, dirty>>
      /\ frame' = [frame EXCEPT !.shown = None] /\ left' \in {left, left - 1}
  BY DEF Handles, Touched
<1>2. frame'.shown = None /\ frame' = [all |-> frame.all, shown |-> None] /\ left' \in Int
  BY <1>1 DEF PaneTyped
<1>3. PaneTyped'
  BY <1>1, <1>2 DEF PaneTyped, UiType
<1>4. PlaceInv' /\ FrameDue'
  BY <1>1 DEF PlaceInv, FrameDue, Size
<1>5. StaysInv'
  BY <1>1, <1>2 DEF StaysInv
<1>6. TailInv'
  BY <1>1 DEF TailInv, BufWhole
<1>. QED BY <1>3, <1>4, <1>5, <1>6

LEMMA SeeksKeeps ==
  ASSUME LogAssumption, PaneInv, NEW v \in ViewType, NEW m \in ModeType,
         NEW hit \in Nat \cup {None}, m.at = "select" => v.sel # None,
         hit # None => v.search # None, Seeks(v, m, hit)
  PROVE  PaneInv'
<1>1. CASE hit = None
  <2>1. Handles(v, m, drag)
    BY <1>1 DEF Seeks
  <2>2. drag \in Nat \cup {None} /\ (drag # None => Size > 0)
    BY DEF PaneInv, PaneTyped, PlaceInv
  <2>. QED BY <2>1, <2>2, HandlesKeeps
<1>2. CASE hit # None
  <2>. USE DEF PaneInv
  <2>1. /\ view' = v /\ mode' = m /\ found' = hit /\ ui' = "focus" /\ viewDirty' = TRUE
        /\ UNCHANGED <<log, tail, buf, drag, dirty>>
        /\ frame' = [frame EXCEPT !.shown = None] /\ left' \in {left, left - 1}
    BY <1>2 DEF Seeks, Touched
  <2>2. frame'.shown = None /\ frame' = [all |-> frame.all, shown |-> None] /\ left' \in Int
    BY <2>1 DEF PaneTyped
  <2>3. PaneTyped'
    BY <2>1, <2>2 DEF PaneTyped, UiType
  <2>4. PlaceInv' /\ FrameDue'
    BY <1>2, <2>1, <2>2 DEF PlaceInv, FrameDue, Size
  <2>5. StaysInv'
    BY <2>1, <2>2 DEF StaysInv
  <2>6. TailInv'
    BY <2>1 DEF TailInv, BufWhole
  <2>. QED BY <2>3, <2>4, <2>5, <2>6
<1>. QED BY <1>1, <1>2

LEMMA FocusKeeps ==
  ASSUME LogAssumption, PaneInv, Focus
  PROVE  PaneInv'
<1>. USE DEF PaneInv
<1>1. /\ ui = "focus" /\ found \in Nat /\ view \in ViewType /\ view.search # None
      /\ frame.shown = None /\ view.search \in SearchType
  BY DEF Focus, PlaceInv, PaneTyped, ViewType
<1>2. PICK o \in Nat : o = Centered(found)
  <2>1. PICK h \in Nat : h = Height \div 2
    BY NoneIs
  <2>2. PICK l \in Nat : l = Less(found, h)
    BY <1>1, LessTwice
  <2>3. MaxScroll \in Nat
    BY PaneSized
  <2>4. Centered(found) = Min({l, MaxScroll})
    BY <2>1, <2>2 DEF Centered
  <2>. QED BY <2>2, <2>3, <2>4, MinTwo
<1>3. PICK w : w = [view EXCEPT !.follow = FALSE, !.offset = o, !.search.hit = found]
  OBVIOUS
<1>4. /\ view' = w /\ found' = None /\ ui' = "check"
      /\ UNCHANGED <<log, tail, buf, mode, drag, dirty, viewDirty, frame, left>>
  BY <1>2, <1>3 DEF Focus
<1>5. w \in ViewType /\ w.sel = view.sel
  <2>1. PICK s \in SearchType : s = [view.search EXCEPT !.hit = found]
    BY <1>1 DEF SearchType
  <2>2. w = [view EXCEPT !.follow = FALSE, !.offset = o, !.search = s]
    BY <1>3, <2>1
  <2>. QED BY <1>1, <2>2 DEF ViewType
<1>6. PaneTyped'
  BY <1>4, <1>5 DEF PaneTyped, UiType
<1>7. PlaceInv' /\ FrameDue'
  BY <1>1, <1>4, <1>5 DEF PlaceInv, FrameDue, Size
<1>8. StaysInv'
  BY <1>1, <1>4 DEF StaysInv
<1>9. TailInv'
  BY <1>4 DEF TailInv, BufWhole
<1>. QED BY <1>6, <1>7, <1>8, <1>9

(* What an event finds, of the pane.                                       *)
LEMMA EventFinds ==
  ASSUME LogAssumption, PaneInv
  PROVE  /\ view \in ViewType /\ view.offset \in Nat /\ view.follow \in BOOLEAN
         /\ view.sel \in SelType \cup {None} /\ view.search \in SearchType \cup {None}
         /\ mode \in ModeType /\ drag \in Nat \cup {None} /\ (drag # None => Size > 0)
         /\ Size \in Nat /\ (mode.at = "select" => view.sel # None)
         /\ Normal \in ModeType /\ Selecting \in ModeType /\ Normal.at = "normal"
BY PaneSized DEF PaneInv, PaneTyped, PlaceInv, ViewType, ModeType, Normal, Selecting

(* The prompt, while it is open.                                           *)
LEMMA PromptIs ==
  ASSUME LogAssumption, PaneInv, mode.at = "search"
  PROVE  /\ mode.dir \in {"forward", "backward"} /\ mode.offset \in Nat
         /\ mode.follow \in BOOLEAN /\ mode.search \in SearchType \cup {None}
         /\ \A i \in {"empty", "bad", "good"} :
              [mode EXCEPT !.input = i] \in ModeType /\ [mode EXCEPT !.input = i].at = "search"
<1>1. PICK M : M = [at : {"search"}, dir : {"forward", "backward"}, input : {"empty", "bad", "good"},
                    offset : Nat, follow : BOOLEAN, search : SearchType \cup {None}]
  OBVIOUS
<1>2. mode \in M
  BY <1>1 DEF PaneInv, PaneTyped, ModeType, Normal, Selecting
<1>3. M \subseteq ModeType
  BY <1>1 DEF ModeType
<1>4. \A i \in {"empty", "bad", "good"} :
        [mode EXCEPT !.input = i] \in M /\ [mode EXCEPT !.input = i].at = "search"
  BY <1>1, <1>2
<1>. QED BY <1>1, <1>2, <1>3, <1>4

LEMMA LocateIs ==
  ASSUME LogAssumption, PaneInv, NEW dir, NEW from, NEW inclusive
  PROVE  Locate(dir, from, inclusive) \in Nat \cup {None}
<1>1. PICK n \in Nat : n = Size
  BY PaneSized
<1>2. PICK M : M = Matching /\ M \subseteq 0..n - 1
  BY <1>1 DEF Matching
<1>3. PICK at : at = Min({from, Size - 1})
  OBVIOUS
<1>4. PICK ahead : ahead = {i \in M : \/ inclusive /\ i = at
                                      \/ IF dir = "forward" THEN i > at ELSE i < at}
  OBVIOUS
<1>5. PICK some : some = IF ahead = {} THEN M ELSE ahead
  OBVIOUS
<1>6. Locate(dir, from, inclusive)
        = IF some = {} THEN None ELSE IF dir = "forward" THEN Min(some) ELSE Max(some)
  BY <1>2, <1>3, <1>4, <1>5 DEF Locate
<1>7. some \subseteq 0..n - 1
  BY <1>2, <1>4, <1>5
<1>8. CASE some = {}
  BY <1>6, <1>8
<1>9. CASE some # {}
  <2>1. PICK x \in some : x \in 0..n - 1
    BY <1>7, <1>9
  <2>2. PICK last \in Nat : last = n - 1
    BY <2>1
  <2>3. some \subseteq 0..last /\ some \subseteq Nat
    BY <1>7, <2>2
  <2>4. Min(some) \in some
    BY <1>9, <2>3, MinOf
  <2>5. Max(some) \in some
    BY <1>9, <2>3, MaxOf
  <2>6. Min(some) \in Nat /\ Max(some) \in Nat
    BY <2>3, <2>4, <2>5
  <2>. QED BY <1>6, <1>9, <2>6
<1>. QED BY <1>8, <1>9

LEMMA OriginIs ==
  ASSUME LogAssumption, PaneInv
  PROVE  Origin(view, "backward") \in Nat
<1>1. PICK s \in Nat, o \in Nat, h \in Nat : s = Size /\ o = view.offset /\ h = Height
  BY EventFinds, NoneIs
<1>2. PICK b \in Nat : b = Min({o + h, s})
  BY MinTwo
<1>3. Origin(view, "backward") = Less(b, 1)
  BY <1>1, <1>2 DEF Origin
<1>. QED BY <1>3, LessTwice

LEMMA LineAtIs ==
  ASSUME LogAssumption, PaneInv, Size > 0, NEW v \in ViewType, NEW row \in Nat
  PROVE  LineAt(v, row) \in Nat
<1>1. PICK s \in Nat, o \in Nat : s = Size - 1 /\ o = v.offset
  BY EventFinds DEF ViewType
<1>2. LineAt(v, row) = Min({o + row, s})
  BY <1>1 DEF LineAt
<1>. QED BY <1>2, MinTwo

LEMMA ToShowIs ==
  ASSUME LogAssumption, PaneInv, NEW line \in Nat, NEW offset \in Nat
  PROVE  ToShow(line, offset) \in Nat
<1>1. PICK m \in Nat, h \in Nat : m = MaxScroll /\ h = Height
  BY PaneSized, NoneIs
<1>2. PICK x : x = IF line < offset THEN line
                   ELSE IF line + 1 > offset + h THEN line + 1 - h ELSE offset
  OBVIOUS
<1>3. x \in Nat
  BY <1>2
<1>4. ToShow(line, offset) = Min({m, x})
  BY <1>1, <1>2 DEF ToShow
<1>. QED BY <1>3, <1>4, MinTwo

-----------------------------------------------------------------------------
LEMMA ScrollsKeep ==
  ASSUME LogAssumption, PaneInv, Scroll \/ Jump \/ Dismiss
  PROVE  PaneInv'
<1>1. CASE Scroll \/ Jump
  <2>1. PICK v \in ViewType : v.sel = view.sel /\ Handles(v, mode, drag)
    <3>1. CASE Scroll
      <4>1. PICK n \in Steps : Handles(Up(view, n), mode, drag) \/ Handles(Down(view, n), mode, drag)
        BY <3>1 DEF Scroll
      <4>2. n \in Nat
        BY NoneIs
      <4>. QED BY <4>1, <4>2, EventFinds, Moved
    <3>2. CASE Jump
      <4>1. Handles(Home(view), mode, drag) \/ Handles(End(view), mode, drag)
        BY <3>2 DEF Jump
      <4>2. 0 \in Nat
        OBVIOUS
      <4>. QED BY <4>1, <4>2, EventFinds, Moved
    <3>. QED BY <1>1, <3>1, <3>2
  <2>. QED BY <2>1, EventFinds, HandlesKeeps
<1>2. CASE Dismiss
  <2>1. PICK v : v = [view EXCEPT !.search = None]
    OBVIOUS
  <2>2. v \in ViewType /\ v.sel = view.sel
    BY <2>1, EventFinds DEF ViewType
  <2>3. Handles(v, mode, drag)
    BY <1>2, <2>1 DEF Dismiss
  <2>. QED BY <2>2, <2>3, EventFinds, HandlesKeeps
<1>. QED BY <1>1, <1>2

LEMMA PromptKeeps ==
  ASSUME LogAssumption, PaneInv, NextHit \/ OpenPrompt
  PROVE  PaneInv'
<1>1. CASE NextHit
  <2>1. PICK dir \in {"forward", "backward"} : Seeks(view, mode, Stepped(view, dir))
    BY <1>1 DEF NextHit
  <2>2. PICK hit : hit = Stepped(view, dir)
    OBVIOUS
  <2>3. hit \in Nat \cup {None}
    BY <2>2, LocateIs DEF Stepped
  <2>4. view.search # None
    BY <1>1 DEF NextHit
  <2>. QED BY <2>1, <2>2, <2>3, <2>4, EventFinds, SeeksKeeps
<1>2. CASE OpenPrompt
  <2>1. PICK dir \in {"forward", "backward"} :
          Handles([view EXCEPT !.search = None],
                  [at |-> "search", dir |-> dir, input |-> "empty", offset |-> view.offset,
                   follow |-> view.follow, search |-> view.search], drag)
    BY <1>2 DEF OpenPrompt
  <2>2. PICK v, m : /\ v = [view EXCEPT !.search = None]
                    /\ m = [at |-> "search", dir |-> dir, input |-> "empty", offset |-> view.offset,
                            follow |-> view.follow, search |-> view.search]
    OBVIOUS
  <2>3. v \in ViewType
    BY <2>2, EventFinds DEF ViewType
  <2>4. m \in ModeType /\ m.at # "select"
    BY <2>2, EventFinds DEF ModeType
  <2>5. Handles(v, m, drag)
    BY <2>1, <2>2
  <2>. QED BY <2>3, <2>4, <2>5, EventFinds, HandlesKeeps
<1>. QED BY <1>1, <1>2

(* The view as the prompt saved it.                                        *)
LEMMA RewoundIs ==
  ASSUME LogAssumption, PaneInv, mode.at = "search", NEW s \in SearchType \cup {None}
  PROVE  Rewound(s) \in ViewType /\ Rewound(s).search = s
<1>1. PICK o \in Nat, f \in BOOLEAN : o = mode.offset /\ f = mode.follow
  BY PromptIs
<1>2. Rewound(s) = [view EXCEPT !.offset = o, !.follow = f, !.search = s]
  BY <1>1 DEF Rewound
<1>. QED BY <1>2, EventFinds DEF ViewType

LEMMA FreshIs ==
  ASSUME LogAssumption, PaneInv, mode.at = "search"
  PROVE  Fresh \in SearchType /\ Fresh # None
<1>1. Fresh \in SearchType
  BY PromptIs DEF Fresh, SearchType
<1>. QED BY <1>1, NoneIs

LEMMA SearchKeeps ==
  ASSUME LogAssumption, PaneInv, Type \/ Commit \/ Abandon
  PROVE  PaneInv'
<1>0. mode.at = "search"
  BY DEF Type, Commit, Abandon
<1>1. CASE Type
  <2>1. PICK input \in {"empty", "bad", "good"} :
          LET m == [mode EXCEPT !.input = input]
              v == Rewound(IF input = "good" THEN Fresh ELSE None)
          IN Seeks(v, m, IF input = "good" THEN Locate(mode.dir, Origin(v, mode.dir), TRUE) ELSE None)
    BY <1>1 DEF Type
  <2>2. PICK m : m = [mode EXCEPT !.input = input]
    OBVIOUS
  <2>3. m \in ModeType /\ m.at = "search"
    BY <1>0, <2>2, PromptIs
  <2>4. PICK s \in SearchType \cup {None} :
          s = (IF input = "good" THEN Fresh ELSE None) /\ (input = "good" => s # None)
    BY <1>0, FreshIs
  <2>5. PICK v \in ViewType : v = Rewound(s) /\ v.search = s
    BY <1>0, RewoundIs
  <2>6. PICK hit \in Nat \cup {None} :
          /\ hit = IF input = "good" THEN Locate(mode.dir, Origin(v, mode.dir), TRUE) ELSE None
          /\ hit # None => input = "good"
    BY LocateIs
  <2>7. Seeks(v, m, hit)
    BY <2>1, <2>2, <2>4, <2>5, <2>6
  <2>. QED BY <2>3, <2>4, <2>5, <2>6, <2>7, SeeksKeeps
<1>2. CASE Commit
  <2>1. PICK v \in ViewType : v = Rewound(Fresh) /\ v.search # None
    BY <1>0, FreshIs, RewoundIs
  <2>2. PICK hit : hit = Stepped(v, mode.dir)
    OBVIOUS
  <2>3. hit \in Nat \cup {None}
    BY <2>2, LocateIs DEF Stepped
  <2>4. Seeks(v, Normal, hit)
    BY <1>2, <2>1, <2>2 DEF Commit
  <2>. QED BY <2>1, <2>3, <2>4, EventFinds, SeeksKeeps
<1>3. CASE Abandon
  <2>1. PICK v \in ViewType : v = Rewound(mode.search)
    BY <1>0, PromptIs, RewoundIs
  <2>2. Handles(v, Normal, drag)
    BY <1>3, <2>1 DEF Abandon
  <2>. QED BY <2>2, EventFinds, HandlesKeeps
<1>. QED BY <1>1, <1>2, <1>3

LEMMA SelectKeeps ==
  ASSUME LogAssumption, PaneInv, StartSelect \/ Move \/ LeaveSelect
  PROVE  PaneInv'
<1>1. CASE StartSelect
  <2>1. PICK line \in Nat : line = Origin(view, "backward")
    BY OriginIs
  <2>2. PICK sel : sel = [anchor |-> line, cursor |-> line]
    OBVIOUS
  <2>3. sel \in SelType /\ sel # None
    <3>1. sel \in SelType
      BY <2>2 DEF SelType
    <3>. QED BY <3>1, NoneIs
  <2>4. PICK v : v = [view EXCEPT !.follow = FALSE, !.sel = sel]
    OBVIOUS
  <2>5. v \in ViewType /\ v.sel # None
    BY <2>3, <2>4, EventFinds DEF ViewType
  <2>6. Handles(v, Selecting, drag)
    BY <1>1, <2>1, <2>2, <2>4 DEF StartSelect
  <2>. QED BY <2>5, <2>6, EventFinds, HandlesKeeps
<1>2. CASE Move
  <2>1. view.sel \in SelType
    BY <1>2, EventFinds DEF Move
  <2>2. PICK a \in Nat, c \in Nat, o \in Nat, s \in Nat :
          /\ view.sel.anchor = a /\ view.sel.cursor = c /\ view.offset = o /\ Size = s
    BY <2>1, EventFinds DEF SelType
  <2>3. PICK last \in Nat : last = Less(s, 1)
    BY LessTwice
  <2>4. PICK line \in Nat, first \in Nat : line = Min({c, last}) /\ first = Min({a, last})
    BY MinTwo
  <2>5. PICK to \in {Less(line, n) : n \in Steps} \cup {Min({line + n, last}) : n \in Steps}
                     \cup {0, last} :
          Handles([view EXCEPT !.offset = ToShow(to, @),
                               !.sel = [anchor |-> Min({@.anchor, last}), cursor |-> to]],
                  mode, drag)
    BY <1>2, <2>2, <2>3, <2>4 DEF Move
  <2>6. to \in Nat
    <3>1. ASSUME NEW n \in Steps PROVE Less(line, n) \in Nat /\ Min({line + n, last}) \in Nat
      <4>1. n \in Nat
        BY NoneIs
      <4>2. PICK t \in Nat : t = line + n
        BY <4>1
      <4>3. Less(line, n) \in Nat
        BY <4>1, LessTwice
      <4>4. Min({t, last}) \in Nat
        BY MinTwo
      <4>. QED BY <4>2, <4>3, <4>4
    <3>2. PICK A, B : A = {Less(line, n) : n \in Steps} /\ B = {Min({line + n, last}) : n \in Steps}
      OBVIOUS
    <3>3. A \subseteq Nat
      BY <3>1, <3>2
    <3>4. B \subseteq Nat
      BY <3>1, <3>2
    <3>5. to \in A \cup B \cup {0, last}
      BY <2>5, <3>2
    <3>. QED BY <3>3, <3>4, <3>5
  <2>7. PICK at \in Nat : at = ToShow(to, o)
    BY <2>6, ToShowIs
  <2>8. PICK sel : sel = [anchor |-> first, cursor |-> to]
    OBVIOUS
  <2>9. sel \in SelType /\ sel # None
    <3>1. sel \in SelType
      BY <2>6, <2>8 DEF SelType
    <3>. QED BY <3>1, NoneIs
  <2>10. PICK v : v = [view EXCEPT !.offset = at, !.sel = sel]
    OBVIOUS
  <2>11. v \in ViewType /\ v.sel # None
    BY <2>9, <2>10, EventFinds DEF ViewType
  <2>12. Handles(v, mode, drag)
    <3>1. [view EXCEPT !.offset = ToShow(to, @), !.sel = [anchor |-> Min({@.anchor, last}), cursor |-> to]] = v
      BY <2>2, <2>4, <2>7, <2>8, <2>10, EventFinds DEF ViewType
    <3>. QED BY <2>5, <3>1
  <2>. QED BY <2>11, <2>12, EventFinds, HandlesKeeps
<1>3. CASE LeaveSelect
  <2>1. PICK v : v = [view EXCEPT !.sel = None]
    OBVIOUS
  <2>2. v \in ViewType
    BY <2>1, EventFinds DEF ViewType
  <2>3. Handles(v, Normal, drag)
    BY <1>3, <2>1 DEF LeaveSelect
  <2>. QED BY <2>2, <2>3, EventFinds, HandlesKeeps
<1>. QED BY <1>1, <1>2, <1>3

(* A drag extends a selection whose anchor is where the button went down.  *)
LEMMA ExtendedIs ==
  ASSUME LogAssumption, PaneInv, drag # None, NEW v \in ViewType, NEW row \in Nat
  PROVE  Extended(v, row) \in ViewType /\ Extended(v, row).sel # None
<1>1. PICK line \in Nat, d \in Nat : line = LineAt(v, row) /\ d = drag
  BY EventFinds, LineAtIs
<1>2. PICK sel : sel = [anchor |-> d, cursor |-> line]
  OBVIOUS
<1>3. sel \in SelType /\ sel # None
  <2>1. sel \in SelType
    BY <1>2 DEF SelType
  <2>. QED BY <2>1, NoneIs
<1>4. Extended(v, row) = [v EXCEPT !.follow = FALSE, !.sel = sel]
  BY <1>1, <1>2 DEF Extended
<1>. QED BY <1>3, <1>4 DEF ViewType

LEMMA MouseKeeps ==
  ASSUME LogAssumption, PaneInv, Press \/ Release \/ Drag
  PROVE  PaneInv'
<1>0. \A row \in 0..Height - 1 : row \in Nat
  BY NoneIs
<1>1. CASE Press
  <2>1. PICK row \in 0..Height - 1 :
          Handles([view EXCEPT !.sel = None], Normal, IF Size = 0 THEN None ELSE LineAt(view, row))
    BY <1>1 DEF Press
  <2>2. PICK v : v = [view EXCEPT !.sel = None]
    OBVIOUS
  <2>3. v \in ViewType
    BY <2>2, EventFinds DEF ViewType
  <2>4. PICK d : d = IF Size = 0 THEN None ELSE LineAt(view, row)
    OBVIOUS
  <2>5. d \in Nat \cup {None} /\ (d # None => Size > 0)
    <3>1. Size \in Nat /\ view \in ViewType
      BY EventFinds
    <3>2. CASE Size = 0
      BY <2>4, <3>2
    <3>3. CASE Size > 0
      BY <1>0, <2>4, <3>1, <3>3, LineAtIs
    <3>. QED BY <3>1, <3>2, <3>3
  <2>. QED BY <2>1, <2>2, <2>3, <2>4, <2>5, EventFinds, HandlesKeeps
<1>2. CASE Release
  <2>1. Handles(view, mode, None) /\ None \in Nat \cup {None}
    BY <1>2 DEF Release
  <2>. QED BY <2>1, EventFinds, HandlesKeeps
<1>3. CASE Drag
  <2>1. PICK row \in 0..Height - 1 : Handles(Extended(view, row), Selecting, drag)
    BY <1>3 DEF Drag
  <2>2. PICK v \in ViewType : v = Extended(view, row) /\ v.sel # None
    BY <1>0, <1>3, EventFinds, ExtendedIs DEF Drag
  <2>. QED BY <2>1, <2>2, EventFinds, HandlesKeeps
<1>. QED BY <1>1, <1>2, <1>3

LEMMA AutoscrollKeeps ==
  ASSUME LogAssumption, PaneInv, Autoscroll
  PROVE  PaneInv'
<1>. USE DEF PaneInv
<1>1. PICK s \in Steered, pans \in BOOLEAN :
        IF pans \/ s.to.offset # view.offset
          THEN /\ view' = Extended(s.to, s.row)
               /\ mode' = Selecting /\ viewDirty' = TRUE
               /\ frame' = [frame EXCEPT !.shown = None]
          ELSE view' = s.to /\ UNCHANGED <<mode, viewDirty, frame>>
  BY DEF Autoscroll
<1>2. /\ ui = "check" /\ ui' = "due" /\ drag # None
      /\ UNCHANGED <<log, tail, buf, drag, found, dirty, left>>
  BY DEF Autoscroll
<1>3. PICK v \in ViewType, r \in Nat : v = s.to /\ r = s.row /\ v.sel = view.sel /\ v.search = view.search
  <2>0. view \in ViewType /\ Height \in Nat \ {0} /\ Steps \subseteq Nat
    BY EventFinds, NoneIs
  <2>1. ASSUME NEW n \in Steps, s = [to |-> Up(view, n), row |-> 0]
        PROVE  s.to \in ViewType /\ s.row \in Nat /\ s.to.sel = view.sel /\ s.to.search = view.search
    BY <2>0, <2>1, Moved
  <2>2. ASSUME NEW n \in Steps, s = [to |-> [Down(view, n) EXCEPT !.follow = FALSE], row |-> Height - 1]
        PROVE  s.to \in ViewType /\ s.row \in Nat /\ s.to.sel = view.sel /\ s.to.search = view.search
    <3>1. PICK w \in ViewType : w = Down(view, n) /\ w.sel = view.sel /\ w.search = view.search
      BY <2>0, Moved
    <3>2. s.to = [w EXCEPT !.follow = FALSE] /\ s.row = Height - 1
      BY <2>2, <3>1
    <3>3. s.to \in ViewType /\ s.to.sel = w.sel /\ s.to.search = w.search
      BY <3>2 DEF ViewType
    <3>. QED BY <2>0, <3>1, <3>2, <3>3
  <2>3. ASSUME NEW row \in 0..Height - 1, s = [to |-> view, row |-> row]
        PROVE  s.to \in ViewType /\ s.row \in Nat /\ s.to.sel = view.sel /\ s.to.search = view.search
    BY <2>0, <2>3
  <2>4. \/ \E n \in Steps : s = [to |-> Up(view, n), row |-> 0]
        \/ \E n \in Steps : s = [to |-> [Down(view, n) EXCEPT !.follow = FALSE], row |-> Height - 1]
        \/ \E row \in 0..Height - 1 : s = [to |-> view, row |-> row]
    BY DEF Steered
  <2>. QED BY <2>1, <2>2, <2>3, <2>4
<1>4. CASE pans \/ v.offset # view.offset
  <2>1. PICK w \in ViewType : w = Extended(v, r) /\ w.sel # None
    BY <1>2, ExtendedIs
  <2>2. /\ view' = w /\ mode' = Selecting /\ viewDirty' = TRUE
        /\ frame' = [frame EXCEPT !.shown = None]
    BY <1>1, <1>3, <1>4, <2>1
  <2>3. frame'.shown = None /\ frame' = [all |-> frame.all, shown |-> None] /\ Selecting \in ModeType
    BY <2>2, EventFinds DEF PaneTyped
  <2>4. PaneTyped'
    BY <1>2, <2>2, <2>3 DEF PaneTyped, UiType
  <2>5. PlaceInv' /\ FrameDue'
    BY <1>2, <2>1, <2>2 DEF PlaceInv, FrameDue, Size
  <2>6. StaysInv'
    BY <1>2, <2>2, <2>3 DEF StaysInv
  <2>7. TailInv'
    BY <1>2 DEF TailInv, BufWhole
  <2>. QED BY <2>4, <2>5, <2>6, <2>7
<1>5. CASE ~(pans \/ v.offset # view.offset)
  <2>1. view' = v /\ v.offset = view.offset /\ UNCHANGED <<mode, viewDirty, frame>>
    BY <1>1, <1>3, <1>5
  <2>2. PaneTyped'
    BY <1>2, <2>1 DEF PaneTyped, UiType
  <2>3. PlaceInv' /\ FrameDue'
    BY <1>2, <1>3, <2>1 DEF PlaceInv, FrameDue, Size
  <2>4. StaysInv'
    BY <1>2, <1>3, <2>1 DEF StaysInv, Gone, MaxScroll, Size
  <2>5. TailInv'
    BY <1>2 DEF TailInv, BufWhole
  <2>. QED BY <2>2, <2>3, <2>4, <2>5
<1>. QED BY <1>4, <1>5

-----------------------------------------------------------------------------
(* The theorems.                                                           *)

LEMMA PaneStarts ==
  ASSUME LogAssumption, Init
  PROVE  PaneInv
<1>. USE DEF Init
<1>0. MaxSteps \in Nat /\ <<>> \in Seq(Seq(Unit)) /\ Len(<<>>) = 0
  BY DEF LogAssumption
<1>1. PaneTyped
  <2>1. log \in LogType /\ tail \in TailType /\ mode \in ModeType
    BY DEF LogType, TailType, ModeType
  <2>2. buf \in BufType
    BY <1>0 DEF BufType
  <2>3. view \in ViewType
    BY DEF ViewType
  <2>4. DOMAIN frame = {"all", "shown"} /\ frame = [all |-> frame.all, shown |-> frame.shown] /\ frame.all \in BOOLEAN
    OBVIOUS
  <2>5. /\ drag \in Nat \cup {None} /\ found \in Nat \cup {None} /\ ui \in UiType
        /\ dirty \in BOOLEAN /\ viewDirty \in BOOLEAN /\ left \in Int
    <3>1. left = MaxSteps /\ MaxSteps \in Int
      BY <1>0
    <3>. QED BY <3>1 DEF UiType
  <2>. QED BY <2>1, <2>2, <2>3, <2>4, <2>5 DEF PaneTyped
<1>2. PlaceInv /\ FrameDue
  BY DEF PlaceInv, FrameDue, Normal
<1>3. StaysInv
  BY DEF StaysInv
<1>4. TailInv
  BY DEF TailInv, BufWhole, LinesWhole
<1>. QED BY <1>1, <1>2, <1>3, <1>4 DEF PaneInv

LEMMA PaneStays ==
  ASSUME LogAssumption, PaneInv, [Next]_vars
  PROVE  PaneInv'
<1>1. CASE Write \/ Cut
  BY <1>1, WriteKeeps
<1>2. CASE SeedLooks \/ Poll \/ Raise
  BY <1>2, LooksKeep
<1>3. CASE SeedReads
  BY <1>3, SeedReadsKeeps
<1>4. CASE Read
  BY <1>4, ReadKeeps
<1>5. CASE Top \/ Clear
  BY <1>5, LoopKeeps
<1>6. CASE Render
  BY <1>6, RenderKeeps
<1>7. CASE Tick \/ Skip \/ Written
  BY <1>7, RestKeeps
<1>8. CASE Scroll \/ Jump \/ Dismiss
  BY <1>8, ScrollsKeep
<1>9. CASE NextHit \/ OpenPrompt
  BY <1>9, PromptKeeps
<1>10. CASE Type \/ Commit \/ Abandon
  BY <1>10, SearchKeeps
<1>11. CASE Focus
  BY <1>11, FocusKeeps
<1>12. CASE StartSelect \/ Move \/ LeaveSelect
  BY <1>12, SelectKeeps
<1>13. CASE Press \/ Release \/ Drag
  BY <1>13, MouseKeeps
<1>14. CASE Autoscroll
  BY <1>14, AutoscrollKeeps
<1>15. CASE UNCHANGED vars
  BY <1>15 DEF vars, PaneInv, PaneTyped, PlaceInv, StaysInv, TailInv, FrameDue, BufWhole, Gone, Size, MaxScroll
<1>. QED
  BY <1>1, <1>2, <1>3, <1>4, <1>5, <1>6, <1>7, <1>8, <1>9, <1>10, <1>11, <1>12, <1>13,
     <1>14, <1>15 DEF Next

LEMMA PaneIsWhole ==
  ASSUME PaneInv
  PROVE  LogWhole
BY DEF PaneInv, TailInv, BufWhole, LinesWhole, LogWhole, Size

(* Only drawing takes the main thread from "draw" to "writes".             *)
LEMMA OnlyRender ==
  ASSUME [Next]_vars, ui = "draw", ui' = "writes"
  PROVE  Render
<1>1. \/ Write \/ Cut \/ SeedLooks \/ SeedReads \/ Poll \/ Read \/ Raise
      \/ Top \/ Written \/ Focus \/ Autoscroll \/ Tick \/ Skip \/ Clear \/ UNCHANGED vars
      => FALSE
  BY DEF Write, Cut, SeedLooks, SeedReads, Poll, Read, Raise, Top, Written, Focus, Autoscroll,
         Tick, Skip, Clear, vars
<1>2. ASSUME NEW v, NEW m, NEW d, Handles(v, m, d) \/ Seeks(v, m, d) PROVE FALSE
  BY <1>2 DEF Handles, Seeks
<1>3. Scroll \/ Jump \/ Dismiss \/ NextHit \/ OpenPrompt => FALSE
  BY <1>2, Zenon DEF Scroll, Jump, Dismiss, NextHit, OpenPrompt
<1>4. Type \/ Commit \/ Abandon => FALSE
  BY <1>2, Zenon DEF Type, Commit, Abandon
<1>5. StartSelect \/ Move \/ LeaveSelect => FALSE
  BY <1>2, Zenon DEF StartSelect, Move, LeaveSelect
<1>6. Press \/ Release \/ Drag => FALSE
  BY <1>2, Zenon DEF Press, Release, Drag
<1>. QED BY <1>1, <1>3, <1>4, <1>5, <1>6 DEF Next

(* ViewStays, of one step.                                                 *)
Stays ==
  frame.shown # None /\ ui = "draw" /\ ui' = "writes" =>
    LET was == frame.shown
        is == frame'.shown
    IN /\ view.follow \/ is.top = Kept(was.top)
       /\ was.sel # None =>
            is.sel = [anchor |-> Kept(was.sel.anchor), cursor |-> Kept(was.sel.cursor)]
       /\ was.hit # None => is.hit = Kept(was.hit)

LEMMA StepStays ==
  ASSUME LogAssumption, PaneInv, [Next]_vars
  PROVE  Stays
<1>. SUFFICES ASSUME frame.shown # None, ui = "draw", ui' = "writes"
              PROVE  LET was == frame.shown
                         is == frame'.shown
                     IN /\ view.follow \/ is.top = Kept(was.top)
                        /\ was.sel # None =>
                             is.sel = [anchor |-> Kept(was.sel.anchor), cursor |-> Kept(was.sel.cursor)]
                        /\ was.hit # None => is.hit = Kept(was.hit)
  BY DEF Stays
<1>1. PICK was : was = frame.shown
  OBVIOUS
<1>2. PICK v : v = Shifted(view, buf.evicted)
  OBVIOUS
<1>3. PICK w : w = Resolved(v)
  OBVIOUS
<1>4. PICK d \in Nat, m \in Nat : d = buf.dropped /\ m = MaxScroll
  BY PaneSized
<1>5. frame' = [all |-> TRUE, shown |-> Shown(w, d)]
  BY OnlyRender, <1>2, <1>3, <1>4 DEF Render
<1>6. PICK is : is = frame'.shown /\ is = Shown(w, d)
  BY <1>5
<1>7. /\ v \in ViewType /\ was.top \in Nat /\ v.offset = Less(was.top, d) /\ was.top <= d + m
      /\ was.sel # None =>
           /\ was.sel.anchor \in Nat /\ was.sel.cursor \in Nat /\ v.sel # None
           /\ v.sel = [anchor |-> Less(was.sel.anchor, d), cursor |-> Less(was.sel.cursor, d)]
      /\ was.hit # None =>
           was.hit \in Nat /\ v.search # None /\ v.search.hit = Less(was.hit, d)
  BY <1>1, <1>2, <1>4, SlidStays
<1>8. v.follow = view.follow
  BY <1>2, ShiftedIs, PaneSized, EventFinds
<1>9. w \in ViewType /\ w.sel = v.sel /\ w.search = v.search
  BY <1>3, <1>7, Moved
<1>10. /\ is.top = d + w.offset
       /\ w.sel # None => is.sel = [anchor |-> d + w.sel.anchor, cursor |-> d + w.sel.cursor]
       /\ w.search # None /\ w.search.hit # None => is.hit = d + w.search.hit
  BY <1>4, <1>6, <1>9, ShownIs
<1>11. ASSUME NEW x \in Nat
       PROVE  Kept(x) = d + Less(x, d) /\ Less(x, d) \in Nat /\ (x <= d + m => Less(x, d) <= m)
  <2>1. Kept(x) = IF x >= d THEN x ELSE d
    BY <1>4, MaxTwo DEF Kept
  <2>2. Less(x, d) = IF x >= d THEN x - d ELSE 0
    BY LessIs
  <2>. QED BY <1>4, <2>1, <2>2
<1>12. view.follow \/ is.top = Kept(was.top)
  <2>. SUFFICES ASSUME ~view.follow PROVE is.top = Kept(was.top)
    OBVIOUS
  <2>1. PICK o \in Nat : o = v.offset /\ o <= m /\ Kept(was.top) = d + o
    BY <1>7, <1>11
  <2>2. Min({o, m}) = o
    BY <1>4, <2>1, MinTwo
  <2>3. w.offset = IF v.follow THEN m ELSE Min({o, m})
    BY <1>3, <1>4, <1>7, <2>1 DEF Resolved, ViewType
  <2>. QED BY <1>8, <1>10, <2>1, <2>2, <2>3
<1>13. ASSUME was.sel # None
       PROVE  is.sel = [anchor |-> Kept(was.sel.anchor), cursor |-> Kept(was.sel.cursor)]
  <2>1. PICK a \in Nat, c \in Nat : a = was.sel.anchor /\ c = was.sel.cursor
    BY <1>7, <1>13
  <2>2. w.sel # None /\ w.sel = [anchor |-> Less(a, d), cursor |-> Less(c, d)]
    BY <1>7, <1>9, <1>13, <2>1
  <2>3. is.sel = [anchor |-> d + Less(a, d), cursor |-> d + Less(c, d)]
    BY <1>10, <2>2
  <2>4. Kept(a) = d + Less(a, d) /\ Kept(c) = d + Less(c, d)
    BY <1>11
  <2>. QED BY <2>1, <2>3, <2>4
<1>14. ASSUME was.hit # None
       PROVE  is.hit = Kept(was.hit)
  <2>1. PICK h \in Nat : h = was.hit
    BY <1>7, <1>14
  <2>2. w.search # None /\ w.search.hit = Less(h, d)
    BY <1>7, <1>9, <1>14, <2>1
  <2>3. w.search.hit # None
    BY <1>11, <2>2, NoneIs
  <2>. QED BY <1>10, <1>11, <2>1, <2>2, <2>3
<1>. QED BY <1>1, <1>6, <1>12, <1>13, <1>14

(* The inductive invariant.                                                *)
THEOREM PaneHolds == ASSUME LogAssumption PROVE Spec => []PaneInv
<1>1. Init => PaneInv
  BY PaneStarts
<1>2. PaneInv /\ [Next]_vars => PaneInv'
  BY PaneStays
<1>. QED BY <1>1, <1>2, PTL DEF Spec

(* The lines of the pane are the log as it was written.                    *)
THEOREM LogIsWhole == ASSUME LogAssumption PROVE Spec => []LogWhole
BY PaneHolds, PaneIsWhole, PTL

(* What landed is on the screen or a frame is due.                         *)
THEOREM FramesDue == ASSUME LogAssumption PROVE Spec => []FrameDue
<1>1. PaneInv => FrameDue
  BY DEF PaneInv
<1>. QED BY <1>1, PaneHolds, PTL

(* The paused view, the selection and the hit stay on their lines.         *)
THEOREM ViewsStay == ASSUME LogAssumption PROVE Spec => ViewStays
<1>1. PaneInv /\ [Next]_vars => [Stays]_vars
  BY StepStays
<1>2. [][Stays]_vars => ViewStays
  BY PTL DEF Stays, ViewStays
<1>. QED BY <1>1, <1>2, PaneHolds, PTL DEF Spec
=============================================================================
