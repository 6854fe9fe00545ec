------------------------------- MODULE Kernel -------------------------------
(* The calculus of toolchain-debug/bend.ts: its terms, the usage measure of *)
(* a variable, weak head evaluation, conversion and the bidirectional check.*)
(* Binders are locally nameless: a bound variable is an index, a free one   *)
(* the level at which it was opened, so a closure of the source is a body   *)
(* to Open.  The share cells of the source, which make an argument evaluate *)
(* once, are left out: they change what an evaluation costs, not its result.*)
(* So are names, spans, and the text of an error: a check ends well or not. *)
EXTENDS Integers, Sequences, FiniteSets, SequencesExt

CONSTANT Fuel   \* steps an evaluation is given before it counts as divergent

ASSUME FuelAssumption == Fuel \in Nat \ {0}

-----------------------------------------------------------------------------
(* Terms                                                                    *)

Node(op, k, i, q, r, xs) == [op |-> op, k |-> k, i |-> i, q |-> q, r |-> r, xs |-> xs]
Plain(op, xs) == Node(op, "", 0, <<>>, {}, xs)

Var(i) == Node("Var", "", i, <<>>, {}, <<>>)      \* free, at a level
Named(i, v) == Node("Var", "", i, <<>>, {}, <<v>>) \* by a let, which gave it v
Bnd(i) == Node("Bnd", "", i, <<>>, {}, <<>>)      \* bound, by an index
Ref(k) == Node("Ref", k, 0, <<>>, {}, <<>>)
Let(q, v, f) == Node("Let", "", 0, q, {}, v \o <<f>>)
Typ(g) == Plain("Typ", <<g>>)
Qnt == Plain("Qnt", <<>>)
Qua(q) == Node("Qua", "", 0, <<q>>, {}, <<>>)
Min2(a, b) == Plain("Min", <<a, b>>)
All(q, A, B) == Node("All", "", 0, <<q>>, {}, <<A, B>>)
Lam(f) == Plain("Lam", <<f>>)
App(f, x) == Plain("App", <<f, x>>)
ADT(k, x, r) == Node("ADT", k, 0, <<>>, r, x)
Ctr(k, x) == Node("Ctr", k, 0, <<>>, {}, x)
Mat(k, h, m) == Node("Mat", k, 0, <<>>, {}, <<h, m>>)
Efq == Plain("Efq", <<>>)
Eql(a, b, T) == Plain("Eql", <<a, b, T>>)
Rfl == Plain("Rfl", <<>>)
Rwt(e, p, f) == Plain("Rwt", <<e, p, f>>)
Hol(k) == Node("Hol", k, 0, <<>>, {}, <<>>)
Ann(x, T) == Plain("Ann", <<x, T>>)

Nil == Plain("Nil", <<>>)         \* the null body of a definition
Lost == Hol("fuel")               \* an evaluation that ran out of fuel
IsQua(t, q) == t.op = "Qua" /\ t.q[1] = q

\* How many binders the part j of a term stands under.
Binders(t, j) ==
  CASE t.op = "Lam" -> 1
    [] t.op = "All" /\ j = 2 -> 1
    [] t.op = "Let" /\ j = Len(t.xs) -> Len(t.q)
    [] OTHER -> 0

\* A closure of the source, applied: the last of us is bound the innermost.
RECURSIVE OpenAt(_, _, _)
OpenAt(t, us, n) ==
  CASE t.op = "Bnd" -> IF t.i \in n .. n + Len(us) - 1 THEN us[Len(us) - (t.i - n)] ELSE t
    [] t.xs = <<>> -> t
    [] OTHER -> [t EXCEPT !.xs = [j \in DOMAIN t.xs |-> OpenAt(t.xs[j], us, n + Binders(t, j))]]
Open(f, x) == OpenAt(f, <<x>>, 0)

\* The other way: the body of the binder of what was the free variable i.
RECURSIVE CloseAt(_, _, _)
CloseAt(t, i, n) ==
  CASE t.op = "Var" /\ t.i = i -> Bnd(n)
    [] t.xs = <<>> -> t
    [] OTHER -> [t EXCEPT !.xs = [j \in DOMAIN t.xs |-> CloseAt(t.xs[j], i, n + Binders(t, j))]]
Close(t, i) == CloseAt(t, i, 0)

Replace(t, i, v) == Open(Close(t, i), v)

RECURSIVE Strip(_)
Strip(t) == IF t.op = "Ann" \/ (t.op = "Var" /\ t.xs # <<>>) THEN Strip(t.xs[1]) ELSE t

Apply(fn, x) == LET f == Strip(fn) IN IF f.op = "Lam" THEN Open(f.xs[1], x) ELSE App(f, x)

\* The head of a spine, and its arguments in order.
RECURSIVE Unapply(_, _)
Unapply(t, xs) == IF t.op = "App" THEN Unapply(t.xs[1], <<t.xs[2]>> \o xs) ELSE [f |-> t, xs |-> xs]

-----------------------------------------------------------------------------
(* Maps from numbers: a binary tree, whose odd keys are to the left         *)

Emp == <<>>
Bin(v, l, r) == <<v, l, r>>

RECURSIVE PmapGet(_, _)
PmapGet(m, k) ==
  IF m = Emp THEN <<>>
  ELSE IF k = 0 THEN m[1]
  ELSE IF k % 2 = 1 THEN PmapGet(m[2], (k - 1) \div 2) ELSE PmapGet(m[3], (k - 2) \div 2)

RECURSIVE PmapSet(_, _, _)
PmapSet(m, k, v) ==
  IF m = Emp THEN PmapSet(Bin(<<>>, Emp, Emp), k, v)
  ELSE IF k = 0 THEN Bin(<<v>>, m[2], m[3])
  ELSE IF k % 2 = 1 THEN Bin(m[1], PmapSet(m[2], (k - 1) \div 2, v), m[3])
  ELSE Bin(m[1], m[2], PmapSet(m[3], (k - 2) \div 2, v))

RECURSIVE PmapVals(_)
PmapVals(m) == IF m = Emp THEN {} ELSE Range(m[1]) \cup PmapVals(m[2]) \cup PmapVals(m[3])

-----------------------------------------------------------------------------
(* Quantities, and the measured usage of each free variable                 *)

\* Mutant: two uses one after the other measured as in two branches.
QuantAddJoins(a, b) == IF "Many" \in {a, b} THEN "Many" ELSE IF a = "None" THEN b ELSE a

QuantAdd(a, b) == IF a = "None" THEN b ELSE IF b = "None" THEN a ELSE "Many"

QuantJoin(a, b) == IF "Many" \in {a, b} THEN "Many" ELSE IF a = "None" THEN b ELSE a

QuantDem(q, qt) == IF q = "None" THEN "None" ELSE qt

\* A binder declared q affords the measured usage u.
QuantUsed(q, u) == QuantJoin(u, q) = q

UsesGet(us, i) == LET u == PmapGet(us, i) IN IF u = <<>> THEN "None" ELSE u[1]
UsesDel(us, i) == PmapSet(us, i, "None")

\* One after the other ("add"), or one or the other ("join").
RECURSIVE PmapUnion(_, _, _)
PmapUnion(how, a, b) ==
  IF a = Emp THEN b ELSE IF b = Emp THEN a
  ELSE LET v == IF a[1] = <<>> THEN b[1] ELSE IF b[1] = <<>> THEN a[1]
                ELSE <<IF how = "add" THEN QuantAdd(a[1][1], b[1][1])
                       ELSE QuantJoin(a[1][1], b[1][1])>>
       IN  Bin(v, PmapUnion(how, a[2], b[2]), PmapUnion(how, a[3], b[3]))
UsesAdd(a, b) == PmapUnion("add", a, b)

-----------------------------------------------------------------------------
(* Weak head normal form: a machine of a term, a stack of frames, and the   *)
(* equation of the definition being unfolded, with the parameters it still  *)
(* has to consume; a match that gets stuck gives the equation back.         *)

NoLhs == [t |-> Nil, n |-> -1]
Frame(op, x, t, lhs) == [op |-> op, x |-> x, t |-> t, lhs |-> lhs]
Pushed(x) == Frame("APP", x, Nil, NoLhs)

\* The equation, one parameter further: a constructor with open fields.
RECURSIVE Lams(_, _)
Lams(t, n) == IF n = 0 THEN t ELSE Lams(Lam(Close(t, -n)), n - 1)
LhsExt(lhs, k, n) == Lams(Apply(lhs, Ctr(k, [j \in 1..n |-> Var(-j)])), n)

\* The arm a constructor takes: a Mat of its name, an Efq, or a default.
RECURSIVE Arm(_, _)
Arm(t, k) ==
  CASE t.op = "Ann" -> Arm(t.xs[1], k)
    [] t.op = "Mat" /\ t.k # k -> Arm(t.xs[2], k)
    [] OTHER -> t

RECURSIVE Wnf(_, _)

Focus(bk, m) ==
  LET t == m.tm
      isApp(j) == j <= Len(m.frs) /\ m.frs[j].op = "APP"
      x == Head(m.frs).x
      turn == [m EXCEPT !.back = TRUE, !.lhs = NoLhs]
  IN
  CASE t.op = "Ann" -> [m EXCEPT !.tm = t.xs[1]]
    [] t.op = "Var" /\ t.xs # <<>> -> [m EXCEPT !.tm = t.xs[1], !.lhs = NoLhs]
    [] t.op = "Min" -> [m EXCEPT !.tm = t.xs[1], !.frs = <<Frame("MNA", t.xs[2], Nil, NoLhs)>> \o @]
    [] t.op = "Let" -> [m EXCEPT !.tm = OpenAt(Last(t.xs), Front(t.xs), 0)]
    [] t.op = "App" -> [m EXCEPT !.tm = t.xs[1], !.frs = <<Pushed(t.xs[2])>> \o @, !.lhs = NoLhs]
    [] t.op = "Lam" /\ isApp(1) ->
         [m EXCEPT !.tm = Open(t.xs[1], x), !.frs = Tail(@),
                   !.lhs = IF @.n <= 0 THEN NoLhs ELSE [t |-> Apply(@.t, x), n |-> @.n - 1]]
    [] t.op = "Mat" /\ isApp(1) ->
         [m EXCEPT !.tm = x, !.frs = <<Frame("MAT", x, t, m.lhs)>> \o Tail(@), !.lhs = NoLhs]
    [] t.op = "Efq" /\ isApp(1) /\ m.lhs.n > 0 -> [turn EXCEPT !.tm = m.lhs.t]
    [] t.op = "Rwt" /\ Wnf(bk, t.xs[1]).op = "Rfl" -> [m EXCEPT !.tm = t.xs[3]]
    [] t.op = "Ref" /\ t.k \in DOMAIN bk ->
         LET tld == bk[t.k] IN
         IF tld.is = "ADT" THEN IF tld.n = 0 THEN [turn EXCEPT !.tm = ADT(t.k, <<>>, {})] ELSE turn
         ELSE IF tld.v # Nil /\ \A j \in 1..tld.n : isApp(j)
         THEN [m EXCEPT !.tm = tld.v, !.lhs = [t |-> t, n |-> tld.n]] ELSE turn
    [] OTHER -> turn

\* A match meets its scrutinee.
BackMat(m, fr) ==
  LET t == m.tm
      arm == Arm(fr.t, t.k)
      stuck == [m EXCEPT !.tm = Apply(IF fr.lhs = NoLhs THEN fr.t ELSE fr.lhs.t, fr.x)]
      n == Len(t.xs)
  IN
  CASE t.op # "Ctr" \/ arm.op = "Efq" -> stuck
    [] arm.op = "Mat" ->
         [tm |-> arm.xs[1], frs |-> [j \in 1..n |-> Pushed(t.xs[j])] \o m.frs, back |-> FALSE,
          lhs |-> IF fr.lhs = NoLhs THEN NoLhs
                  ELSE [t |-> LhsExt(fr.lhs.t, t.k, n), n |-> fr.lhs.n - 1 + n]]
    [] OTHER -> [tm |-> arm, frs |-> <<Pushed(t)>> \o m.frs, back |-> FALSE, lhs |-> fr.lhs]

Back(m0) ==
  LET fr == Head(m0.frs)
      m == [m0 EXCEPT !.frs = Tail(@)]
      t == m.tm
  IN
  CASE fr.op = "APP" -> [m EXCEPT !.tm = Apply(t, fr.x)]
    [] fr.op = "MAT" -> BackMat(m, fr)
    [] fr.op = "MNA" ->
         CASE IsQua(t, "Many") -> [m EXCEPT !.tm = fr.x, !.back = FALSE]
           [] IsQua(t, "None") -> m
           [] OTHER -> [m EXCEPT !.tm = fr.x, !.back = FALSE,
                                 !.frs = <<Frame("MNB", t, Nil, NoLhs)>> \o @]
    [] fr.op = "MNB" ->
         CASE IsQua(t, "Many") -> [m EXCEPT !.tm = fr.x]
           [] t.op # "Qua" \/ (IsQua(t, "Lone") /\ fr.x.op # "Qua") -> [m EXCEPT !.tm = Min2(fr.x, t)]
           [] OTHER -> m

RECURSIVE Machine(_, _, _)
Machine(bk, m, n) ==
  CASE m.back /\ m.frs = <<>> -> m.tm
    [] n = 0 -> Lost
    [] OTHER -> Machine(bk, IF m.back THEN Back(m) ELSE Focus(bk, m), n - 1)

Wnf(bk, t) == Machine(bk, [tm |-> t, frs |-> <<>>, lhs |-> NoLhs, back |-> FALSE], Fuel)

\* The normal form of every part; d is above every free level of the term.
RECURSIVE Snf(_, _, _)
Snf(bk, term, d) ==
  LET t == Wnf(bk, term) IN
  CASE t.op = "App" -> App(IF t.xs[1].op = "Ref" THEN t.xs[1] ELSE Snf(bk, t.xs[1], d), Snf(bk, t.xs[2], d))
    [] OTHER -> [t EXCEPT !.xs = [j \in DOMAIN t.xs |->
         IF Binders(t, j) = 0 THEN Snf(bk, t.xs[j], d)
         ELSE Close(Snf(bk, Open(t.xs[j], Var(d)), d + 1), d)]]
-----------------------------------------------------------------------------
(* Conversion: a fits b.  "LE" is directional at kinds and at the removed   *)
(* constructors of a datatype, "EQ" nowhere.                                *)

RECURSIVE Compare(_, _, _, _, _)

\* Kind(g) fits Kind(h), both in normal form: a meet fits under either side.
RECURSIVE KindFits(_, _, _, _)
KindFits(bk, g, h, d) ==
  CASE IsQua(g, "Many") \/ IsQua(h, "None") \/ IsQua(h, "Lone") -> TRUE
    [] g.op = "Min" -> \A j \in 1..2 : KindFits(bk, Wnf(bk, g.xs[j]), h, d)
    [] h.op = "Min" -> \E j \in 1..2 : KindFits(bk, g, Wnf(bk, h.xs[j]), d)
    [] OTHER -> Compare("LE", bk, g, h, d)

\* Two terms in weak head normal form.
Alike(mode, bk, a, b, d) ==
  LET x == Var(d)
      parts == Len(a.xs) = Len(b.xs) /\ \A j \in DOMAIN a.xs : Compare("EQ", bk, a.xs[j], b.xs[j], d)
  IN
  CASE "Lam" \in {a.op, b.op} -> Compare(mode, bk, Apply(a, x), Apply(b, x), d + 1)
    [] a.op # b.op \/ Lost \in {a, b} -> FALSE
    [] a.op = "Typ" /\ mode = "LE" -> KindFits(bk, Wnf(bk, a.xs[1]), Wnf(bk, b.xs[1]), d)
    [] a.op = "All" -> /\ a.q = b.q
                       /\ Compare(mode, bk, b.xs[1], a.xs[1], d)
                       /\ Compare(mode, bk, Open(a.xs[2], x), Open(b.xs[2], x), d + 1)
    [] OTHER -> /\ a.i = b.i /\ a.k = b.k /\ a.q = b.q
                /\ b.r \subseteq a.r
                /\ mode = "EQ" => Cardinality(a.r) = Cardinality(b.r)
                /\ parts

Compare(mode, bk, l, r, d) == Alike(mode, bk, Wnf(bk, l), Wnf(bk, r), d)

-----------------------------------------------------------------------------
(* The book, and the telescopes of its declarations                         *)

\* The declared constructors of the datatype t less those a match removed.
Remaining(bk, t) == SelectSeq(bk[t.k].c, LAMBDA c : c.k \notin t.r)
IsFamily(bk, t) == t.k \in DOMAIN bk /\ bk[t.k].is = "ADT"

CtrsFind(cs, k) == SelectSeq(cs, LAMBDA c : c.k = k)

\* A live binder at an emptied datatype makes the region unreachable.
CtxDead(bk, ctx) ==
  \E a \in PmapVals(ctx) :
    a.q # "None" /\ LET t == Wnf(bk, a.T) IN t.op = "ADT" /\ IsFamily(bk, t) /\ Remaining(bk, t) = <<>>

\* Filling a telescope with the parameters it binds.
RECURSIVE TeleFill(_, _, _)
TeleFill(bk, tel, xs) ==
  IF xs = <<>> THEN tel
  ELSE LET t == Wnf(bk, tel) IN
       IF t.op # "All" THEN Hol("telescope") ELSE TeleFill(bk, Open(t.xs[2], Head(xs)), Tail(xs))

\* The binders of a type, each at its level, and what they end in.
RECURSIVE TeleUnbind(_, _, _)
TeleUnbind(bk, T, doms) ==
  LET t == Wnf(bk, T) IN
  IF t.op # "All" THEN [doms |-> doms, ret |-> t]
  ELSE TeleUnbind(bk, Open(t.xs[2], Var(Len(doms))), Append(doms, [q |-> t.q[1], T |-> t.xs[1]]))

-----------------------------------------------------------------------------
(* The check: one bidirectional pass that measures usage as it goes.  The   *)
(* demand qt is None in a dead region and Lone in a live one; lhs is the    *)
(* equation of the definition being checked, with the quantities of its     *)
(* parameters, by which a live call of itself must descend.                 *)

Bad == [ok |-> FALSE, us |-> Emp, ty |-> Nil]
Good(ty, us) == [ok |-> TRUE, us |-> us, ty |-> ty]
When(guard, res) == IF guard THEN res ELSE Bad

LhsKind(lhs, q) == IF lhs.u /\ q = "Many" THEN "Lone" ELSE q
CtxBind(ctx, i, q, T) == PmapSet(ctx, i, [q |-> q, T |-> T])

\* How an argument stands to the pattern of its column.
RECURSIVE Descend(_, _, _)
RECURSIVE Fields(_, _, _)
Fields(as, ps, ord) ==
  IF as = <<>> \/ ord = "GT" THEN ord
  ELSE LET f == Descend("Lone", Head(as), Head(ps))
       IN  Fields(Tail(as), Tail(ps), IF f = "EQ" THEN ord ELSE f)
Descend(q, arg, col) ==
  LET a == Strip(arg)
      p == Strip(col)
      same == IF a.op = "Ctr" /\ a.k = p.k /\ Len(a.xs) = Len(p.xs) THEN Fields(a.xs, p.xs, "EQ") ELSE "GT"
  IN
  CASE q = "None" -> "EQ"
    [] p.op = "Var" -> IF a.op = "Var" /\ a.i = p.i THEN "EQ" ELSE "GT"
    [] p.op # "Ctr" -> "GT"
    [] same # "GT" -> same
    [] OTHER -> IF \E j \in DOMAIN p.xs : Descend("Lone", a, p.xs[j]) # "GT" THEN "LT" ELSE "GT"

\* Mutant: any column may shrink, whatever those before it did.
RECURSIVE ColumnsAny(_, _, _)
ColumnsAny(qs, sp, cols) ==
  IF cols = <<>> \/ sp = <<>> THEN FALSE
  ELSE Descend(Head(qs), Head(sp), Head(cols)) = "LT" \/ ColumnsAny(Tail(qs), Tail(sp), Tail(cols))

\* Columns are read left to right: each passed unchanged until one shrinks.
RECURSIVE Columns(_, _, _)
Columns(qs, sp, cols) ==
  IF cols = <<>> \/ sp = <<>> THEN FALSE
  ELSE LET ord == Descend(Head(qs), Head(sp), Head(cols))
       IN  ord = "LT" \/ (ord = "EQ" /\ Columns(Tail(qs), Tail(sp), Tail(cols)))

InferRef(bk, lhs, t, qt, sp) ==
  LET tld == bk[t.k]
      self == qt # "None" /\ t.k = lhs.def
      bodiless == tld.is = "Def" /\ tld.v = Nil /\ ~tld.b /\ tld.i = <<>>
      family == tld.is = "ADT" /\ tld.n > 0
  IN
  When(/\ t.k \in DOMAIN bk
       /\ self => lhs.u \/ Columns(lhs.qs, sp, Unapply(lhs.t, <<>>).xs)
       /\ ~self => ~family /\ ~(qt # "None" /\ bodiless),
       Good(tld.T, Emp))

\* A term against a goal, or without one (Nil) with the spine above it.
RECURSIVE Judge(_, _, _, _, _, _, _, _)
Infer(bk, lhs, t, qt, ctx, d, sp) == Judge(bk, lhs, t, qt, Nil, ctx, d, sp)
Check(bk, lhs, t, qt, ty, ctx, d) == Judge(bk, lhs, t, qt, ty, ctx, d, <<>>)

Dead(bk, lhs, t, ty, ctx, d) == Check(bk, lhs, t, "None", ty, ctx, d).ok

\* The arguments of a telescope; ty is what is left of it.
RECURSIVE TeleCheck(_, _, _, _, _, _, _, _)
TeleCheck(bk, lhs, tel, xs, qt, ctx, d, us) ==
  IF xs = <<>> THEN Good(tel, us)
  ELSE LET t == Wnf(bk, tel)
           x == Check(bk, lhs, Head(xs), QuantDem(t.q[1], qt), t.xs[1], ctx, d)
       IN  IF t.op # "All" \/ ~x.ok THEN Bad
           ELSE TeleCheck(bk, lhs, Open(t.xs[2], Head(xs)), Tail(xs), qt, ctx, d, UsesAdd(us, x.us))

InferCall(bk, lhs, t, qt, ctx, d, f, F) ==
  LET x == Check(bk, lhs, t.xs[2], QuantDem(F.q[1], qt), F.xs[1], ctx, d)
  IN  When(f.ok /\ F.op = "All" /\ x.ok, Good(Open(F.xs[2], t.xs[2]), UsesAdd(f.us, x.us)))

InferApp(bk, lhs, t, qt, ctx, d, sp) ==
  LET f == Infer(bk, lhs, t.xs[1], qt, ctx, d, <<t.xs[2]>> \o sp) IN
  IF t.xs[1].op = "Lam" THEN Infer(bk, lhs, Open(t.xs[1].xs[1], t.xs[2]), qt, ctx, d, sp)
  ELSE InferCall(bk, lhs, t, qt, ctx, d, f, Wnf(bk, f.ty))

Type == Typ(Qua("Lone"))
Data == Typ(Qua("Many"))

InferBy(bk, lhs, t, qt, ctx, d, sp) ==
  CASE t.op = "Var" ->
         LET a == PmapGet(ctx, t.i) IN When(a # <<>>, Good(a[1].T, PmapSet(Emp, t.i, qt)))
    [] t.op = "Ref" -> InferRef(bk, lhs, t, qt, sp)
    [] t.op = "Typ" -> When(Dead(bk, lhs, t.xs[1], Qnt, ctx, d), Good(Type, Emp))
    [] t.op = "Qnt" -> Good(Type, Emp)
    [] t.op = "Qua" -> Good(Qnt, Emp)
    [] t.op = "Min" ->
         LET a == Check(bk, lhs, t.xs[1], qt, Qnt, ctx, d)
             b == Check(bk, lhs, t.xs[2], qt, Qnt, ctx, d)
         IN  When(a.ok /\ b.ok, Good(Qnt, UsesAdd(a.us, b.us)))
    [] t.op = "All" ->
         When(/\ Dead(bk, lhs, t.xs[1], Typ(Qua(LhsKind(lhs, t.q[1]))), ctx, d)
              /\ Dead(bk, lhs, Open(t.xs[2], Var(d)), Type, CtxBind(ctx, d, t.q[1], t.xs[1]), d + 1),
              Good(Type, Emp))
    [] t.op = "App" -> InferApp(bk, lhs, t, qt, ctx, d, sp)
    [] t.op = "ADT" -> IF IsFamily(bk, t) /\ Len(t.xs) = bk[t.k].n
                       THEN TeleCheck(bk, lhs, bk[t.k].T, t.xs, qt, ctx, d, Emp) ELSE Bad
    [] t.op = "Eql" ->
         When(/\ Dead(bk, lhs, t.xs[3], Type, ctx, d)
              /\ \A j \in 1..2 : Dead(bk, lhs, t.xs[j], t.xs[3], ctx, d), Good(Data, Emp))
    [] t.op = "Ann" ->
         LET x == Check(bk, lhs, t.xs[1], qt, t.xs[2], ctx, d)
         IN  When(Dead(bk, lhs, t.xs[2], Type, ctx, d) /\ x.ok, Good(t.xs[2], x.us))
    [] OTHER -> Bad
CheckLam(bk, lhs, t, qt, T, ctx, d) ==
  LET x == Var(d)
      inner == IF lhs.n > 0 THEN [lhs EXCEPT !.t = Apply(@, x), !.n = @ - 1] ELSE lhs
      f == Check(bk, inner, Open(t.xs[1], x), qt, Open(T.xs[2], x),
                 CtxBind(ctx, d, T.q[1], T.xs[1]), d + 1)
  IN  When(f.ok /\ QuantUsed(T.q[1], UsesGet(f.us, d)), Good(T, UsesDel(f.us, d)))

\* The values of a parallel let stand in the outer scope.
RECURSIVE LetUses(_, _, _, _, _)
LetUses(q, us, d, j, ok) ==
  IF j > Len(q) THEN [ok |-> ok, us |-> us]
  ELSE LetUses(q, UsesDel(us, d + j - 1), d, j + 1, ok /\ QuantUsed(q[j], UsesGet(us, d + j - 1)))

CheckLet(bk, lhs, t, qt, ty, ctx, d) ==
  LET n == Len(t.q)
      v == [j \in 1..n |-> Infer(bk, lhs, t.xs[j], QuantDem(t.q[j], qt), ctx, d, <<>>)]
      bound == [j \in 0..n |-> FoldLeft(LAMBDA c, i : CtxBind(c, d + i - 1, t.q[i], v[i].ty), ctx,
                                       [i \in 1..j |-> i])]
      f == Check(bk, lhs, OpenAt(Last(t.xs), [j \in 1..n |-> Named(d + j - 1, t.xs[j])], 0), qt, ty, bound[n], d + n)
      left == LetUses(t.q, f.us, d, 1, TRUE)
  IN
  When(/\ \A j \in 1..n : v[j].ok /\ Dead(bk, lhs, v[j].ty, Typ(Qua(LhsKind(lhs, t.q[j]))), ctx, d)
       /\ f.ok /\ left.ok,
       Good(ty, FoldLeft(LAMBDA us, x : UsesAdd(us, x.us), left.us, v)))

CheckCtr(bk, lhs, t, qt, T, c, ctx, d) ==
  IF c = <<>> \/ Len(t.xs) # c[1].n THEN Bad
  ELSE TeleCheck(bk, lhs, TeleFill(bk, c[1].T, T.xs), t.xs, qt, ctx, d, Emp)

\* A field's quantity times its scrutinee's.
FieldQuant(r, q) == CASE r = "None" -> "None" [] r = "Lone" -> q [] OTHER -> QuantAdd(q, q)

\* The goal of the arm of a constructor: its fields, then the motive at it.
RECURSIVE MatGoal(_, _, _, _, _, _, _)
MatGoal(bk, T, k, cur, n, xs, d) ==
  IF n = 0 THEN Open(T.xs[2], Ctr(k, xs))
  ELSE LET c == Wnf(bk, cur)
           x == Var(d)
       IN  All(FieldQuant(c.q[1], T.q[1]), c.xs[1],
               Close(MatGoal(bk, T, k, Open(c.xs[2], x), n - 1, Append(xs, x), d + 1), d))

\* The arm of the constructor c, and the match on the others.
CheckArm(bk, lhs, t, qt, T, A, c, ctx, d) ==
  LET arm == IF lhs.n > 0 THEN [lhs EXCEPT !.t = LhsExt(@, t.k, c.n), !.n = @ - 1 + c.n] ELSE lhs
      h == Check(bk, arm, t.xs[1], qt, MatGoal(bk, T, t.k, TeleFill(bk, c.T, A.xs), c.n, <<>>, d), ctx, d)
      m == Check(bk, lhs, t.xs[2], qt, All(T.q[1], ADT(A.k, A.xs, A.r \cup {c.k}), T.xs[2]), ctx, d)
  IN  When(h.ok /\ m.ok, Good(T, PmapUnion("join", h.us, m.us)))

CheckMat(bk, lhs, t, qt, T, A, ctx, d) ==
  LET rem == Remaining(bk, A)
      c == CtrsFind(rem, t.k)
  IN
  CASE qt # "None" /\ T.q[1] = "None" -> Bad
    [] A.op # "ADT" \/ ~IsFamily(bk, A) -> Bad
    [] t.op = "Efq" -> When(rem = <<>> \/ CtxDead(bk, ctx), Good(T, Emp))
    [] c = <<>> -> Bad
    [] OTHER -> CheckArm(bk, lhs, t, qt, T, A, c[1], ctx, d)

\* The J axiom: both the equation and its second endpoint specialise.
CheckRwt(bk, lhs, t, qt, ty, ctx, d, e, E) ==
  LET a == E.xs[1]
      motive == All("Lone", E.xs[3], All("Lone", Eql(a, Bnd(0), E.xs[3]), Type))
      goal(x, y) == Apply(Apply(t.xs[2], x), y)
      f == Check(bk, lhs, t.xs[3], qt, goal(a, Rfl), ctx, d)
  IN
  When(/\ e.ok /\ E.op = "Eql"
       /\ Dead(bk, lhs, t.xs[2], motive, ctx, d)
       /\ Compare("LE", bk, goal(E.xs[2], t.xs[1]), ty, d)
       /\ f.ok,
       Good(ty, UsesAdd(e.us, f.us)))

CheckBy(bk, lhs, t, qt, ty, ctx, d) ==
  LET T == Wnf(bk, ty)
      x == Infer(bk, lhs, IF t.op = "Rwt" THEN t.xs[1] ELSE t, qt, ctx, d, <<>>)
  IN
  CASE t.op = "Lam" -> IF T.op = "All" THEN CheckLam(bk, lhs, t, qt, T, ctx, d) ELSE Bad
    [] t.op = "Let" -> CheckLet(bk, lhs, t, qt, ty, ctx, d)
    [] t.op = "Ctr" -> IF T.op = "ADT" /\ IsFamily(bk, T) THEN CheckCtr(bk, lhs, t, qt, T, CtrsFind(Remaining(bk, T), t.k), ctx, d) ELSE Bad
    [] t.op \in {"Mat", "Efq"} -> IF T.op = "All" THEN CheckMat(bk, lhs, t, qt, T, Wnf(bk, T.xs[1]), ctx, d) ELSE Bad
    [] t.op = "Rfl" -> When(T.op = "Eql" /\ Compare("EQ", bk, T.xs[1], T.xs[2], d), Good(ty, Emp))
    [] t.op = "Hol" -> When(t.k = "TODO", Good(ty, Emp))
    [] t.op = "Rwt" -> CheckRwt(bk, lhs, t, qt, ty, ctx, d, x, Wnf(bk, x.ty))
    [] OTHER -> When(x.ok /\ Compare("LE", bk, x.ty, ty, d), x)

Judge(bk, lhs, t, qt, goal, ctx, d, sp) ==
  IF goal = Nil THEN InferBy(bk, lhs, t, qt, ctx, d, sp) ELSE CheckBy(bk, lhs, t, qt, goal, ctx, d)
=============================================================================
