------------------------------ MODULE MCChecker -----------------------------
(* Small worlds for TLC: every one of a few families of clauses, the        *)
(* declarations and bodies the source's rules are about, and small trees of *)
(* files.                                                                   *)
EXTENDS Checker

NatT == Ref("Nat")
Zero == Ctr("Zero", <<>>)
Succ(n) == Ctr("Succ", <<n>>)
Two == Succ(Succ(Zero))
Call(f, xs) == FoldLeft(App, Ref(f), xs)
NatEv == TypeEv("Nat", 0, Data, <<CtrDecl("Zero", 0, NatT), CtrDecl("Succ", 1, All("Lone", NatT, NatT))>>)
Val(k, T, v) == DefEv(k, 0, T, Reply(v), <<>>)

\* One file and Base: its events, whether Base was read before, and f's clauses.
MAIN == <<"/", "main">>
World(base, events, past, rows) ==
  [disk |-> (BASE :> Text(<<>>, base)) @@ (MAIN :> Text(<<ImportBase>>, events)), hub |-> NoNames,
   file |-> MAIN, past |-> past, share |-> FALSE, rows |-> rows]

-----------------------------------------------------------------------------
(* f of a number, by clauses over x = 50, its predecessor 51 and its 52    *)

x == Var(50)
p == Var(51)
pp == Var(52)

F(q, rows) ==
  World(<<NatEv>>, <<DefEv("f", 1, All(q, NatT, NatT), Match(<<x>>, rows), <<50>>),
                     Val("main", NatT, Call("f", <<Two>>))>>, {TRUE}, rows)

f(n) == Call("f", <<n>>)
Row(pat, e) == Case(<<pat>>, Reply(e))
Over(v) == {v, Zero, Succ(v), f(v), f(Succ(v)), Succ(f(v)), f(f(v)), Succ(Succ(v))}
Rows1 == {Row(Zero, Zero), Row(Zero, f(Zero)), Row(Zero, Succ(Zero))}
         \cup {Row(Succ(Var(51)), e) : e \in Over(p)}
         \cup {Row(Succ(Succ(Var(52))), e) : e \in Over(pp)}
         \cup {Row(Var(53), e) : e \in Over(Var(53))}
Clauses == {F(q, rows) : q \in {"None", "Lone", "Many"}, rows \in UNION {[1..n -> Rows1] : n \in 1..2}}
-----------------------------------------------------------------------------
(* f of two numbers, 50 and 51, their predecessors 52 and 53: a call passes *)
(* each column unchanged until one shrinks                                  *)

a == Var(52)
b == Var(53)
y == Var(51)
ff(m, n) == Call("f", <<m, n>>)

G(q, r, rows) ==
  World(<<NatEv>>, <<DefEv("f", 2, All(q, NatT, All(r, NatT, NatT)), Match(<<x, y>>, rows), <<50, 51>>),
                     Val("main", NatT, ff(Two, Succ(Zero)))>>, {TRUE}, rows)

Row2(m, n, e) == Case(<<m, n>>, Reply(e))
Ack == ff(a, ff(Succ(a), b))
Pairs ==
  {G(q, r, <<Row2(Zero, Var(54), Var(54)), Row2(Succ(Var(52)), Zero, e), Row2(Succ(Var(52)), Succ(Var(53)), g)>>) :
     q \in {"Lone", "Many"}, r \in {"None", "Lone", "Many"}, e \in {ff(a, Succ(Zero)), ff(a, Two), ff(a, a), ff(Succ(a), Zero), a},
     g \in {Ack, ff(Succ(Succ(a)), b), ff(a, b), ff(b, a), ff(Succ(a), b), ff(b, Succ(a)), ff(Succ(Zero), b), ff(a, Succ(b)),
            ff(a, Succ(Succ(b))), ff(Succ(a), Succ(b)), Succ(ff(Succ(a), b)), ff(a, ff(a, b))}}
  \cup {G("Lone", r, <<Row2(Var(54), Zero, Var(54)), Row2(Zero, Var(55), e), Row2(Succ(Var(52)), Succ(Var(53)), g)>>) :
     r \in {"Lone", "Many"}, e \in {Zero, Var(55), ff(Zero, Var(55))}, g \in {ff(a, b), ff(b, a), ff(a, Succ(b))}}

-----------------------------------------------------------------------------
(* Two tokens, 50 and 51, and what f may do with them: put them in a pair,  *)
(* or through a let, a box, a function                                      *)

TokT == Ref("Token")
PairT == Ref("Pair")
BoxT == Ref("Box")
Pair(m, n) == Ctr("Pair", <<m, n>>)
Box(n) == Ctr("Box", <<n>>)
id(n) == Call("id", <<n>>)

Simple == {
  Reply(Pair(x, y)), Reply(Pair(x, x)), Reply(Pair(y, x)), Reply(App(Lam(Pair(Bnd(0), Bnd(0))), x)),
  Reply(App(Lam(Pair(Bnd(0), y)), x)),
  Local(<<a>>, "Lone", <<x>>, Reply(Pair(a, a))), Local(<<a>>, "Many", <<x>>, Reply(Pair(a, a))),
  Local(<<a>>, "None", <<x>>, Reply(Pair(x, a))), Local(<<a>>, "Lone", <<x>>, Reply(Pair(a, y))),
  Local(<<a, b>>, "Lone", <<y, x>>, Reply(Pair(a, b))), Local(<<a, b>>, "Lone", <<x, x>>, Reply(Pair(a, b))),
  Match(<<x>>, <<Case(<<Ctr("Tok", <<>>)>>, Reply(Pair(y, y))), Case(<<a>>, Reply(Pair(a, y)))>>)}
Called == {Reply(Pair(id(x), id(y))), Reply(Pair(id(x), id(x))),
           Local(<<a>>, "Lone", <<id(x)>>, Reply(Pair(id(a), y)))}
Boxed == {
  Local(<<a>>, "Lone", <<Ann(Box(x), BoxT)>>, Reply(Call("open", <<a, y>>))),
  Local(<<a>>, "Many", <<Ann(Box(x), BoxT)>>, Reply(Pair(Call("out", <<a>>), Call("out", <<a>>))))}

TokenEv == TypeEv("Token", 0, Type, <<CtrDecl("Tok", 0, TokT), CtrDecl("Key", 0, TokT)>>)
TokenWorld(kind, q, r, s, more, body) ==
  World(<<TokenEv>>,
        <<TypeEv("Pair", 0, kind, <<CtrDecl("Pair", 2, All(q, TokT, All(r, TokT, PairT)))>>)>> \o more
        \o <<DefEv("f", 2, All(s, TokT, All("Lone", TokT, PairT)), body, <<50, 51>>),
             Val("main", PairT, Call("f", <<Ctr("Tok", <<>>), Ctr("Key", <<>>)>>))>>, {TRUE}, <<>>)
Id(s) == <<DefEv("id", 1, All(s, TokT, TokT), Reply(x), <<50>>)>>
Boxes(kind, q, body) == <<
  TypeEv("Box", 0, kind, <<CtrDecl("Box", 1, All(q, TokT, BoxT))>>),
  DefEv("out", 1, All("Lone", BoxT, TokT), Match(<<x>>, <<Case(<<Box(a)>>, Reply(a))>>), <<50>>),
  DefEv("open", 2, All("Lone", BoxT, All("Lone", TokT, PairT)),
        Match(<<x>>, <<Case(<<Box(a)>>, Reply(body))>>), <<50, 51>>)>>

Quants == {"None", "Lone", "Many"}
Tokenly ==
  {TokenWorld(kind, q, r, s, <<>>, body) :
     kind \in {Type, Data}, q \in Quants, r \in Quants, s \in Quants, body \in Simple}
  \cup {TokenWorld(Type, q, r, "Lone", Id(s), body) :
     q \in {"None", "Lone"}, r \in {"None", "Lone"}, s \in Quants, body \in Called}
  \cup {TokenWorld(Type, "Lone", "Lone", "Lone", Boxes(kind, q, inside), body) :
     kind \in {Type, Data}, q \in Quants, inside \in {Pair(a, a), Pair(a, y), Pair(y, y)}, body \in Boxed}
-----------------------------------------------------------------------------
(* Worlds about one rule each                                               *)

IOEv == LawEv("IO", 1, All("Lone", Type, Type))
Base == <<
  NatEv, TypeEv("Token", 0, Type, <<CtrDecl("Tok", 0, TokT)>>), TypeEv("Empty", 0, Data, <<>>),
  DefEv("Of", 1, All("Lone", NatT, Type), Match(<<x>>, <<Row(Zero, NatT), Row(Succ(p), TokT)>>), <<50>>),
  DefEv("dec", 1, All("Lone", NatT, NatT), Match(<<x>>, <<Row(Zero, Zero), Row(Succ(p), p)>>), <<50>>), IOEv>>
One(events) == World(Base, events, BOOLEAN, <<>>)
Main(T, v) == Val("main", T, v)
dec(n) == Call("dec", <<n>>)
Of(n) == Call("Of", <<n>>)

\* A law is stuck until it is filled, and live code cannot use it before.
NatNat == All("Lone", NatT, NatT)
fLaw == LawEv("f", 1, NatNat)
fFill == FillEv("", "f", Reply(x), <<50>>)
fProof == Val("g", Eql(f(Zero), Zero, NatT), Rfl)
Laws == {
  One(<<fLaw, fFill, Main(NatT, f(Two))>>),
  One(<<Main(NatT, f(Two)), DefEv("f", 1, NatNat, Reply(x), <<50>>)>>),
  One(<<fLaw, Main(NatT, f(Two)), fFill>>),
  One(<<LawEv("f", 0, NatT), Main(NatT, Ref("f"))>>), One(<<LawEv("f", 0, NatT), Main(NatT, Zero)>>),
  One(<<fLaw, DefEv("g", 1, NatNat, Reply(f(x)), <<50>>), FillEv("", "f", Reply(Call("g", <<x>>)), <<50>>),
        Main(NatT, f(Two))>>),
  One(<<fLaw, fProof, fFill, Main(NatT, Zero)>>), One(<<fLaw, fFill, fProof, Main(NatT, Zero)>>),
  One(<<Main(NatT, Hol("TODO"))>>), One(<<Main(NatT, Hol("goal"))>>)}

\* Types that compute, equations, and what may follow from one.
Step(e, goal, v) == Rwt(e, Lam(Lam(goal)), v)
Proofs == {
  One(<<Main(Of(Zero), Two)>>), One(<<Main(Of(Succ(Zero)), Two)>>), One(<<Main(Of(dec(Succ(Zero))), Two)>>),
  One(<<Val("e", Eql(dec(Two), Succ(Zero), NatT), Rfl), Main(Of(Zero), Step(Ref("e"), Of(dec(Bnd(1))), Two))>>),
  One(<<Val("e", Eql(Zero, Succ(Zero), NatT), Rfl), Main(Of(Succ(Zero)), Step(Ref("e"), Of(Bnd(1)), Two))>>),
  One(<<LawEv("e", 0, Eql(Succ(Zero), Zero, NatT)),
        Main(NatT, Step(Ref("e"), Of(Bnd(1)), Ctr("Tok", <<>>)))>>),
  One(<<Val("e", Eql(Ref("dec"), Lam(dec(Bnd(0))), NatNat), Rfl),
        Main(NatT, Ann(App(Lam(dec(Bnd(0))), Two), NatT))>>),
  One(<<DefEv("f", 2, All("Lone", NatT, All("Lone", Of(Bnd(0)), Of(Bnd(1)))), Reply(y), <<50, 51>>),
        Main(NatT, ff(Zero, Two))>>)}

\* Nothing is taken from an empty type but what a live one proves.
EmptyT == Ref("Empty")
Empties == {
  One(<<DefEv("f", 2, All(q, EmptyT, All("Lone", T, NatT)), Match(<<y>>, <<>>), <<50, 51>>), Main(NatT, Zero)>>) :
    q \in {"None", "Lone"}, T \in {NatT, EmptyT}}
  \cup {One(<<DefEv("f", 1, All("Lone", EmptyT, NatT), Match(<<x>>, <<>>), <<50>>), Main(NatT, f(Hol("TODO")))>>)}

\* A type that holds functions of itself, applied to itself.
Curry(kind, q, r, v) ==
  One(<<TypeEv("Bad", 0, kind, <<CtrDecl("Bad", 1, All(q, All("Lone", Ref("Bad"), NatT), Ref("Bad")))>>),
        DefEv("app", 1, All(r, Ref("Bad"), NatT), Match(<<x>>, <<Row(Ctr("Bad", <<p>>), v)>>), <<50>>),
        Main(NatT, Call("app", <<Ctr("Bad", <<Ref("app")>>)>>))>>)
Currys == {Curry(kind, q, r, v) : kind \in {Type, Data}, q \in {"Lone", "Many"}, r \in {"Lone", "Many"},
             v \in {Zero, App(p, Ctr("Bad", <<p>>)), App(p, x)}}

\* A family whose kind is a meet of the quantities of its parameters.
Both(g, h, m, n) == ADT("Both", <<g, h, m, n>>, {})
BothEv(kind) ==
  LET params(tip) == All("None", Qnt, All("None", Qnt, All("None", Typ(Bnd(1)), All("None", Typ(Bnd(1)), tip)))) IN
  TypeEv("Both", 4, params(kind), <<CtrDecl("Both", 2, params(
    All("Lone", Bnd(1), All("Lone", Bnd(1), Both(Bnd(5), Bnd(4), Bnd(3), Bnd(2))))))>>)
Bits(t) == IF t = TokT THEN Qua("Lone") ELSE Qua("Many")
Made(t) == IF t = TokT THEN Ctr("Tok", <<>>) ELSE Zero
Metas == {
  One(<<BothEv(Typ(kind)),
        TypeEv("Two", 0, Type, <<CtrDecl("Two", 2, All("Lone", Both(Bits(A), Bits(B), A, B),
            All(r, Both(Bits(A), Bits(B), A, B), Ref("Two"))))>>),
        DefEv("f", 1, All(q, Both(Bits(A), Bits(B), A, B), Ref("Two")), Reply(Ctr("Two", <<x, x>>)), <<50>>),
        Main(Ref("Two"), Call("f", <<Ctr("Both", <<Made(A), Made(B)>>)>>))>>) :
   kind \in {Min2(Bnd(3), Bnd(2)), Bnd(3), Bnd(2), Qua("Many"), Min2(Bnd(2), Min2(Qua("Many"), Bnd(3)))},
   q \in {"Lone", "Many"}, r \in {"None", "Lone"}, A \in {TokT, NatT}, B \in {TokT, NatT}}

\* An @unsafe loop, and a foreign main.
Foreign(k, T, file) == [Val(k, T, Nil) EXCEPT !.i = <<file>>]
IONat == App(Ref("IO"), NatT)
Marked == {
  One(<<[DefEv("f", 1, NatNat, Reply(f(x)), <<50>>) EXCEPT !.u = TRUE], Main(NatT, f(Zero))>>),
  One(<<Foreign("main", IONat, <<"host.c">>)>>),
  One(<<Val("T", Type, IONat), Foreign("main", Ref("T"), <<"host.c">>)>>)}

Rules == Laws \cup Proofs \cup Empties \cup Currys \cup Metas \cup Marked
-----------------------------------------------------------------------------
(* Trees of files: /p/q/main, /p/q/a, /p/q/x/b, /p/c, and a package         *)

Al(al, k) == Node("Ref", k, 0, <<al>>, {}, <<>>)
BitT == Ref("Bit")
ImA == Import(<<"a">>, "A")
ImB == Import(<<"x", "b">>, "B")
Host(file) == Foreign("host", IONat, file)

aEvents(file) == <<LawEv("lem", 0, NatT), DefEv("f", 1, NatNat, Reply(Succ(x)), <<50>>), Host(file)>>
\* b has a Zero of its own, and its f is no other's.
bEvents == <<
  TypeEv("Bit", 0, Data, <<CtrDecl("Zero", 0, BitT), CtrDecl("One", 0, BitT)>>),
  DefEv("f", 1, All("Lone", BitT, BitT),
        Match(<<x>>, <<Row(Zero, Ctr("One", <<>>)), Row(Ctr("One", <<>>), Zero)>>), <<50>>),
  DefEv("one", 0, BitT, Reply(f(Zero)), <<>>)>>
cEvents == <<Val("h", NatT, Two)>>
LibTree == <<
  [p |-> <<"lib">>, text |-> Text(<<ImportBase, Import(<<"sub", "m">>, "M")>>, <<Val("l", NatT, Al("M", "m"))>>)],
  [p |-> <<"sub", "m">>, text |-> Text(<<ImportBase>>, <<LawEv("t", 0, NatT), Val("m", NatT, Zero)>>)]>>

mainImports == {
  <<ImportBase, ImA, ImB>>, <<ImB, ImA, ImportBase>>, <<ImportBase, Import(<<"..", "q", "a">>, "A"), ImB>>,
  <<ImportBase, Import(<<"..", "c">>, "C")>>, <<ImportBase, Import(<<"..", "c">>, "C"), ImA>>,
  <<ImportBase, Import(<<"0x2", "lib">>, "L"), ImA>>, <<ImportBase, Import(<<"0x2", "sub", "m">>, "M")>>,
  <<ImportBase, Import(<<"/", "p", "q", "a">>, "A"), ImB>>, <<ImportBase, Import(<<"z">>, "A")>>}
aImports == {<<ImportBase>>, <<ImportBase, ImB>>, <<ImportBase, Import(<<"..", "q", "main">>, "M")>>,
             <<Import(<<"x", "..", "a">>, "A")>>}
bImports == {<<>>, <<ImportBase, Import(<<"..", "a">>, "A")>>}
cImports == {<<ImportBase>>, <<ImportBase, Import(<<"q", "a">>, "A")>>}

fillA == FillEv("A", "lem", Reply(Zero), <<>>)
mainUses == Main(NatT, App(Al("A", "f"), Al("A", "lem")))
mainEvents == {
  <<Main(NatT, Zero)>>, <<fillA, mainUses>>, <<mainUses>>, <<fillA, fillA>>, <<Val("lem", NatT, Two), fillA, mainUses>>,
  <<fillA, Val("id", BitT, Zero)>>, <<Val("main", Al("B", "Bit"), App(Al("B", "f"), Al("B", "one"))), fillA>>,
  <<FillEv("M", "t", Reply(Two), <<>>), Main(NatT, Al("M", "t"))>>}

\* Where a path climbs, pkg_files takes an absolute import for one below an
\* ancestor, and the package cannot be read: such trees are not shared.
Slips(im, host) == Head(host) = ".." /\ \E j \in DOMAIN im : Head(im[j].to) = "/"

Tree(im, ia, ib, ic, evs, host) ==
  [disk |-> (BASE :> Text(<<>>, <<NatEv, IOEv>>))
            @@ (<<"/", "p", "q", "main">> :> Text(im, evs)) @@ (<<"/", "p", "q", "a">> :> Text(ia, aEvents(host)))
            @@ (<<"/", "p", "q", "x", "b">> :> Text(ib, bEvents)) @@ (<<"/", "p", "c">> :> Text(ic, cEvents))
            @@ (<<"/", "p", "q", "host.c">> :> Text(<<>>, <<>>)) @@ (<<"/", "p", "host.c">> :> Text(<<>>, <<>>)),
   hub |-> "0x2" :> LibTree, file |-> <<"/", "p", "q", "main">>, past |-> BOOLEAN, share |-> ~Slips(im, host), rows |-> <<>>]
Used == <<fillA, mainUses>>
OnlyBase == <<ImportBase>>
Reaches(im, q) == \E j \in DOMAIN im : Last(im[j].to) = q
Trees ==
  {Tree(im, ia, ib, OnlyBase, Used, host) :
     im \in {m \in mainImports : Reaches(m, "a")}, ia \in aImports, ib \in bImports,
     host \in {<<"host.c">>, <<"..", "host.c">>}}
  \cup {Tree(im, ia, <<>>, ic, <<Main(NatT, Two)>>, <<"host.c">>) :
     im \in {m \in mainImports : Reaches(m, "c")}, ia \in aImports, ic \in cImports}
  \cup {Tree(im, OnlyBase, <<>>, OnlyBase, evs, <<"host.c">>) : im \in mainImports, evs \in mainEvents}

MCBooks == Clauses \cup Pairs \cup Tokenly \cup Rules \cup Trees
=============================================================================
