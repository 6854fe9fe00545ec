------------------------------ MODULE Matches -------------------------------
(* The clauses of a body, made into a case tree: body_sub, match_flatten    *)
(* and body_flatten of toolchain-debug/bend.ts.  A pattern is a term: a     *)
(* variable, or a constructor of patterns.  Before it is flattened a body   *)
(* names its variables by numbers of its own, from 50 on.                   *)
EXTENDS Kernel

Reply(x) == [b |-> "Reply", x |-> x]
Match(e, r) == [b |-> "Match", e |-> e, r |-> r]
Local(k, q, v, f) == [b |-> "Local", k |-> k, q |-> q, v |-> v, f |-> f]
Case(p, f) == [p |-> p, f |-> f]

Fails == Hol("flatten")   \* the parser rejects the body

\* A pattern for a variable, in every scrutinee, value and reply.
RECURSIVE BodySub(_, _, _)
BodySub(b, i, v) ==
  LET sub(es) == [j \in DOMAIN es |-> Replace(es[j], i, v)] IN
  CASE b.b = "Reply" -> Reply(Replace(b.x, i, v))
    [] b.b = "Local" -> Local(b.k, b.q, sub(b.v), BodySub(b.f, i, v))
    [] b.b = "Match" -> Match(sub(b.e), [j \in DOMAIN b.r |-> Case(b.r[j].p, BodySub(b.r[j].f, i, v))])

RECURSIVE BodyFlatten(_, _, _)
RECURSIVE MatchFlatten(_, _, _, _)

\* Destructing x: the rows that may still match its constructor c, and the others.
Destruct(e, r, vars, fr, c) ==
  LET x == Head(vars)
      n == Len(c.xs)
      xs == [j \in 1..n |-> IF c.xs[j].op = "Var" THEN c.xs[j] ELSE Var(fr + j)]
      kx == Ctr(c.k, xs)
      into(row) ==
        LET p == Head(row.p) IN
        IF p.op = "Ctr" THEN Case(p.xs \o Tail(row.p), BodySub(row.f, x, kx))
        ELSE Case(xs \o Tail(row.p), BodySub(BodySub(row.f, p.i, Var(x)), x, kx))
      mine == SelectSeq(r, LAMBDA row : Head(row.p).op = "Var" \/ Head(row.p).k = c.k)
      rest == SelectSeq(r, LAMBDA row : Head(row.p).op = "Var" \/ Head(row.p).k # c.k)
  IN
  IF \E j \in DOMAIN mine : Head(mine[j].p).op = "Ctr" /\ Len(Head(mine[j].p).xs) # n THEN Fails
  ELSE Mat(c.k, MatchFlatten(xs \o Tail(e), [j \in DOMAIN mine |-> into(mine[j])],
                             [j \in 1..n |-> xs[j].i] \o Tail(vars), fr + n),
           MatchFlatten(e, rest, vars, fr + n))

MatchFlatten(e, r, vars, fr) ==
  LET scu == Head(e)
      x == Head(vars)
      ctrs == SelectSeq(r, LAMBDA row : Head(row.p).op = "Ctr")
      open == scu.op = "Var" /\ Contains(vars, scu.i)
      renamed == [j \in DOMAIN r |-> Case(Tail(r[j].p), BodySub(r[j].f, Head(r[j].p).i, scu))]
  IN
  CASE e = <<>> -> IF r = <<>> THEN Fails ELSE BodyFlatten(r[1].f, vars, fr)
    [] vars = <<>> -> Fails
    [] open /\ ctrs = <<>> /\ r # <<>> -> MatchFlatten(Tail(e), renamed, vars, fr)
    [] open /\ scu.i = x -> IF ctrs = <<>> THEN Efq ELSE Destruct(e, r, vars, fr, Head(ctrs[1].p))
    [] OTHER -> Lam(Close(MatchFlatten(e, r, Tail(vars), fr), x))

\* The body of a let under its n binders, once they are lambdas.
RECURSIVE Under(_, _)
Under(t, n) == IF n = 0 THEN t ELSE IF t.op # "Lam" THEN Fails ELSE Under(t.xs[1], n - 1)

BodyFlatten(b, vars, fr) ==
  CASE b.b = "Reply" -> IF vars = <<>> THEN b.x ELSE Lam(Close(BodyFlatten(b, Tail(vars), fr), Head(vars)))
    [] b.b = "Match" -> MatchFlatten(b.e, b.r, vars, fr)
    [] b.b = "Local" ->
         IF Len(b.k) = 1 /\ b.k[1].op = "Ctr"
         THEN MatchFlatten(<<b.v[1]>>, <<Case(b.k, b.f)>>, vars, fr)
         ELSE LET n == Len(b.k)
                  g == BodyFlatten(b.f, [j \in 1..n |-> b.k[j].i], fr)
              IN  BodyFlatten(Reply(Let([j \in 1..n |-> b.q], b.v, Under(g, n))), vars, fr)
=============================================================================
