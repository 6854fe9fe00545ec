------------------------------ MODULE Checker -------------------------------
(* book_read, book_valid and book_run of the Bend toolchain, and --checkup  *)
(* and --publish of its command line: a book is read from its files, its    *)
(* declarations are checked one event at a time against the book so far,    *)
(* and the main of a book that passed is evaluated, or its files become a   *)
(* package that another user imports.  A law declares its name at one event *)
(* and defines it at a later one.                                           *)
EXTENDS Loader

CONSTANT Books   \* what may be read: disk, hub, file, share, past (may Base be read before), rows (f's clauses)

VARIABLES
  book,    \* the choice of Books
  seeded,  \* it is read past a base that was read and checked before
  read,    \* the book being read, then read
  at,      \* entries of its order behind
  seen,    \* the declarations made so far
  open,    \* laws that were never filled
  said,    \* "reading", "checking", "rejected", "TODO", "checks", "ran", "refused", "shared", "fetched"
  value,   \* the normal form of main
  theirs   \* what another user read of the package

vars == <<book, seeded, read, at, seen, open, said, value, theirs>>

Outer(k, u) == [t |-> Ref(k), n |-> 0, def |-> k, qs |-> <<>>, u |-> u]

-----------------------------------------------------------------------------
(* One event                                                                *)

\* A constructor's binders: a live field fits the kind of the datatype, any
\* other binder the kind of its quantity.
RECURSIVE Binds(_, _, _, _, _, _, _)
Binds(bk, c, n, kind, tel, ctx, d) ==
  LET t == Wnf(bk, tel)
      q == t.q[1]
      goal == IF d >= n /\ q = "Lone" THEN kind ELSE Typ(Qua(q))
  IN
  IF d = n + c.n THEN [ok |-> TRUE, tip |-> t]
  ELSE IF t.op # "All" \/ ~Dead(bk, Outer(c.k, FALSE), t.xs[1], goal, ctx, d) THEN [ok |-> FALSE, tip |-> t]
  ELSE Binds(bk, c, n, kind, Open(t.xs[2], Var(d)), CtxBind(ctx, d, q, t.xs[1]), d + 1)

\* It ends in the family, applied to its own parameters in order.
TipIsOwn(bk, k, n, tip) ==
  /\ tip.op = "ADT" /\ tip.k = k /\ Len(tip.xs) = n /\ tip.r = {}
  /\ \A j \in 1..n : LET x == Wnf(bk, tip.xs[j]) IN x.op = "Var" /\ x.i = j - 1

AdtPasses(bk, k, adt) ==
  LET kind == TeleUnbind(bk, adt.T, <<>>).ret IN
  /\ Dead(bk, Outer(k, FALSE), adt.T, Type, Emp, 0)
  /\ kind.op = "Typ"
  /\ \A j \in DOMAIN adt.c :
       LET b == Binds(bk, adt.c[j], adt.n, kind, adt.c[j].T, Emp, 0)
       IN  b.ok /\ TipIsOwn(bk, k, adt.n, b.tip)

\* What a type returns as it is written: aliases are not unfolded.
RECURSIVE Returns(_, _)
Returns(T, d) ==
  LET t == Strip(T) IN IF t.op = "All" THEN Returns(Open(t.xs[2], Var(d)), d + 1) ELSE t

ForeignReturnsIO(bk, T) ==
  LET h == Unapply(Returns(T, 0), <<>>).f IN
  h.op = "Ref" /\ h.k = "IO" /\ "IO" \in DOMAIN bk /\ bk["IO"].is = "Def" /\ bk["IO"].b

DefPasses(bk, k, def) ==
  LET doms == TeleUnbind(bk, def.T, <<>>).doms
      qs == [j \in 1..def.n |-> IF j <= Len(doms) THEN doms[j].q ELSE "Lone"]
      lhs == [t |-> Ref(k), n |-> def.n, def |-> k, qs |-> qs, u |-> def.u]
  IN
  /\ Dead(bk, Outer(k, def.u), def.T, Type, Emp, 0)
  /\ def.i # <<>> => ForeignReturnsIO(bk, def.T)
  /\ def.v # Nil => Check(bk, lhs, def.v, "Lone", def.T, Emp, 0).ok

-----------------------------------------------------------------------------
(* Reading                                                                  *)

\* --checkup reads a file that imports Base past the base it read once.
ImportsBase == ImportBase \in Range(book.disk[book.file].imports)
Done == IF seeded THEN Len(read.disk[BASE].events) ELSE 0

Init ==
  /\ book \in Books
  /\ seeded \in book.past
  /\ seeded => ImportsBase
  /\ read = LET nil == BookNil(book.disk, book.hub) IN
            IF seeded THEN BookSeed(BookLoad(nil, BASE, <<>>)) ELSE nil
  /\ at = 0 /\ seen = NoNames /\ open = 0 /\ said = "reading" /\ value = Nil
  /\ theirs = BookNil(NoNames, NoNames)

\* A user whose hub gives net answers reads a file; when it breaks off, the
\* files it wrote stay.
Reads(L, file, net) == BookLoad([L EXCEPT !.net = net], file, <<>>)
Rested(from, L) == IF L.cut THEN [from EXCEPT !.disk = L.disk] ELSE L
Answers(hub) == 0 .. FoldLeft(LAMBDA n, k : n + 1 + Len(hub[k]), 0, SetToSeq(DOMAIN hub))

Read(net) ==
  /\ said = "reading"
  /\ LET L == Reads(read, book.file, net)
     IN  /\ read' = Rested(read, L)
         /\ said' = IF L.cut THEN said ELSE IF L.ok THEN "checking" ELSE "rejected"
  /\ UNCHANGED <<book, seeded, at, seen, open, value, theirs>>

-----------------------------------------------------------------------------
(* The walk of book_valid                                                   *)

Name == read.order[at + 1]
Final == \A j \in at + 2 .. Len(read.order) : read.order[j] # Name
Declared(tld) == [k \in DOMAIN seen \cup {Name} |-> IF k = Name THEN tld ELSE seen[k]]
Event(is) == said = "checking" /\ at < Len(read.order) /\ read.tlds[Name].is = is

ValidAdt ==
  LET adt == read.tlds[Name]
      bk == Declared(adt)
  IN
  /\ Event("ADT")
  /\ seen' = bk /\ at' = at + 1
  /\ said' = IF at < Done \/ AdtPasses(bk, Name, adt) THEN said ELSE "rejected"
  /\ UNCHANGED <<book, seeded, read, open, value, theirs>>

\* A definition is declared without its body until its check passes.
ValidDef ==
  LET tld == read.tlds[Name]
      dec == [tld EXCEPT !.v = Nil, !.i = <<>>]
      def == IF Final THEN tld ELSE dec
      passes == at < Done \/ DefPasses(Declared(dec), Name, def)
      unfilled == at >= Done /\ Final /\ tld.v = Nil /\ ~tld.b /\ tld.i = <<>>
  IN
  /\ Event("Def")
  /\ at' = at + 1
  /\ open' = IF unfilled THEN open + 1 ELSE open
  /\ seen' = Declared(IF passes THEN def ELSE dec)
  /\ said' = IF passes THEN said ELSE "rejected"
  /\ UNCHANGED <<book, seeded, read, value, theirs>>

\* A book with a hole, or a law nothing filled, is no proof yet.
Finish ==
  /\ said = "checking" /\ at = Len(read.order)
  /\ said' = IF read.todo \/ open > 0 THEN "TODO" ELSE "checks"
  /\ UNCHANGED <<book, seeded, read, at, seen, open, value, theirs>>

HasMain == "main" \in DOMAIN seen /\ seen["main"].is = "Def" /\ seen["main"].v # Nil

\* A main that performs no action is printed in normal form.
RunMain ==
  /\ said = "checks" /\ HasMain /\ ~ForeignReturnsIO(seen, seen["main"].T)
  /\ said' = "ran"
  /\ value' = Snf(seen, seen["main"].v, 0)
  /\ UNCHANGED <<book, seeded, read, at, seen, open, theirs>>

\* The package is on the hub, by a hash of what is in it; another user, with
\* Base, a file that imports it, and the same hub, reads that file.
Hash == "0x1"
Other == <<"/", "u", "other">>
Publish ==
  LET raws == Raws(book.file, read)
      entry == PkgPath(book.file, raws, <<Last(book.file)>>)
      disk == (BASE :> book.disk[BASE]) @@ (Other :> Text(<<Import(<<Hash>> \o entry, "P")>>, <<>>))
  IN
  /\ said = "checks" /\ book.share /\ ~seeded
  /\ said' = IF Publishable(book.file, raws, read) THEN "shared" ELSE "refused"
  /\ theirs' = IF Publishable(book.file, raws, read)
               THEN BookNil(disk, (Hash :> Manifest(book.file, raws, read)) @@ book.hub) ELSE theirs
  /\ UNCHANGED <<book, seeded, read, at, seen, open, value>>

ImportIt(net) ==
  /\ said = "shared"
  /\ LET L == Reads(theirs, Other, net)
     IN  /\ theirs' = Rested(theirs, L)
         /\ said' = IF L.cut THEN said ELSE "fetched"
  /\ UNCHANGED <<book, seeded, read, at, seen, open, value>>

Next ==
  \/ \E net \in Answers(read.hub) : Read(net)
  \/ \E net \in Answers(theirs.hub) : ImportIt(net)
  \/ Publish \/ ValidAdt \/ ValidDef \/ Finish \/ RunMain

Spec == Init /\ [][Next]_vars

-----------------------------------------------------------------------------
(* Properties                                                               *)

Ctrs(bk) == UNION {Range(bk[k].c) : k \in {j \in DOMAIN bk : bk[j].is = "ADT"}}
FieldQuants(bk, t) ==
  LET c == CHOOSE c \in Ctrs(bk) : c.k = t.k
      n == bk[Returns(c.T, 0).k].n
  IN  [j \in DOMAIN t.xs |-> TeleUnbind(bk, c.T, <<>>).doms[n + j].q]

\* A value: constructors down to the functions, in what is not erased.
RECURSIVE IsValue(_, _)
IsValue(bk, t) ==
  \/ t.op \in {"Lam", "Mat", "Efq"}
  \/ t.op = "Ctr" /\ \A j \in DOMAIN t.xs : FieldQuants(bk, t)[j] = "None" \/ IsValue(bk, t.xs[j])

\* What the clauses of a definition say of a call, by value: the first row
\* whose patterns all meet the arguments.
RECURSIVE Meets(_, _)
Meets(p, v) == p.op = "Var" \/ (p.k = v.k /\ \A j \in DOMAIN p.xs : Meets(p.xs[j], v.xs[j]))

RECURSIVE Fill(_, _, _)
Fill(e, ps, vs) ==
  IF ps = <<>> THEN e
  ELSE IF Head(ps).op = "Var" THEN Fill(Replace(e, Head(ps).i, Head(vs)), Tail(ps), Tail(vs))
  ELSE Fill(e, Head(ps).xs \o Tail(ps), Head(vs).xs \o Tail(vs))

RECURSIVE Says(_, _)
Says(rows, t) ==
  IF t.op = "Ctr" THEN Ctr(t.k, [j \in DOMAIN t.xs |-> Says(rows, t.xs[j])])
  ELSE LET call == Unapply(t, <<>>).xs
           args == [j \in DOMAIN call |-> Says(rows, call[j])]
           met == SelectSeq(rows, LAMBDA r : \A j \in DOMAIN args : Meets(r.p[j], args[j]))
       IN  Says(rows, Fill(met[1].f.x, met[1].p, args))

Safe == \A k \in DOMAIN seen : seen[k].is = "Def" => ~seen[k].u

\* "progress, weak normalization of closed live terms" (bend.ts, THEORY): the
\* main of a book without @unsafe that checks evaluates, in bounded steps, to
\* a value of constructors and functions, never to a stuck or endless term;
\* and where main calls clauses, it is what the first matching clause of each
\* call says.  About quantities, descent, the order of events and the case
\* trees bodies become.
AcceptedRuns ==
  said = "ran" /\ Safe => IsValue(seen, value) /\ (book.rows # <<>> => value = Says(book.rows, seen["main"].v))

\* How many values made by the constructor k a term holds, erased fields aside.
RECURSIVE Held(_, _, _)
Held(bk, t, k) ==
  IF t.op # "Ctr" THEN 0
  ELSE LET live == [j \in DOMAIN t.xs |-> FieldQuants(bk, t)[j] # "None"]
       IN  (IF t.k = k THEN 1 ELSE 0)
           + FoldLeft(LAMBDA n, j : IF live[j] THEN n + Held(bk, t.xs[j], k) ELSE n, 0,
                      [j \in DOMAIN t.xs |-> j])

RECURSIVE Written(_, _)
Written(t, k) == (IF t.op = "Ctr" /\ t.k = k THEN 1 ELSE 0)
                 + FoldLeft(LAMBDA n, x : n + Written(x, k), 0, t.xs)

\* "a live variable is consumed at most once", and "no function type is Data"
\* (bend.ts, THEORY): a token, of a type that is not Data, is made only in
\* main, and whatever the definitions do with it the result of an accepted
\* main holds it no more often than main wrote it.  About the measure of
\* usage, the quantity of a field, and the kind a datatype may declare.
TokensOnce ==
  said = "ran" /\ Safe =>
    \A k \in {"Tok", "Key"} : Held(seen, value, k) <= Written(seen["main"].v, k)

\* The files a file leads to, each under a namespace.
LeadsTo(L, f, ns) ==
  LET tos == {Leads(f, ns, im) : im \in Range(L.disk[f].imports)} IN {<<Normal(to.file), to.ns>> : to \in tos}
Reached(L, file) ==
  FoldLeft(LAMBDA fs, j : fs \cup UNION {LeadsTo(L, f[1], f[2]) : f \in fs}, {<<file, <<>>>>},
           [j \in 1 .. Cardinality(DOMAIN L.disk) |-> j])
Firsts(L, f) ==
  LET own == {Qual(f[2], ev.k) : ev \in {e \in Range(L.disk[f[1]].events) : e.is # "fill"}}
  IN  {j \in DOMAIN L.order : L.order[j] \in own /\ \A i \in 1..j-1 : L.order[i] # L.order[j]}

\* "an import cycle through ..." and "one namespace per file" (book_load): of
\* a book that was read every file was read once, under the one namespace by
\* which anything leads to it, and its declarations stand behind those of
\* every file it imports.  About diamonds, cycles, and files reached by two
\* paths.
LoadedInOrder ==
  said = "checking" /\ at = 0 =>
    LET fs == Reached(read, book.file) IN
    /\ \A f, g \in fs : f[1] = g[1] => f = g
    /\ DOMAIN read.seen = {f[1] : f \in fs}
    /\ Len(read.order) = FoldLeft(LAMBDA n, f : n + Len(read.disk[f[1]].events), 0, SetToSeq(fs))
    /\ \A f \in fs : \A g \in LeadsTo(read, f[1], f[2]) :
         \A i \in Firsts(read, g), j \in Firsts(read, f) : i < j

\* Names of one book for those of another that declares the same in order.
Renaming(L, M) ==
  LET ctrs(B, j) == [i \in DOMAIN B.tlds[B.order[j]].c |-> B.tlds[B.order[j]].c[i].k]
      adts == {j \in DOMAIN L.order : L.tlds[L.order[j]].is = "ADT"}
  IN  {<<L.order[j], M.order[j]>> : j \in DOMAIN L.order}
      \cup UNION {{<<ctrs(L, j)[i], ctrs(M, j)[i]>> : i \in DOMAIN ctrs(L, j)} : j \in adts}
RECURSIVE Same(_, _, _)
Same(names, t, u) ==
  /\ <<t.op, t.i, t.q, Len(t.xs)>> = <<u.op, u.i, u.q, Len(u.xs)>>
  /\ t.k = u.k \/ <<t.k, u.k>> \in names
  /\ \A j \in DOMAIN t.xs : Same(names, t.xs[j], u.xs[j])
SameDecl(names, a, b) ==
  /\ a.is = b.is /\ a.n = b.n /\ Same(names, a.T, b.T)
  /\ IF a.is = "Def" THEN Same(names, a.v, b.v) /\ Len(a.i) = Len(b.i)
     ELSE Len(a.c) = Len(b.c) /\ \A j \in DOMAIN a.c : a.c[j].n = b.c[j].n /\ Same(names, a.c[j].T, b.c[j].T)

\* cli_publish "posts what the loader read ... to the hub, and prints the
\* import line" (main.ts): who imports a package reads the book its author
\* checked, declaration by declaration, under other names, also after an
\* import that broke off half-way; and the foreign files it names are in the
\* package.  About climbing paths, aliases, what is left out, and the store.
PublishedReads ==
  said = "fetched" =>
    /\ theirs.ok
    /\ Len(theirs.order) = Len(read.order)
    /\ \A j \in DOMAIN read.order :
         SameDecl(Renaming(read, theirs), read.tlds[read.order[j]], theirs.tlds[theirs.order[j]])
    /\ \A k \in DOMAIN theirs.tlds : theirs.tlds[k].is = "Def" =>
         \A f \in Range(theirs.tlds[k].i) :
           \E m \in Range(theirs.hub[Hash]) : Normal(f) = BEND_LIB \o <<Hash>> \o m.p
=============================================================================
