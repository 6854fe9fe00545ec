------------------------------- MODULE Loader -------------------------------
(* How toolchain-debug reads a book: book_load and parse_book of bend.ts,   *)
(* and the package cli_publish of main.ts makes of what was read.  A path   *)
(* is a sequence of names, without the suffix .bend, absolute when it       *)
(* begins with "/"; no link points elsewhere and every directory is there.  *)
(* A text is its imports and its declarations; what the words of one mean   *)
(* is a term, whose names are still as written: a name, or a dotted one     *)
(* whose head (in q) is an alias.  Templates (~) are left out.              *)
EXTENDS Matches, TLC

CONSTANT Hashes   \* the names a package of the hub may have (0x...)

BASE == <<"/", "base">>
BEND_LIB == <<"/", "lib">>

Text(imports, events) == [imports |-> imports, events |-> events]
Import(to, as) == [to |-> to, as |-> as]
ImportBase == Import(<<"Base">>, "")

AdtDecl(n, T, c) == [is |-> "ADT", n |-> n, T |-> T, c |-> c]
CtrDecl(k, n, T) == [k |-> k, n |-> n, T |-> T]
DefDecl(n, T, v) == [is |-> "Def", n |-> n, T |-> T, v |-> v, b |-> FALSE, u |-> FALSE, i |-> <<>>]

\* A declaration as written.  Only a fill may have a dotted name, a.k.
TypeEv(k, n, T, c) == [is |-> "type", a |-> "", k |-> k, n |-> n, T |-> T, c |-> c]
LawEv(k, n, T) == [is |-> "law", a |-> "", k |-> k, n |-> n, T |-> T]
DefEv(k, n, T, b, ws) ==
  [is |-> "def", a |-> "", k |-> k, n |-> n, T |-> T, b |-> b, ws |-> ws, u |-> FALSE, i |-> <<>>]
FillEv(a, k, b, ws) == [DefEv(k, Len(ws), Nil, b, ws) EXCEPT !.is = "fill", !.a = a]

-----------------------------------------------------------------------------
(* Paths                                                                    *)

Absolute(p) == p # <<>> /\ Head(p) = "/"
Normal(p) ==
  FoldLeft(LAMBDA out, s :
    CASE s = "." \/ (s = "/" /\ out # <<>>) -> out
      [] s = ".." /\ out # <<>> /\ Last(out) # ".." -> IF Last(out) = "/" THEN out ELSE Front(out)
      [] OTHER -> Append(out, s), <<>>, p)
InPackage(rel) == Len(rel) > 1 /\ Head(rel) \in Hashes

\* Where an import of a file leads, and the namespace it gives what is there.
At(file, rel) == IF Absolute(rel) THEN rel ELSE IF InPackage(rel) THEN BEND_LIB \o rel ELSE Front(file) \o rel

Sub(ns, rel) ==
  IF Absolute(rel) \/ InPackage(rel) THEN rel ELSE Normal((IF ns = <<>> THEN ns ELSE Front(ns)) \o rel)

Leads(file, ns, im) ==
  IF im = ImportBase THEN [file |-> BASE, ns |-> <<>>]
  ELSE LET rel == Normal(im.to) IN [file |-> At(file, rel), ns |-> Sub(ns, rel)]

-----------------------------------------------------------------------------
(* The book being read                                                      *)

\* seen: <<>> while a file is read (null), <<ns>> after.  net: the answers the
\* hub still gives; cut: it gave none when one was asked for.
NoNames == [k \in {} |-> <<>>]
BookNil(disk, hub) ==
  [ok |-> TRUE, disk |-> disk, seen |-> NoNames, tlds |-> NoNames, ctrs |-> NoNames, order |-> <<>>,
   todo |-> FALSE, hub |-> hub, net |-> 0, cut |-> FALSE]
Refused(L) == [L EXCEPT !.ok = FALSE]

Dotted(a, k) == IF a = "" THEN k ELSE a \o "." \o k
Qual(ns, k) ==
  IF ns = <<>> THEN k ELSE FoldLeft(LAMBDA s, d : s \o "/" \o d, Head(ns), Tail(ns)) \o "." \o k
Reso(L, p, a, k) ==
  LET q == IF a # "" /\ a \in DOMAIN p.al THEN Qual(p.al[a], k) ELSE Qual(p.ns, Dotted(a, k))
  IN  IF q \in DOMAIN L.tlds \cup DOMAIN L.ctrs THEN q ELSE Dotted(a, k)

RECURSIVE Resolve(_, _, _)
Resolve(L, p, t) ==
  LET r == [t EXCEPT !.xs = [j \in DOMAIN t.xs |-> Resolve(L, p, t.xs[j])]]
  IN  IF t.op \in {"Ref", "ADT", "Ctr"}
      THEN [r EXCEPT !.k = Reso(L, p, IF t.q = <<>> THEN "" ELSE t.q[1], t.k), !.q = <<>>]
      ELSE r

RECURSIVE ResolveBody(_, _, _)
ResolveBody(L, p, b) ==
  LET all(ts) == [j \in DOMAIN ts |-> Resolve(L, p, ts[j])] IN
  CASE b.b = "Reply" -> Reply(Resolve(L, p, b.x))
    [] b.b = "Local" -> Local(all(b.k), b.q, all(b.v), ResolveBody(L, p, b.f))
    [] b.b = "Match" ->
         Match(all(b.e), [j \in DOMAIN b.r |-> Case(all(b.r[j].p), ResolveBody(L, p, b.r[j].f))])

\* A pattern is a binder, or a declared constructor with all of its fields.
RECURSIVE PattOk(_, _)
PattOk(L, t) == t.op = "Ctr" => /\ t.k \in DOMAIN L.ctrs /\ L.ctrs[t.k] = Len(t.xs)
                                /\ \A j \in DOMAIN t.xs : PattOk(L, t.xs[j])
RECURSIVE PattsOk(_, _)
PattsOk(L, b) ==
  CASE b.b = "Reply" -> TRUE
    [] b.b = "Local" -> (\A j \in DOMAIN b.k : PattOk(L, b.k[j])) /\ PattsOk(L, b.f)
    [] b.b = "Match" -> \A j \in DOMAIN b.r : (\A i \in DOMAIN b.r[j].p : PattOk(L, b.r[j].p[i])) /\ PattsOk(L, b.r[j].f)

\* A hole left to do, wherever it is written.
RECURSIVE Holds(_, _)
Holds(t, hole) == t = hole \/ \E j \in DOMAIN t.xs : Holds(t.xs[j], hole)
RECURSIVE Todo(_)
Todo(b) ==
  CASE b.b = "Reply" -> Holds(b.x, Hol("TODO"))
    [] b.b = "Local" -> (\E j \in DOMAIN b.v : Holds(b.v[j], Hol("TODO"))) \/ Todo(b.f)
    [] b.b = "Match" -> \E j \in DOMAIN b.r : Todo(b.r[j].f)

-----------------------------------------------------------------------------
(* The declarations of a text: parse_book                                   *)

Enter(L, k, tld) == [L EXCEPT !.tlds = (k :> tld) @@ @]
Listed(L, k) == [L EXCEPT !.order = Append(@, k)]

\* A constructor is declared after the type, and after those before it.
ParseCtr(L, p, k, c) ==
  LET kc == Qual(p.ns, c.k)
      ctr == CtrDecl(kc, c.n, Resolve(L, p, c.T))
  IN  IF ~L.ok \/ kc \in DOMAIN L.ctrs THEN Refused(L)
      ELSE [L EXCEPT !.tlds[k].c = Append(@, ctr), !.ctrs = (kc :> c.n) @@ @]

ParseDefBody(L, p, k, ev) ==
  LET b == ResolveBody(L, p, ev.b)
      v == BodyFlatten(b, ev.ws, 90)
  IN  IF ev.i # <<>> THEN Listed([L EXCEPT !.tlds[k].i = [j \in DOMAIN ev.i |-> p.dir \o ev.i[j]]], k)
      ELSE IF ~PattsOk(L, b) \/ Holds(v, Fails) THEN Refused(L)
      ELSE Listed([L EXCEPT !.tlds[k].v = v, !.todo = @ \/ Todo(b)], k)

\* A law nothing filled yet.
Unfilled(L, q) ==
  q \in DOMAIN L.tlds /\ L.tlds[q].is = "Def" /\ L.tlds[q].v = Nil /\ ~L.tlds[q].b /\ L.tlds[q].i = <<>>

\* Where the name is that of such a law, the law is filled: only names of its
\* parameters are written.  Elsewhere a type is.
ParseDef(L, p, ev) ==
  LET q == Reso(L, p, ev.a, ev.k)
      law == Unfilled(L, q)
      k == IF law THEN q ELSE Qual(p.ns, Dotted(ev.a, ev.k))
      tld == IF law THEN [L.tlds[q] EXCEPT !.n = ev.n, !.u = @ \/ ev.u]
             ELSE [DefDecl(ev.n, Resolve(L, p, ev.T), Nil) EXCEPT !.u = ev.u]
  IN  IF law # (ev.is = "fill") \/ (~law /\ k \in DOMAIN L.tlds) THEN Refused(L)
      ELSE ParseDefBody(Enter(L, k, tld), p, k, ev)

Parse(L, p, ev) ==
  LET k == Qual(p.ns, ev.k)
      T == Resolve(L, p, ev.T)
      hole == [L EXCEPT !.todo = @ \/ Holds(ev.T, Hol("TODO"))]
  IN  CASE ~L.ok -> L
        [] ev.is \in {"def", "fill"} -> ParseDef(hole, p, ev)
        [] k \in DOMAIN L.tlds -> Refused(L)
        [] ev.is = "type" ->
             Listed(FoldLeft(LAMBDA M, c : ParseCtr(M, p, k, c), Enter(hole, k, AdtDecl(ev.n, T, <<>>)), ev.c), k)
        [] ev.is = "law" -> Listed(Enter(hole, k, DefDecl(ev.n, T, Nil)), k)

ParseBook(L, dir, ns, al, events) ==
  FoldLeft(LAMBDA M, ev : Parse(M, [dir |-> dir, ns |-> ns, al |-> al], ev), L, events)

-----------------------------------------------------------------------------
(* Files: book_load                                                         *)

\* Mutant: what the store has one file of, it has.
MissingAll(L, file) ==
  IsPrefix(BEND_LIB, file) /\ \A f \in DOMAIN L.disk : ~IsPrefix(BEND_LIB \o <<file[3]>>, f)
Missing(L, file) == IsPrefix(BEND_LIB, file) /\ Normal(file) \notin DOMAIN L.disk

\* The manifest, then each file it names, written as its answer comes.
Fetch(L, file) ==
  LET pkg == file[3]
      man == IF pkg \in DOMAIN L.hub THEN L.hub[pkg] ELSE <<>>
      n == IF L.net > Len(man) THEN Len(man) ELSE L.net - 1
      got == [f \in {BEND_LIB \o <<pkg>> \o man[j].p : j \in 1..n} |->
                LET j == CHOOSE j \in 1..n : f = BEND_LIB \o <<pkg>> \o man[j].p IN man[j].text]
  IN  IF pkg \notin DOMAIN L.hub THEN Refused(L)
      ELSE IF L.net = 0 THEN [Refused(L) EXCEPT !.cut = TRUE]
      ELSE [L EXCEPT !.disk = got @@ @, !.net = @ - 1 - n, !.ok = n = Len(man), !.cut = n < Len(man)]

\* Mutant: a file is read once, under whatever namespace came first.
ReadAs(L, real, ns) == L.seen[real] # <<>>

\* A file that is still being read has none: an import cycle.
Known(L, real, ns) == L.seen[real] = <<ns>>

\* The names of Base are native: a law of its own needs no fill.
Native(L, n0) ==
  [L EXCEPT !.tlds = [k \in DOMAIN @ |->
     IF @[k].is = "Def" /\ \E j \in n0 + 1 .. Len(L.order) : L.order[j] = k
     THEN [@[k] EXCEPT !.b = TRUE] ELSE @[k]]]

\* The book after the imports of a file: its text is parsed.
Closed(L, real, ns, n0) ==
  IF L.ok THEN [(IF real = BASE THEN Native(L, n0) ELSE L) EXCEPT !.seen[real] = <<ns>>] ELSE L
Parsed(ims, file, ns) ==
  LET L == ims.L  real == Normal(file)
  IN  Closed(ParseBook(L, Front(file), ns, ims.al, L.disk[real].events), real, ns, Len(L.order))

RECURSIVE BookLoad(_, _, _)
BookLoad(L0, file, ns) ==
  LET L == IF L0.ok /\ Missing(L0, file) THEN Fetch(L0, file) ELSE L0
      real == Normal(file)
      load(acc, im) ==
        LET to == Leads(file, ns, im) IN
        [L |-> BookLoad(acc.L, to.file, to.ns), al |-> IF im = ImportBase THEN acc.al ELSE (im.as :> to.ns) @@ acc.al]
  IN  CASE ~L.ok \/ real \notin DOMAIN L.disk -> Refused(L)
        [] real \in DOMAIN L.seen -> IF Known(L, real, ns) THEN L ELSE Refused(L)
        [] OTHER -> Parsed(FoldLeft(load, [L |-> [L EXCEPT !.seen = (real :> <<>>) @@ @], al |-> NoNames],
                                    L.disk[real].imports), file, ns)

\* A book that begins with a base that was read before.
BookSeed(base) == [base EXCEPT !.seen = (BASE :> << <<>> >>), !.todo = FALSE]

-----------------------------------------------------------------------------
(* The package of a file: pkg_files                                         *)

\* The files read, but for Base and other packages, and the foreign ones,
\* each at its path from the directory of the file and where it really is.
Raws(file, L) ==
  LET dir == Front(file)
      past(f) == IF IsPrefix(dir, f) THEN SubSeq(f, Len(dir) + 1, Len(f)) ELSE f
      packed == {r \in DOMAIN L.seen : InPackage(L.seen[r][1])}
      own == DOMAIN L.seen \ (packed \cup {BASE})
      theirs == {Qual(L.seen[r][1], ev.k) : <<r, ev>> \in UNION {{r} \X Range(L.disk[r].events) : r \in packed}}
      foreign == {k \in DOMAIN L.tlds \ theirs : L.tlds[k].is = "Def" /\ ~L.tlds[k].b}
  IN  {[p |-> IF L.seen[r][1] = <<>> THEN <<Last(file)>> ELSE L.seen[r][1], real |-> r] : r \in own}
      \cup UNION {{[p |-> past(f), real |-> Normal(f)] : f \in Range(L.tlds[k].i)} : k \in foreign}

Ups(p) == Len(SelectSeq(Normal(p), LAMBDA s : s = ".."))

\* As many directories above the file as the deepest path climbs.
Anc(file, raws) ==
  LET dir == Tail(Front(Normal(file)))
      up == CHOOSE n \in {0} \cup {Ups(r.p) : r \in raws} : \A r \in raws : Ups(r.p) <= n
  IN  SubSeq(dir, IF up > Len(dir) THEN 1 ELSE Len(dir) - up + 1, Len(dir))

PkgPath(file, raws, p) == Normal(Anc(file, raws) \o p)
Publishable(file, raws, L) ==
  \A r \in raws : r.real \in DOMAIN L.disk /\ Head(PkgPath(file, raws, r.p)) \notin {"/", ".."}
Manifest(file, raws, L) ==
  SetToSeq({[p |-> PkgPath(file, raws, r.p), text |-> L.disk[r.real]] : r \in raws})
=============================================================================
