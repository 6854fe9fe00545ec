------------------------------- MODULE Terms --------------------------------
(***************************************************************************)
(* The values of a compiled program in its heap: nodes, count cells and    *)
(* arrays, and how lanes share them (rfc_wrap, rfc_seal, rfc_bump,         *)
(* term_keep, term_drop, span_fade, ctr_take, blk_copy, blk_node, blk_half *)
(* and blk_new in toolchain-debug/comp.ts).                                *)
(*                                                                         *)
(* A node has one holder; a value with more is held through a count cell.  *)
(* A step ends where a lane reads or changes a count that others share:    *)
(* what else it touches only it holds.  The registers of a lane stand for  *)
(* the boxed words of the tasks it runs; a value goes to another lane in a *)
(* task.  The constructors are hot, the state the compiler's facts_hot     *)
(* leaves those in whose values are shared: their fields are sealed.       *)
(***************************************************************************)
EXTENDS Heap, FiniteSetsExt

CONSTANTS
  MaxHeld,      \* values a lane holds, a bound of the model
  RFC_CNT,      \* the largest count: 2^24 - 1
  Programs,     \* [Lane -> operations it begins with], by what it runs
  MaxOps        \* operations after those, a bound of the model

VARIABLES
  hp,           \* the heap
  regs,         \* [Lane -> Seq(Term)], the boxed words it holds
  act,          \* [Lane -> the operation under way]
  kernel,       \* "cores", or "gpu" while a kernel runs
  cut,          \* the device lanes that ended the kernel
  todo,         \* [Lane -> the operations its program begins with]
  ops           \* operations started after those

tvars == <<hp, regs, act, kernel, cut, todo, ops>>

\* Terms: an immediate, a node of two fields, an array of 2^cls terms.
Term(tag, cls, rfc, loc) == [tag |-> tag, cls |-> cls, rfc |-> rfc, loc |-> loc]
Imm == Term("imm", 0, FALSE, 0)
Ctr(loc) == Term("ctr", 1, FALSE, loc)
Arr(cls, loc) == Term("arr", cls, FALSE, loc)
term_triv(t) == t.tag = "imm"
IsTerm(word) == "tag" \in DOMAIN word

\* A count cell, and a node of the walk that term_drop makes in place.
Cell(at, cnt) == [at |-> at, cnt |-> cnt]
Frame(loc, i, t) == [loc |-> loc, i |-> i, t |-> t]
NoFrame == [loc |-> 0]

Idle == [pc |-> "idle", t |-> Imm, c0 |-> Imm, cur |-> NoFrame, src |-> 0, dst |-> 0,
         j |-> 0, n |-> 0]

Init ==
  /\ hp = EmptyHeap
  /\ regs = [l \in Lane |-> <<>>]
  /\ act = [l \in Lane |-> Idle]
  /\ kernel = "cores" /\ cut = {}
  /\ todo \in Programs /\ ops = 0

Put(h, loc, word) == [h EXCEPT !.H[loc] = word]
Words(t) == 2 ^ t.cls

-----------------------------------------------------------------------------
(* Counts.                                                                 *)

rfc_wrap(h, l, t, cnt) ==
  LET a == heap_alloc(h, l, 0)
  IN [h |-> Put(a.h, a.loc, Cell(t.loc, cnt)), t |-> [t EXCEPT !.rfc = TRUE, !.loc = a.loc]]

rfc_seal(h, l, t) ==
  IF t.tag # "ctr" \/ t.rfc THEN [h |-> h, t |-> t] ELSE rfc_wrap(h, l, t, 1)

rfc_bump(h, r, k) ==
  [h EXCEPT !.error = @ \/ h.H[r].cnt >= RFC_CNT - k, !.H[r].cnt = @ + k]

term_keep(h, l, t) ==
  IF t.rfc THEN [h |-> rfc_bump(h, t.loc, 1), t |-> t]
  ELSE IF term_triv(t) THEN [h |-> h, t |-> t]
  ELSE rfc_wrap(h, l, t, 2)

\* Mutant: every element but the first is counted.
SharedOneLess(d) == 2 ^ d - 1
Shared(d) == 2 ^ d

\* What blk_new stores 2^d times.
Many(h, l, t, d) ==
  IF d = 0 \/ term_triv(t) THEN [h |-> h, t |-> t]
  ELSE IF t.rfc THEN [h |-> rfc_bump(h, t.loc, Shared(d) - 1), t |-> t]
  ELSE rfc_wrap(h, l, t, Shared(d))

-----------------------------------------------------------------------------
(* Operations of a lane.                                                   *)

Runs(l) ==
  /\ ~hp.error /\ l \notin cut
  /\ l \in IF kernel = "gpu" THEN Device ELSE Host
Starts(l, op) ==
  /\ Runs(l) /\ act[l].pc = "idle"
  /\ IF todo[l] # <<>>
     THEN Head(todo[l]) = op /\ todo' = [todo EXCEPT ![l] = Tail(@)] /\ UNCHANGED ops
     ELSE /\ ops < MaxOps /\ \A m \in Lane : todo[m] = <<>>
          /\ ops' = ops + 1 /\ UNCHANGED todo

\* A lane works on the values it got last.
Top(l, n) == SubSeq(regs[l], Len(regs[l]) - n + 1, Len(regs[l]))
Holds(l, tags) == Len(regs[l]) >= Len(tags) /\ [i \in DOMAIN tags |-> Top(l, Len(tags))[i].tag] = tags
\* They are replaced by new ones; an immediate needs no holding.
Sets(l, n, ts) ==
  LET held == SubSeq(regs[l], 1, Len(regs[l]) - n) \o SelectSeq(ts, LAMBDA t : ~term_triv(t))
  IN Len(held) <= MaxHeld /\ regs' = [regs EXCEPT ![l] = held]

Quiet == <<act, kernel, cut>>

\* node_fill: a node of two fields, sealed; what is not held is immediate.
New(l, n) ==
  LET nd == heap_alloc(hp, l, 1)
      f(i) == IF i > n THEN Imm ELSE Top(l, n)[i]
      x == rfc_seal(nd.h, l, f(1))
      y == rfc_seal(x.h, l, f(2))
  IN /\ Starts(l, <<"new", n>>) /\ Holds(l, [i \in 1..n |-> "ctr"])
     /\ hp' = Put(Put(y.h, nd.loc, x.t), nd.loc + 1, y.t)
     /\ Sets(l, n, <<Ctr(nd.loc)>>)
     /\ UNCHANGED Quiet

\* bind_pop: an earlier use of a value shares it.
Keep(l) ==
  LET k == term_keep(hp, l, Last(regs[l]))
  IN /\ Starts(l, <<"keep">>) /\ Holds(l, <<"ctr">>)
     /\ hp' = k.h
     /\ Sets(l, 1, <<k.t, k.t>>)
     /\ UNCHANGED Quiet

\* A task takes a value to another lane, and a queue between host and device.
Give(l, m) ==
  /\ Starts(l, <<"give", m>>) /\ l # m /\ regs[l] # <<>>
  /\ act[m].pc = "idle" /\ Len(regs[m]) < MaxHeld
  /\ regs' = [regs EXCEPT ![l] = Front(@), ![m] = Append(@, Last(regs[l]))]
  /\ UNCHANGED <<hp, Quiet>>

\* ctr_take, of a node with one holder: its words are the fields.
TakeOwn(l) ==
  LET t == Last(regs[l])
  IN /\ Starts(l, <<"take">>) /\ Holds(l, <<"ctr">>) /\ ~t.rfc
     /\ hp' = heap_free(hp, l, 1, t.loc)
     /\ Sets(l, 1, <<hp.H[t.loc], hp.H[t.loc + 1]>>)
     /\ UNCHANGED Quiet

\* ctr_take, of a counted node: the count is read once.  At 1 nobody else
\* holds it; else the fields are counted before the node is let go of.
TakeShared(l) ==
  LET t == Last(regs[l])
      cell == hp.H[t.loc]
  IN /\ Starts(l, <<"take">>) /\ Holds(l, <<"ctr">>) /\ t.rfc
     /\ Len(regs[l]) < MaxHeld
     /\ \/ /\ cell.cnt = 1
           /\ hp' = heap_free(heap_free(hp, l, 0, t.loc), l, 1, cell.at)
           /\ Sets(l, 1, <<hp.H[cell.at], hp.H[cell.at + 1]>>)
           /\ UNCHANGED act
        \/ /\ cell.cnt # 1
           /\ act' = [act EXCEPT ![l] = [Idle EXCEPT !.pc = "fade", !.t = t,
                                           !.src = cell.at, !.n = 2]]
           /\ Sets(l, 1, <<>>)
           /\ UNCHANGED hp
     /\ UNCHANGED <<kernel, cut>>

\* span_fade, a field at a time, then term_drop.
Fade(l) ==
  LET x == act[l]
      f == hp.H[x.src + x.j]
  IN /\ Runs(l) /\ x.pc = "fade"
     /\ IF x.j = x.n
        THEN act' = [act EXCEPT ![l] = [Idle EXCEPT !.pc = "enter", !.t = x.t]] /\ UNCHANGED <<hp, regs>>
        ELSE /\ hp' = IF f.rfc THEN rfc_bump(hp, f.loc, 1)
                      ELSE [hp EXCEPT !.error = @ \/ ~term_triv(f)]
             /\ Sets(l, 0, <<f>>)
             /\ act' = [act EXCEPT ![l].j = @ + 1]
     /\ UNCHANGED <<kernel, cut, todo, ops>>

Drop(l) ==
  /\ Starts(l, <<"drop">>) /\ regs[l] # <<>>
  /\ act' = [act EXCEPT ![l] = [Idle EXCEPT !.pc = "enter", !.t = Last(regs[l])]]
  /\ Sets(l, 1, <<>>)
  /\ UNCHANGED <<hp, kernel, cut>>

\* term_drop takes one from the count; the last holder goes into the value,
\* whose word 0 then holds the way back.
Enter(l) ==
  LET x == act[l]
      t == x.t
      last == t.rfc /\ hp.H[t.loc].cnt = 1
      u == IF last THEN [t EXCEPT !.rfc = FALSE, !.loc = hp.H[t.loc].at] ELSE t
      h == IF last THEN heap_free(hp, l, 0, t.loc) ELSE hp
  IN /\ Runs(l) /\ x.pc = "enter"
     /\ IF t.rfc /\ ~last
        THEN /\ hp' = [hp EXCEPT !.H[t.loc].cnt = @ - 1]
             /\ act' = [act EXCEPT ![l].pc = "walk", ![l].t = Imm]
        ELSE /\ hp' = Put(h, u.loc, x.cur)
             /\ act' = [act EXCEPT ![l].pc = "walk", ![l].t = Imm, ![l].c0 = h.H[u.loc],
                                   ![l].cur = Frame(u.loc, 0, u)]
     /\ UNCHANGED <<regs, kernel, cut, todo, ops>>

\* One turn of its inner loop: the next word of the node, or the way back.  An
\* array keeps its index in word 1, once that has been read.
Walk(l) ==
  LET x == act[l]
      c == x.cur
      j == IF c.t.tag = "arr" /\ c.i = 2 THEN hp.H[c.loc + 1].idx ELSE c.i
      f == IF j = 0 THEN x.c0 ELSE hp.H[c.loc + j]
      i == IF c.t.tag # "arr" \/ c.i < 2 THEN c.i + 1 ELSE c.i
  IN /\ Runs(l) /\ x.pc = "walk"
     /\ IF c.loc = 0
        THEN act' = [act EXCEPT ![l] = Idle] /\ UNCHANGED hp
        ELSE IF j < Words(c.t)
        THEN /\ hp' = IF c.t.tag = "arr" /\ c.i > 0 THEN Put(hp, c.loc + 1, [idx |-> j + 1]) ELSE hp
             /\ act' = [act EXCEPT ![l].cur.i = i,
                                   ![l].pc = IF term_triv(f) THEN "walk" ELSE "enter",
                                   ![l].t = IF term_triv(f) THEN Imm ELSE f]
        ELSE /\ hp' = heap_free(hp, l, c.t.cls, c.loc)
             /\ act' = [act EXCEPT ![l].cur = hp.H[c.loc]]
     /\ UNCHANGED <<regs, kernel, cut, todo, ops>>

-----------------------------------------------------------------------------
(* Arrays.  A block has one holder.                                        *)

\* blk_new: 2^d elements, all the same, an immediate or a value.
Fill(l, n, d) ==
  LET a == heap_alloc(hp, l, d)
      w == Many(a.h, l, IF n = 0 THEN Imm ELSE Last(regs[l]), d)
  IN /\ Starts(l, <<"fill", n, d>>) /\ Holds(l, [i \in 1..n |-> "ctr"])
     /\ hp' = [w.h EXCEPT !.H = [x \in Loc |-> IF x \in a.loc..(a.loc + 2 ^ d - 1)
                                                THEN w.t ELSE w.h.H[x]]]
     /\ Sets(l, n, <<Arr(d, a.loc)>>)
     /\ UNCHANGED Quiet

\* The words of a block from src on, copied to dst.
Moved(h, src, dst, n) ==
  [h EXCEPT !.H = [x \in Loc |-> IF x \in dst..(dst + n - 1) THEN h.H[src + (x - dst)]
                                 ELSE h.H[x]]]

\* blk_half twice: each half is copied, the high call frees the source.
Halve(l) ==
  LET t == Last(regs[l])
      c == t.cls - 1
      lo == heap_alloc(hp, l, c)
      h1 == Moved(lo.h, t.loc, lo.loc, 2 ^ c)
      hi == heap_alloc(h1, l, c)
      h2 == Moved(hi.h, t.loc + 2 ^ c, hi.loc, 2 ^ c)
  IN /\ Starts(l, <<"halve">>) /\ Holds(l, <<"arr">>) /\ t.cls > 0
     /\ hp' = heap_free(h2, l, t.cls, t.loc)
     /\ Sets(l, 1, <<Arr(c, lo.loc), Arr(c, hi.loc)>>)
     /\ UNCHANGED Quiet

\* blk_node: both halves are copied into one and freed.
Join(l) ==
  LET x == Top(l, 2)[1]
      y == Top(l, 2)[2]
      n == heap_alloc(hp, l, x.cls + 1)
      h == Moved(Moved(n.h, x.loc, n.loc, Words(x)), y.loc, n.loc + Words(x), Words(x))
  IN /\ Starts(l, <<"join">>) /\ Holds(l, <<"arr", "arr">>)
     /\ x.cls = y.cls /\ x.cls + 1 < NCLS_ALL
     /\ hp' = heap_free(heap_free(h, l, x.cls, x.loc), l, y.cls, y.loc)
     /\ Sets(l, 2, <<Arr(x.cls + 1, n.loc)>>)
     /\ UNCHANGED Quiet

\* arr_leaf: the element of an array of one.
Leaf(l) ==
  LET t == Last(regs[l])
  IN /\ Starts(l, <<"leaf">>) /\ Holds(l, <<"arr">>) /\ t.cls = 0
     /\ hp' = heap_free(hp, l, 0, t.loc)
     /\ Sets(l, 1, <<hp.H[t.loc]>>)
     /\ UNCHANGED Quiet

\* blk_copy: room for a copy ...
Clone(l) ==
  LET t == Last(regs[l])
      n == heap_alloc(hp, l, t.cls)
  IN /\ Starts(l, <<"clone">>) /\ Holds(l, <<"arr">>) /\ Len(regs[l]) < MaxHeld
     /\ hp' = n.h
     /\ act' = [act EXCEPT ![l] = [Idle EXCEPT !.pc = "copy", !.t = t, !.dst = n.loc,
                                     !.n = Words(t)]]
     /\ Sets(l, 1, <<>>)
     /\ UNCHANGED <<kernel, cut>>

\* ... and each element is kept, in both.
Copy(l) ==
  LET x == act[l]
      k == term_keep(hp, l, hp.H[x.t.loc + x.j])
  IN /\ Runs(l) /\ x.pc = "copy"
     /\ IF x.j = x.n
        THEN /\ act' = [act EXCEPT ![l] = Idle]
             /\ Sets(l, 0, <<x.t, Arr(x.t.cls, x.dst)>>)
             /\ UNCHANGED hp
        ELSE /\ hp' = Put(Put(k.h, x.t.loc + x.j, k.t), x.dst + x.j, k.t)
             /\ act' = [act EXCEPT ![l].j = @ + 1]
             /\ UNCHANGED regs
     /\ UNCHANGED <<kernel, cut, todo, ops>>

-----------------------------------------------------------------------------
(* Kernels.                                                                *)

\* gpu_run: the cores wait while a kernel runs.
Launch ==
  /\ kernel = "cores" /\ ~hp.error
  /\ \A l \in Lane : act[l].pc = "idle"
  /\ \E l \in Device : regs[l] # <<>> /\ todo[l] # <<>>
  /\ kernel' = "gpu"
  /\ UNCHANGED <<hp, regs, act, cut, todo, ops>>

\* A lane that has no more to do cuts its frees of every class.
Cut(l) ==
  /\ Runs(l) /\ kernel = "gpu" /\ act[l].pc = "idle" /\ regs[l] = <<>>
  /\ hp' = FoldLeft(LAMBDA h, c : dev_cut(h, l, c), hp, [i \in 1..NCLS_ALL |-> i - 1])
  /\ cut' = cut \cup {l}
  /\ UNCHANGED <<regs, act, kernel, todo, ops>>

Pack ==
  /\ kernel = "gpu" /\ cut = Device
  /\ hp' = bank_pack(hp)
  /\ kernel' = "cores" /\ cut' = {}
  /\ UNCHANGED <<regs, act, todo, ops>>

Next ==
  \/ \E l \in Lane :
       \/ \E n \in 0..2 : New(l, n)
       \/ \E n \in 0..1, d \in 1..(NCLS_ALL - 1) : Fill(l, n, d)
       \/ \E m \in Lane : Give(l, m)
       \/ Keep(l) \/ TakeOwn(l) \/ TakeShared(l) \/ Fade(l)
       \/ Drop(l) \/ Enter(l) \/ Walk(l)
       \/ Halve(l) \/ Join(l) \/ Leaf(l) \/ Clone(l) \/ Copy(l) \/ Cut(l)
  \/ Launch \/ Pack

Spec == Init /\ [][Next]_tvars
-----------------------------------------------------------------------------
(* Properties.                                                             *)

Body(t) ==
  IF term_triv(t) THEN {}
  ELSE LET at == IF t.rfc THEN hp.H[t.loc].at ELSE t.loc IN at..(at + Words(t) - 1)

\* The walk of a lane: the nodes it is in.
Frames(l) ==
  LET go[n \in Nat] == IF n = 0 THEN {act[l].cur}
                       ELSE LET was == go[n - 1]
                            IN was \cup {hp.H[c.loc] : c \in {d \in was : d.loc # 0}}
  IN {c \in go[CAP] : c.loc # 0}

\* The words of a node in a walk that are still to be dropped; its first is
\* in c0.
Rest(c) ==
  LET j == IF c.t.tag = "arr" /\ c.i = 2 THEN hp.H[c.loc + 1].idx ELSE c.i
  IN {c.loc + k : k \in (IF j = 0 THEN 1 ELSE j)..(Words(c.t) - 1)}

\* Terms a lane holds itself.
Direct ==
  UNION {{<<<<"reg", l, r>>, regs[l][r]>> : r \in DOMAIN regs[l]} : l \in Lane}
    \cup {<<<<"act", l>>, act[l].t>> : l \in Lane}
    \cup {<<<<"c0", l>>, act[l].c0>> : l \in {m \in Lane : act[m].cur.loc # 0 /\ act[m].cur.i = 0}}

\* All words that hold a term somebody can still get to.
LiveWords ==
  LET roots == UNION {Body(x[2]) : x \in Direct}
               \cup UNION {UNION {Rest(c) : c \in Frames(l)} : l \in Lane}
               \cup UNION {act[l].dst..(act[l].dst + act[l].j - 1) :
                             l \in {m \in Lane : act[m].pc = "copy"}}
      go[n \in Nat, was \in SUBSET Loc] ==
        LET next == was \cup UNION {Body(hp.H[a]) : a \in {w \in was : IsTerm(hp.H[w])}}
        IN IF n = 0 \/ next = was THEN was ELSE go[n - 1, next]
  IN go[CAP * PAGE_LEN, roots]

Held == Direct \cup {<<<<"word", a>>, hp.H[a]>> : a \in LiveWords}
Counted == {x \in Held : x[2].rfc}
Cells == {x[2].loc : x \in Counted}
Owners == {x \in Held : ~x[2].rfc /\ ~term_triv(x[2])}

\* A count is the number of holders, at every step of every operation of every
\* lane: a node is freed by its last holder, and by no one before.
CountsMatch ==
  ~hp.error =>
    /\ \A a \in LiveWords : IsTerm(hp.H[a])
    /\ \A r \in Cells : hp.H[r].cnt = Cardinality({x \in Counted : x[2].loc = r})
    /\ Cardinality({x[2].loc : x \in Owners} \cup {hp.H[r].at : r \in Cells})
         = Cardinality(Owners) + Cardinality(Cells)

\* The slots of the heap: who has each, where it is and how long.
Slots ==
  UNION {{<<"free", l, a, 2 ^ c>> : a \in ToSet(Chain(hp, hp.alc[l][c].hot))} : l \in Lane, c \in Cls}
    \cup UNION {{<<"cold", l, a, 2 ^ c>> : a \in ToSet(Chain(hp, hp.alc[l][c].cold))} : l \in Lane, c \in Cls}
    \cup UNION {UNION {{<<"bank", i, a, 2 ^ c>> : a \in ToSet(Chain(hp, hp.bank[c].at[i]))} :
                  i \in {k \in DOMAIN hp.bank[c].at : k <= hp.bank[c].rd \/ k > hp.bank[c].top}} : c \in Cls}
    \cup {<<"cell", 0, r, 1>> : r \in Cells}
    \cup {<<"node", 0, x[2].loc, Words(x[2])>> : x \in Owners}
    \cup {<<"node", 0, hp.H[x[2].loc].at, Words(x[2])>> : x \in Counted}
    \cup UNION {{<<"walk", l, c.loc, Words(c.t)>> : c \in Frames(l)} : l \in Lane}
    \cup {<<"copy", l, act[l].dst, act[l].n>> : l \in {m \in Lane : act[m].pc = "copy"}}

\* Every word the bump gave out is in one slot: free in one place, or part of
\* one value that somebody holds.  Nothing is lost, freed twice or used after
\* it was freed; and what lanes hand each other are whole generations.
SlotsAccounted ==
  ~hp.error =>
    /\ ChainsExact(hp)
    /\ UNION {s[3]..(s[3] + s[4] - 1) : s \in Slots} = PAGE_LEN..(hp.bump * PAGE_LEN - 1)
    /\ MapThenSumSet(LAMBDA s : s[4], Slots) = (hp.bump - 1) * PAGE_LEN
=============================================================================
