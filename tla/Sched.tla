------------------------------- MODULE Sched -------------------------------
(***************************************************************************)
(* How a compiled program runs in parallel on the cores: the rings of      *)
(* tasks, the joins that wait for results, and the pool of workers that a  *)
(* main thread drives in turns (ring_push, task_deliver, task_deal,        *)
(* monk_step, row_grow, pool_work, pool_turn, cube_run and corpus_eval in  *)
(* toolchain-debug/comp.ts).                                               *)
(*                                                                         *)
(* A program is a tree of tasks.  In parallel mode a task with kids leaves *)
(* a join that waits for their results and continues as another task; in   *)
(* sequence a task does all of it on its own stack.  A ring is emptied by  *)
(* one thread and filled by any.                                           *)
(***************************************************************************)
EXTENDS Integers, Sequences, SequencesExt, FiniteSets, FiniteSetsExt

CONSTANTS
  Task,         \* the tasks of all programs, natural numbers
  Roots,        \* the roots, one per program
  Kids,         \* [Task -> the tasks its fork deals]
  Then,         \* [Task -> the continuation of its join, or None]
  Cont,         \* [Task -> the task whose join waits for it, or None]
  NoFork,       \* the tasks known not to fork (fid_nofk)
  None,
  PoolSize,     \* pool_size, the workers
  CUBE_T,       \* lanes in a row: 128
  CUBE_G,       \* rows: 128
  CUBE,         \* the frontier from which none is grown: 128 * 128
  LINE,         \* rings a worker empties at a time: 16
  RING_LEN      \* slots in a ring: 1024

Lanes == CUBE_T * CUBE_G
Ring == 0..(Lanes - 1)
Units == Lanes \div LINE
Worker == 1..PoolSize

ASSUME SchedAssumption ==
  /\ Task \subseteq Nat /\ Roots \cup NoFork \subseteq Task
  /\ {PoolSize, CUBE_T, CUBE_G, CUBE, LINE, RING_LEN} \subseteq Nat \ {0}
  /\ \A t \in Task :
       /\ ToSet(Kids[t]) \subseteq Task /\ Then[t] \in Task \cup {None}
       /\ Kids[t] # <<>> => Then[t] # None
       /\ \A k \in ToSet(Kids[t]) : Cont[k] = t
       /\ Then[t] # None => Cont[Then[t]] = Cont[t]
  /\ CUBE_T * CUBE_G % LINE = 0 /\ PoolSize <= CUBE_T
  /\ \A t \in NoFork : Kids[t] = <<>> /\ Then[t] = None
  /\ \A t \in Roots : Cont[t] = None

VARIABLES
  ring,         \* [Ring -> [get, put, slot]], a slot a task and a lap bit
  rem,          \* [Task -> the results its join waits for]
  ran,          \* [Task -> how often it has run]
  cursor,       \* H_CURSOR
  rootDone,     \* H_ROOT_DONE
  error,        \* None, or why the process failed
  main,         \* the main thread
  work,         \* [Worker -> its thread]
  poolRow,      \* pool_row
  poolGrow,     \* pool_grow
  poolTick,     \* pool_tick
  poolDone      \* pool_done

pool == <<poolRow, poolGrow, poolTick, poolDone>>
svars == <<ring, rem, ran, cursor, rootDone, error, main, work, pool>>

\* A thread: where it is, the item it works on, and in which mode.
Thread(pc) ==
  [pc |-> pc, t |-> None, seq |-> FALSE, seen |-> 0, row |-> 0, lane |-> 0,
   end |-> 0, put0 |-> <<>>, deal |-> <<>>, to |-> 0, at |-> 0, cur |-> 0, grew |-> FALSE]

EmptyRing == [get |-> 0, put |-> 0, slot |-> [i \in 0..(RING_LEN - 1) |-> <<None, 0>>]]

Init ==
  /\ ring = [r \in Ring |-> EmptyRing]
  /\ rem = [t \in Task |-> 0]
  /\ ran = [t \in Task |-> 0]
  /\ cursor = 0 /\ rootDone = FALSE /\ error = None
  /\ \E root \in Roots : main = [Thread("solo") EXCEPT !.t = root]
  /\ work = [w \in Worker |-> Thread("wait")]
  /\ poolRow = 0 /\ poolGrow = FALSE /\ poolTick = 0 /\ poolDone = 0

-----------------------------------------------------------------------------
(* Rings.                                                                  *)

\* The lap bit is flipped each time round; a ring starts in lap 1.
ring_lap(pos) == 1 - ((pos \div RING_LEN) % 2)

Slot(pos) == pos % RING_LEN

Full(rg) == rg.put - rg.get >= RING_LEN

\* What the slot for pos holds once the task is published in it.
Published(rg, pos, t) == [rg EXCEPT !.slot[Slot(pos)] = <<t, ring_lap(pos)>>]

\* A whole ring_push, where no other thread pushes.
Pushed(rg, t) == Published([rg EXCEPT !.put = @ + 1], rg.put, t)

\* The rings once tasks are pushed, the k-th to the ring to[k].
PushAll(rings, tasks, to) ==
  [r \in Ring |->
     LET mine == SelectSeq([k \in DOMAIN tasks |-> k], LAMBDA k : to[k] = r)
     IN FoldLeft(LAMBDA rg, k : Pushed(rg, tasks[k]), rings[r], mine)]

\* A ring that got more than it has slots for has stopped the process.
Posts == error' = IF \E r \in Ring : ring'[r].put - ring'[r].get > RING_LEN
                  THEN "ring" ELSE error

Oldest(rg) == rg.slot[Slot(rg.get)][1]

\* Mutant: any slot that holds a task counts as published.
ReadyAnyLap(rg) == Oldest(rg) # None

\* The slot at get was written in this lap, not only reserved.
Ready(rg) == rg.slot[Slot(rg.get)][2] = ring_lap(rg.get)

\* ring_flip spreads the tasks dealt over the rows, then along them.
ring_flip(i) == (i % CUBE_T) * CUBE_G + i \div CUBE_T

-----------------------------------------------------------------------------
(* Running a task.                                                         *)

\* All that t does when it runs in sequence.
Subtree[t \in Task] ==
  {t} \cup UNION {Subtree[Kids[t][i]] : i \in DOMAIN Kids[t]}
      \cup IF Then[t] = None THEN {} ELSE Subtree[Then[t]]

Forks(t, seq) == ~seq /\ Then[t] # None

\* Mutant: the result that finds no other missing takes the join, one too early.
IsLastEarly(c) == rem[c] <= 2

\* task_deliver: the one whose fetch-and-sub answers 1 takes the join.
IsLast(c) == rem[c] = 1

\* work_loop: what a run leaves of the counters, and the task it answers with:
\* a join that got its last result, or one that is just made.
Ran(t, seq) ==
  ran' = [s \in Task |-> IF s = t \/ (seq /\ s \in Subtree[t]) THEN ran[s] + 1 ELSE ran[s]]

Runs(t, seq) ==
  /\ Ran(t, seq)
  /\ IF Forks(t, seq)
     THEN rem' = [rem EXCEPT ![t] = Len(Kids[t])] /\ UNCHANGED rootDone
     ELSE IF Cont[t] = None THEN rootDone' = TRUE /\ UNCHANGED rem
     ELSE rem' = [rem EXCEPT ![Cont[t]] = @ - 1] /\ UNCHANGED rootDone

Reply(t, seq) ==
  IF Forks(t, seq)
  THEN IF Kids[t] = <<>> THEN [ready |-> Then[t], deal |-> <<>>]
       ELSE [ready |-> None, deal |-> Kids[t]]
  ELSE IF Cont[t] # None /\ IsLast(Cont[t])
  THEN [ready |-> Then[Cont[t]], deal |-> <<>>]
  ELSE [ready |-> None, deal |-> <<>>]

\* Mutant: the cursor is read and not moved.
DealtNone(kids) == 0

\* task_deal, stride 0: the frontier counts what is dealt.
Dealt(kids) == Len(kids)

-----------------------------------------------------------------------------
(* A worker's turn over its rings.                                         *)

At(w, pc) == work[w].pc = pc /\ error = None
Goes(w, thread) == work' = [work EXCEPT ![w] = thread]
Tasks == <<ring, rem, ran, cursor, rootDone, error>>

Mine(w) == ring[work[w].row * LINE + work[w].lane]

\* The loop over the rings of a unit, each up to where it ended when its turn
\* came: on to the next, or to the next unit.
Leaves(x) == [x EXCEPT !.lane = @ + 1, !.pc = IF x.lane + 1 = LINE THEN "rows" ELSE "drain"]
Stays(x, rg) == IF rg.get = x.end THEN Leaves(x) ELSE [x EXCEPT !.pc = "step", !.t = None]

DrainRing(w) ==
  /\ At(w, "drain")
  /\ Goes(w, Stays([work[w] EXCEPT !.end = Mine(w).put], Mine(w)))
  /\ UNCHANGED <<Tasks, main, pool>>

\* monk_step takes the head; until that is published it is only called again.
Take(w) ==
  /\ At(w, "step") /\ Ready(Mine(w))
  /\ ring' = [ring EXCEPT ![work[w].row * LINE + work[w].lane].get = @ + 1]
  /\ Goes(w, [work[w] EXCEPT !.pc = "work", !.t = Oldest(Mine(w)), !.seq = TRUE])
  /\ UNCHANGED <<rem, ran, cursor, rootDone, error, main, pool>>

\* One run of the task in hand.  A join that became ready goes on in this
\* thread, in parallel mode; the kids of a new one are dealt.
Work(w) ==
  LET x == work[w]
      r == Reply(x.t, x.seq)
  IN /\ At(w, "work")
     /\ Runs(x.t, x.seq)
     /\ \/ /\ r.deal # <<>>
           /\ cursor' = cursor + Dealt(r.deal)
           /\ Goes(w, [x EXCEPT !.pc = "deal", !.deal = r.deal, !.cur = cursor])
        \/ /\ r.deal = <<>> /\ r.ready # None
           /\ Goes(w, [x EXCEPT !.t = r.ready, !.seq = FALSE])
           /\ UNCHANGED cursor
        \/ /\ r.deal = <<>> /\ r.ready = None
           /\ Goes(w, Stays(x, Mine(w)))
           /\ UNCHANGED cursor
     /\ UNCHANGED <<ring, error, main, pool>>

\* ring_push in two steps: a place in the ring is reserved ...
Reserve(w) ==
  LET x == work[w]
      to == ring_flip(x.cur % Lanes)
  IN /\ At(w, "deal")
     /\ IF Full(ring[to]) THEN error' = "ring" /\ UNCHANGED <<ring, work>>
        ELSE /\ ring' = [ring EXCEPT ![to].put = @ + 1]
             /\ Goes(w, [x EXCEPT !.pc = "publish", !.to = to, !.at = ring[to].put])
             /\ UNCHANGED error
     /\ UNCHANGED <<rem, ran, cursor, rootDone, main, pool>>

\* ... and the task is published in it.
Publish(w) ==
  LET x == work[w]
  IN /\ At(w, "publish")
     /\ ring' = [ring EXCEPT ![x.to] = Published(@, x.at, x.deal[1])]
     /\ Goes(w, IF Len(x.deal) = 1 THEN Stays([x EXCEPT !.deal = <<>>, !.cur = 0], Mine(w))
                ELSE [x EXCEPT !.pc = "deal", !.deal = Tail(@), !.cur = @ + 1])
     /\ UNCHANGED <<rem, ran, cursor, rootDone, error, main, pool>>

-----------------------------------------------------------------------------
(* Growing: rows (or, by the main thread, a column) whose rings one thread  *)
(* fills and empties alone, one task a ring a round, until enough of them   *)
(* hold tasks.                                                              *)

Line(base, stride) == [i \in 0..(CUBE_T - 1) |-> base + i * stride]

\* A round starts: where each ring ends, unless the row is grown enough or the
\* round before made nothing.
Round(x, lanes, want) ==
  LET has == {i \in DOMAIN lanes : ring[lanes[i]].put # ring[lanes[i]].get}
  IN IF rootDone \/ Cardinality(has) >= want \/ (x.put0 # <<>> /\ ~x.grew)
     THEN [x EXCEPT !.pc = "grown", !.put0 = <<>>]
     ELSE [x EXCEPT !.put0 = [i \in DOMAIN lanes |-> ring[lanes[i]].put],
                    !.lane = 0, !.grew = FALSE, !.pc = "lane"]

\* The lanes left in this round with a head that may fork.
Live(x, lanes) ==
  {i \in x.lane..(CUBE_T - 1) :
     LET rg == ring[lanes[i]]
     IN rg.get # x.put0[i] /\ Ready(rg) /\ Oldest(rg) \notin NoFork}

\* What the first of them, run in parallel mode, makes ready or deals.
Makes(x, lanes) ==
  LET reply == Reply(Oldest(ring[lanes[Min(Live(x, lanes))]]), FALSE)
  IN IF reply.ready # None THEN <<reply.ready>> ELSE reply.deal

\* It runs, and that stays in the row.
GrowsOne(x, lanes) ==
  LET r == lanes[Min(Live(x, lanes))]
      out == Makes(x, lanes)
  IN IF Live(x, lanes) = {} THEN UNCHANGED <<ring, rem, ran, rootDone, error>>
     ELSE /\ Runs(Oldest(ring[r]), FALSE)
          /\ ring' = PushAll([ring EXCEPT ![r].get = @ + 1], out,
                             [k \in DOMAIN out |-> lanes[(x.cur + k - 1) % CUBE_T]])
          /\ Posts

\* The round goes on past that lane if it forked, and ends otherwise.
Grown(x, lanes) ==
  LET first == Min(Live(x, lanes))
      forks == Reply(Oldest(ring[lanes[first]]), FALSE).deal # <<>>
  IN IF Live(x, lanes) = {} THEN [x EXCEPT !.pc = "round"]
     ELSE [x EXCEPT !.cur = @ + Len(Makes(x, lanes)), !.grew = @ \/ forks,
                    !.lane = first + 1, !.pc = IF forks THEN "lane" ELSE "round"]

Row(w) == Line(work[w].row * CUBE_T, 1)

GrowRound(w) ==
  /\ At(w, "round")
  /\ Goes(w, Round(work[w], Row(w), CUBE_T))
  /\ UNCHANGED <<Tasks, main, pool>>

GrowLane(w) ==
  /\ At(w, "lane")
  /\ GrowsOne(work[w], Row(w))
  /\ Goes(w, Grown(work[w], Row(w)))
  /\ UNCHANGED <<cursor, main, pool>>

-----------------------------------------------------------------------------
(* The pool: main and workers wait for each other on one condition.         *)

\* pthread_cond_broadcast: who slept looks again.
Woken(threads) ==
  [w \in DOMAIN threads |->
     IF threads[w].pc = "asleep" THEN [threads[w] EXCEPT !.pc = "wait"] ELSE threads[w]]
MainWoken == IF main.pc = "asleep" THEN [main EXCEPT !.pc = "waiting"] ELSE main

\* pool_work waits for a tick it has not seen.
Wait(w) ==
  LET x == work[w]
  IN /\ At(w, "wait")
     /\ IF poolTick = x.seen THEN Goes(w, [x EXCEPT !.pc = "asleep"])
        ELSE Goes(w, [x EXCEPT !.pc = "rows", !.seen = poolTick])
     /\ UNCHANGED <<Tasks, main, pool>>

\* The next row or unit, until none is left.
NextRow(w) ==
  LET x == [work[w] EXCEPT !.row = poolRow, !.lane = 0, !.put0 = <<>>, !.cur = 0]
  IN /\ At(w, "rows") \/ At(w, "grown")
     /\ poolRow' = poolRow + 1
     /\ Goes(w, [x EXCEPT !.pc =
          IF poolRow >= (IF poolGrow THEN CUBE_G ELSE Units) THEN "finish"
          ELSE IF poolGrow THEN "round" ELSE "drain"])
     /\ UNCHANGED <<Tasks, main, poolGrow, poolTick, poolDone>>

Finish(w) ==
  /\ At(w, "finish")
  /\ poolDone' = poolDone + 1
  /\ Goes(w, [Thread(IF poolDone + 1 = PoolSize THEN "bell" ELSE "wait")
                EXCEPT !.seen = work[w].seen])
  /\ UNCHANGED <<Tasks, main, poolRow, poolGrow, poolTick>>

\* Mutant: the last worker's broadcast is left out.
BellSilent(w) == Goes(w, [work[w] EXCEPT !.pc = "wait"]) /\ UNCHANGED main

Bell(w) == work' = Woken([work EXCEPT ![w].pc = "wait"]) /\ main' = MainWoken

RingBell(w) ==
  /\ At(w, "bell")
  /\ Bell(w)
  /\ UNCHANGED <<Tasks, pool>>

Works(w) ==
  DrainRing(w) \/ Take(w) \/ Work(w) \/ Reserve(w) \/ Publish(w) \/ GrowRound(w)
  \/ GrowLane(w) \/ Wait(w) \/ NextRow(w) \/ Finish(w) \/ RingBell(w)

-----------------------------------------------------------------------------
(* The main thread.                                                        *)

MainAt(pc) == main.pc = pc /\ error = None
MainGoes(thread) == main' = thread

\* corpus_eval runs alone until something forks.
Solo ==
  LET seq == PoolSize = 1 \/ main.t \in NoFork
      r == Reply(main.t, seq)
  IN /\ MainAt("solo")
     /\ Runs(main.t, seq)
     /\ \/ /\ r.deal # <<>>
           /\ cursor' = cursor + Dealt(r.deal)
           /\ ring' = PushAll(ring, r.deal, [k \in DOMAIN r.deal |-> ring_flip((cursor + k - 1) % Lanes)])
           /\ Posts
           /\ MainGoes(Thread("cube"))
        \/ /\ r.deal = <<>> /\ r.ready # None
           /\ MainGoes([main EXCEPT !.t = r.ready])
           /\ UNCHANGED <<ring, cursor, error>>
        \/ /\ r.deal = <<>> /\ r.ready = None
           /\ MainGoes(Thread("solved"))
           /\ UNCHANGED <<ring, cursor, error>>
     /\ UNCHANGED <<work, pool>>

Solved ==
  /\ MainAt("solved")
  /\ IF rootDone THEN MainGoes(Thread("end")) /\ UNCHANGED error
     ELSE error' = "solo delivery lost" /\ UNCHANGED main
  /\ UNCHANGED <<ring, rem, ran, cursor, rootDone, work, pool>>

\* cube_run: a small frontier is grown first, in a column to have work for
\* every worker, then in rows; then it is worked.  at is the frontier.
Cube ==
  /\ MainAt("cube")
  /\ cursor' = 0
  /\ IF rootDone THEN MainGoes(Thread("end")) /\ UNCHANGED error
     ELSE IF cursor = 0 THEN error' = "frontier drained" /\ UNCHANGED main
     ELSE /\ MainGoes([Thread(IF cursor * (CUBE_T \div LINE) < PoolSize
                              THEN "round" ELSE "grown") EXCEPT !.at = cursor])
          /\ UNCHANGED error
  /\ UNCHANGED <<ring, rem, ran, rootDone, work, pool>>

Column == Line(0, CUBE_G)
Wanted == (PoolSize + (CUBE_T \div LINE) - 1) \div (CUBE_T \div LINE)

ColumnRound ==
  /\ MainAt("round")
  /\ MainGoes(Round(main, Column, Wanted))
  /\ UNCHANGED <<Tasks, work, pool>>

ColumnLane ==
  /\ MainAt("lane")
  /\ GrowsOne(main, Column)
  /\ MainGoes(Grown(main, Column))
  /\ UNCHANGED <<cursor, work, pool>>

\* pool_turn: the counters are reset before the tick that lets workers go.
Turn(grow, next) ==
  /\ poolGrow' = grow /\ poolRow' = 0 /\ poolDone' = 0
  /\ poolTick' = poolTick + 1
  /\ work' = Woken(work)
  /\ MainGoes([main EXCEPT !.pc = "waiting", !.t = next])

TurnGrow ==
  /\ MainAt("grown") /\ main.at < CUBE
  /\ Turn(TRUE, 1)
  /\ UNCHANGED Tasks

TurnWork ==
  /\ \/ MainAt("grown") /\ main.at >= CUBE
     \/ MainAt("turned") /\ main.t = 1
  /\ Turn(FALSE, 0)
  /\ UNCHANGED Tasks

TurnEnds ==
  /\ MainAt("waiting")
  /\ IF poolDone < PoolSize THEN MainGoes([main EXCEPT !.pc = "asleep"])
     ELSE MainGoes([main EXCEPT !.pc = "turned"])
  /\ UNCHANGED <<Tasks, work, pool>>

Again ==
  /\ MainAt("turned") /\ main.t = 0
  /\ MainGoes(Thread("cube"))
  /\ UNCHANGED <<Tasks, work, pool>>

Main ==
  Solo \/ Solved \/ Cube \/ ColumnRound \/ ColumnLane \/ TurnGrow \/ TurnWork
  \/ TurnEnds \/ Again

Next == Main \/ \E w \in Worker : Works(w)

Spec == Init /\ [][Next]_svars

\* While some thread can go on, one does: no step is undone by another, so
\* it does not matter which.
LiveSpec == Spec /\ WF_svars(Next)

-----------------------------------------------------------------------------
(* Properties.                                                             *)

\* A task runs once at most, and a join's continuation only when everything
\* its kids stand for has run: no slot is taken twice or before it is
\* published, and of the threads that deliver to a join one takes it.
RunsOnce ==
  /\ \A t \in Task : ran[t] <= 1
  /\ \A t \in Task :
       Kids[t] # <<>> /\ ran[Then[t]] = 1 =>
         \A i \in DOMAIN Kids[t] : \A s \in Subtree[Kids[t][i]] : ran[s] = 1

\* The checks that would stop the process are never met: while there is no
\* result, the frontier counts a task that some ring still holds.
NothingLost == error \in {None, "ring"}

\* Every program ends with its result: no thread sleeps through the tick or
\* the last worker's bell.
Completes == <>(main.pc = "end" \/ error # None)
=============================================================================
