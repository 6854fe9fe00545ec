-------------------------------- MODULE Heap --------------------------------
(***************************************************************************)
(* The heap of a compiled program: slots of 2^class words, handed out and  *)
(* taken back lane by lane without a lock, and the banks through which     *)
(* lanes pass each other whole generations of free slots (bank_pop,        *)
(* bank_push, heap_hand, heap_alloc_miss, heap_alloc, heap_free, dev_cut   *)
(* and bank_pack in toolchain-debug/comp.ts).                              *)
(*                                                                         *)
(* A heap is a record, an operation an operator from heap to heap.  A lane *)
(* touches its own rows and slots only it holds; the bump is one atomic    *)
(* add, a bank one atomic step (under bank_lock on the host), and nothing  *)
(* a lane reads from them is used after: each operation is one step.       *)
(***************************************************************************)
EXTENDS Integers, Sequences, SequencesExt, FiniteSets

CONSTANTS
  Host, Device,   \* the lanes of the cores and of the GPU
  PAGE_BITS,      \* words in a page, log 2: 7
  NCLS,           \* the first wide class: 8
  NCLS_ALL,       \* classes: 32
  KEEP_WORDS,     \* words in a generation: CAP_WORDS, or CHUNK with the GPU
  CAP             \* H_CAP, pages in the heap

Lane == Host \cup Device
Cls == 0..(NCLS_ALL - 1)
PAGE_LEN == 2 ^ PAGE_BITS
Loc == 1..(CAP * PAGE_LEN - 1)

ASSUME HeapAssumption ==
  /\ Host \cap Device = {}
  /\ {PAGE_BITS, NCLS, NCLS_ALL, KEEP_WORDS, CAP} \subseteq Nat \ {0}
  /\ NCLS = PAGE_BITS + 1 /\ KEEP_WORDS % PAGE_LEN = 0

\* Slots in a generation, and words in a quantum.
KEEP(c) == IF KEEP_WORDS \div 2 ^ c = 0 THEN 1 ELSE KEEP_WORDS \div 2 ^ c
QUANTUM(l) ==
  IF l \in Device THEN PAGE_LEN
  ELSE IF KEEP_WORDS < 32 * PAGE_LEN THEN KEEP_WORDS ELSE 32 * PAGE_LEN

\* Class of the least slot with n words.
cls_fit(n) == CHOOSE c \in Cls : 2 ^ c >= n /\ \A d \in Cls : 2 ^ d >= n => c <= d

\* A word of a free slot: the slot its lane had free before it.
Free(loc) == [free |-> loc]
IsFree(word) == DOMAIN word = {"free"}

\* A lane's row for a class: HOT, LEN and COLD.  A zero row is an empty lane.
Row == [hot |-> 0, len |-> 0, cold |-> 0]
Bank == [rd |-> 0, top |-> 0, at |-> <<>>]     \* wr is the length of at

EmptyHeap ==
  [H |-> [a \in Loc |-> Free(0)], bump |-> 1, error |-> FALSE,
   alc |-> [l \in Lane |-> [c \in Cls |-> Row]], bank |-> [c \in Cls |-> Bank]]

-----------------------------------------------------------------------------
(* The bank of a class: on the host a stack; a device pops below rd and     *)
(* pushes above top, so that no pass sees what it handed.                   *)

bank_pop(h, l, c) ==
  LET b == h.bank[c]
      at == IF l \in Device THEN b.at ELSE SubSeq(b.at, 1, b.rd - 1)
  IN [h EXCEPT !.bank[c] =
       [rd |-> b.rd - 1, top |-> IF l \in Device THEN b.top ELSE b.rd - 1, at |-> at]]

bank_push(h, l, c, head) ==
  LET b == h.bank[c]
      at == Append(b.at, head)
  IN [h EXCEPT !.bank[c] =
       IF l \in Device THEN [b EXCEPT !.at = at]
       ELSE [rd |-> Len(at), top |-> Len(at), at |-> at]]

\* Between kernels: what the pass handed slides onto rd.
bank_pack(h) ==
  [h EXCEPT !.bank = [c \in Cls |->
     LET b == h.bank[c]
         at == SubSeq(b.at, 1, b.rd) \o SubSeq(b.at, b.top + 1, Len(b.at))
     IN [rd |-> Len(at), top |-> Len(at), at |-> at]]]

-----------------------------------------------------------------------------
(* A lane's rows.                                                          *)

heap_hand(h, l, c) ==
  LET row == h.alc[l][c]
      g == IF row.cold = 0 THEN h ELSE bank_push(h, l, c, row.cold)
  IN [g EXCEPT !.alc[l][c] = [hot |-> 0, len |-> 0, cold |-> row.hot]]

\* The first of n chained slots is handed out, the rest is HOT.
Adopt(h, l, c, got, n) ==
  [h |-> [h EXCEPT !.alc[l][c].hot = h.H[got].free, !.alc[l][c].len = (n - 1) * 2 ^ c],
   loc |-> got]

\* A quantum of fresh slots, chained.
Carve(h, l, c) ==
  LET n == IF c < NCLS THEN QUANTUM(l) \div 2 ^ c ELSE 1
      pages == (n * 2 ^ c) \div PAGE_LEN
      got == h.bump * PAGE_LEN
      slot(i) == got + i * 2 ^ c
      fresh == [h EXCEPT !.bump = @ + pages,
                         !.H = [a \in Loc |->
                            IF \E i \in 0..(n - 1) : slot(i) = a
                            THEN Free(IF a = slot(n - 1) THEN 0 ELSE a + 2 ^ c)
                            ELSE h.H[a]]]
  IN IF h.bump + pages > CAP THEN [h |-> [h EXCEPT !.error = TRUE], loc |-> PAGE_LEN]
     ELSE Adopt(fresh, l, c, got, n)

\* Mutant: a lane that runs out of HOT takes COLD, and keeps it as COLD too.
MissKeepsCold(h, l, c) ==
  LET row == h.alc[l][c]
      b == h.bank[c]
  IN IF l \in Host /\ row.cold # 0 THEN Adopt(h, l, c, row.cold, KEEP(c))
     ELSE IF b.rd > 0 THEN Adopt(bank_pop(h, l, c), l, c, b.at[b.rd], KEEP(c))
     ELSE Carve(h, l, c)

heap_alloc_miss(h, l, c) ==
  LET row == h.alc[l][c]
      b == h.bank[c]
  IN IF l \in Host /\ row.cold # 0
     THEN Adopt([h EXCEPT !.alc[l][c].cold = 0], l, c, row.cold, KEEP(c))
     ELSE IF b.rd > 0 THEN Adopt(bank_pop(h, l, c), l, c, b.at[b.rd], KEEP(c))
     ELSE Carve(h, l, c)

heap_alloc(h, l, c) ==
  LET row == h.alc[l][c]
  IN IF row.hot = 0 THEN heap_alloc_miss(h, l, c)
     ELSE [h |-> [h EXCEPT !.alc[l][c].hot = h.H[row.hot].free, !.alc[l][c].len = @ - 2 ^ c],
           loc |-> row.hot]

heap_free(h, l, c, loc) ==
  LET row == h.alc[l][c]
      g == [h EXCEPT !.H[loc] = Free(row.hot),
                     !.alc[l][c].hot = loc, !.alc[l][c].len = @ + 2 ^ c]
  IN IF l \in Host /\ row.len + 2 ^ c >= KEEP_WORDS THEN heap_hand(g, l, c) ELSE g

\* The chain of free slots from head: no more than the heap has words.
Chain(h, head) ==
  LET go[n \in 0..(CAP * PAGE_LEN), a \in Loc \cup {0}] ==
        IF n = 0 \/ a = 0 \/ ~IsFree(h.H[a]) THEN <<>> ELSE <<a>> \o go[n - 1, h.H[a].free]
  IN go[CAP * PAGE_LEN, head]

\* At a kernel's end a device lane hands its complete generations of a class.
dev_cut(h, l, c) ==
  LET hot == Chain(h, h.alc[l][c].hot)
      k == KEEP(c)
      gens == h.alc[l][c].len \div (k * 2 ^ c)
      heads == [i \in 1..gens |-> hot[(i - 1) * k + 1]]
      tails == {hot[i * k] : i \in 1..gens}
  IN [FoldLeft(LAMBDA g, head : bank_push(g, l, c, head), h, heads) EXCEPT
        !.H = [a \in Loc |-> IF a \in tails THEN Free(0) ELSE h.H[a]],
        !.alc[l][c] = [@ EXCEPT !.len = @ - gens * k * 2 ^ c,
                                !.hot = IF gens = 0 THEN @ ELSE h.H[hot[gens * k]].free]]

-----------------------------------------------------------------------------
(* What the rows and the banks promise.                                    *)

\* The chains of class c that a lane may take slots from.
Chains(h, c) ==
  {h.alc[l][c].hot : l \in Lane} \cup {h.alc[l][c].cold : l \in Lane}
    \cup {h.bank[c].at[i] : i \in 1..h.bank[c].rd}
    \cup {h.bank[c].at[i] : i \in (h.bank[c].top + 1)..Len(h.bank[c].at)}

\* LEN is HOT's length and stays under a generation on the host; COLD and the
\* bank hold exact generations.
ChainsExact(h) ==
  \A c \in Cls :
    /\ \A l \in Lane :
         /\ h.alc[l][c].len = 2 ^ c * Len(Chain(h, h.alc[l][c].hot))
         /\ l \in Host => h.alc[l][c].len < IF 2 ^ c > KEEP_WORDS THEN 2 ^ c ELSE KEEP_WORDS
    /\ \A head \in Chains(h, c) \ ({0} \cup {h.alc[l][c].hot : l \in Lane}) :
         Len(Chain(h, head)) = KEEP(c)
=============================================================================
