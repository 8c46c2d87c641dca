--------------------------- MODULE SlotCacheProofs ---------------------------
(***************************************************************************)
(* The tokens of the slots (tools/server/server.cpp, update_slots()) for   *)
(* any number of slots, any prompts, any sizes of the context and of the   *)
(* batch: the type invariant, that the cache of a slot is what the memory  *)
(* of the context holds (CacheInMemory), and that a token is sampled from  *)
(* the output of the slot's own last one (SamplesOwnToken).                *)
(*                                                                         *)
(* The argument: for a slot that counts on nothing that is lost, the       *)
(* tokens of its cache are those of the memory and those of the batch that *)
(* are still to be decoded (MemoryOK), and its last token in the batch, if *)
(* it has one, is at i_batch (OutputOK).  While a new prompt is compared   *)
(* with the cache that is so before head_p and from head_c on (ReuseOK).   *)
(* All slots, lost or not, keep within their context (SlotOK).             *)
(***************************************************************************)
EXTENDS SlotCache, SequenceLemmas, FiniteSetTheorems, TLAPS

Entry == [pos : Nat, tok : Nat]

SlotType ==
    [state : SlotState, cache : Seq(Nat), n_past : Nat, prompt : Seq(Nat), lora : Loras \cup {0},
     n_keep : Int, cache_prompt : BOOLEAN, sampled : Nat, i_batch : Int]

Token == [slot : Slot, pos : Nat, tok : Nat]

Types ==
    /\ slots \in [Slot -> SlotType]
    /\ mem \in [Slot -> SUBSET Entry]
    /\ file \in [cache : Seq(Nat), mem : SUBSET Entry, lost : BOOLEAN]
    /\ heads \in [c : Nat, p : Nat]
    /\ batch \in Seq(Token)
    /\ view \in [i : Nat, n_batch : 1 .. NBatch]
    /\ todo \in [sample : SUBSET Slot, spec : SUBSET Slot]
    /\ lost \subseteq Slot

Filling == {"prompt", "reuse", "fill", "aborted"}
Decoding == {"decode", "sample", "speculate"}

\* Where update_slots() is, and what the batch, the view and todo are there.
PlaceOK ==
    /\ pc \in {"idle", "shift", "sampled"} \cup Filling \cup Decoding
    /\ IF pc \in {"shift", "sampled"} \cup Filling THEN at \in Slot ELSE at = 0
    /\ IF pc \in Decoding THEN view.i < Len(batch) ELSE view = NoView
    /\ pc \in {"idle", "shift"} => batch = <<>>
    /\ pc # "sample" => todo.sample = {}
    /\ pc # "speculate" => todo.spec = {}
    /\ pc = "sampled" => Len(batch) <= at
    /\ Len(batch) <= NBatch + Cardinality(Slot)

\* Whose tokens are in the batch while it is built.
BatchOK ==
    \A k \in 1 .. Len(batch) :
        /\ pc = "sampled" => batch[k].slot < at /\ slots[batch[k].slot].state = "generating"
        /\ pc \in Filling => batch[k].slot < at \/ slots[batch[k].slot].state = "generating"

Active(s) == slots[s].state \in {"prompt", "done_prompt", "generating"}

\* The slot has a token in the batch from which it is to be sampled.
HasOutput(s) ==
    \/ slots[s].state = "done_prompt"
    \/ slots[s].state = "generating" /\ slots[s].i_batch # -1

\* What holds for every slot, also when the memory has lost its tokens.
SlotOK(s) ==
    LET sl == slots[s]
    IN  /\ sl.n_past < NCtx /\ Len(sl.cache) < NCtx
        /\ sl.state \in {"idle", "started"} => sl.n_past = 0
        /\ Active(s) => sl.n_keep \in 0 .. NCtx - 4
        /\ Active(s) /\ ~Comparing(s) => sl.n_past = Len(sl.cache)
        /\ Comparing(s) => sl.state = "prompt"
        /\ sl.state = "prompt" => Len(sl.prompt) \in 1 .. NCtx - 1
        /\ sl.state = "prompt" /\ ~Comparing(s) => IsStrictPrefix(sl.cache, sl.prompt)
        /\ sl.state = "done_prompt" => sl.cache = sl.prompt
        /\ sl.state = "generating" => sl.sampled \in Tokens

\* The shift leaves room for one token.
RoomOK(s) ==
    slots[s].state = "generating" /\ ((pc = "shift" /\ s < at) \/ (pc = "sampled" /\ at <= s))
        => slots[s].n_past + 1 < NCtx

\* The token to be sampled from is still to be decoded, or it has just been.
OutputOK(s) ==
    /\ HasOutput(s) => slots[s].i_batch + 1 \in (IF s \in todo.sample THEN view.i + 1 ELSE Rest) .. Len(batch)
    /\ s \in todo.sample => HasOutput(s) /\ slots[s].i_batch + 1 <= view.i + Size
    /\ s \in todo.spec => slots[s].state = "generating" /\ slots[s].n_past + 2 <= NCtx

\* The memory m has at the positions below n, or from n on, exactly the tokens of
\* the sequence q.
AgreeBelow(m, q, n) ==
    /\ \A e \in m : e.pos < n => e.pos < Len(q) /\ e.tok = q[e.pos + 1]
    /\ \A k \in 1 .. n : k <= Len(q) => [pos |-> k - 1, tok |-> q[k]] \in m

AgreeFrom(m, q, n) ==
    /\ \A e \in m : n <= e.pos => e.pos < Len(q) /\ e.tok = q[e.pos + 1]
    /\ \A k \in n + 1 .. Len(q) : [pos |-> k - 1, tok |-> q[k]] \in m

\* While the cache is compared with a new prompt.
ReuseOK(s) ==
    LET sl == slots[s]
    IN  Comparing(s) =>
        /\ sl.n_past <= Len(sl.cache) /\ sl.n_past <= Len(sl.prompt)
        /\ \A k \in 1 .. sl.n_past : sl.cache[k] = sl.prompt[k]
        /\ s \notin lost => AgreeBelow(mem[s], sl.cache, sl.n_past)
        /\ pc = "fill" => sl.n_past < Len(sl.prompt)
        /\ pc = "reuse" =>
              /\ heads.p = sl.n_past /\ heads.p <= heads.c /\ heads.c <= Len(sl.cache)
              /\ s \notin lost /\ sl.cache # <<>> => AgreeFrom(mem[s], sl.cache, heads.c)

NoneWaits(s) == \A k \in Rest .. Len(batch) : batch[k].slot # s

\* The tokens a slot counts on are in the memory or wait in the batch.
MemoryOK(s) ==
    s \notin lost =>
        /\ ~Comparing(s) /\ (Active(s) \/ slots[s].cache # <<>>) => Cached(s) = mem[s] \cup Waiting(s)
        /\ HasOutput(s) =>
              /\ batch[slots[s].i_batch + 1] =
                    [slot |-> s, pos |-> slots[s].n_past - 1, tok |-> slots[s].cache[Len(slots[s].cache)]]
              /\ \A k \in slots[s].i_batch + 2 .. Len(batch) : batch[k].slot # s
        /\ slots[s].state = "generating" /\ slots[s].i_batch = -1 => NoneWaits(s)

FileOK ==
    /\ Len(file.cache) < NCtx
    /\ ~file.lost /\ file.cache # <<>> =>
          file.mem = {[pos |-> k - 1, tok |-> file.cache[k]] : k \in DOMAIN file.cache}

SlotsOK == \A s \in Slot : SlotOK(s) /\ RoomOK(s) /\ OutputOK(s) /\ ReuseOK(s) /\ MemoryOK(s)

IInv == PlaceOK /\ BatchOK /\ FileOK /\ SlotsOK

-----------------------------------------------------------------------------
(* What the operators on sequences and on the memory return.               *)

Entries(q) == {[pos |-> k - 1, tok |-> q[k]] : k \in 1 .. Len(q)}

LEMMA CommonIs ==
    ASSUME NEW p \in Seq(Nat), NEW q \in Seq(Nat)
    PROVE  /\ Common(p, q) \in 0 .. Len(p) /\ Common(p, q) <= Len(q)
           /\ \A k \in 1 .. Common(p, q) : p[k] = q[k]
<1> DEFINE C == CommonPrefixes({p, q})
<1>1. ASSUME NEW x \in C
      PROVE  /\ x \in Seq(Nat) /\ Len(x) \in 0 .. Len(p) /\ Len(x) <= Len(q)
             /\ \A k \in 1 .. Len(x) : p[k] = q[k]
  <2>1. x \in Prefixes(p) \cup Prefixes(q) /\ IsPrefix(x, p) /\ IsPrefix(x, q)
    BY Zenon DEF CommonPrefixes
  <2>2. x \in Seq(Nat)
    <3>1. ASSUME NEW r \in Seq(Nat), x \in Prefixes(r)
          PROVE  x \in Seq(Nat)
      <4>1. PICK l \in 0 .. Len(r) : x = SubSeq(r, 1, l)
        BY <3>1, Zenon DEF Prefixes
      <4> QED BY <4>1
    <3> QED BY <2>1, <3>1
  <2>3. /\ Len(x) <= Len(p) /\ SubSeq(x, 1, Len(x)) = SubSeq(p, 1, Len(x))
        /\ Len(x) <= Len(q) /\ SubSeq(x, 1, Len(x)) = SubSeq(q, 1, Len(x))
    BY <2>1 DEF IsPrefix
  <2>4. ASSUME NEW k \in 1 .. Len(x)
        PROVE  p[k] = q[k]
    <3>1. SubSeq(p, 1, Len(x))[k] = p[k] /\ SubSeq(q, 1, Len(x))[k] = q[k]
      BY SMTT(30), <2>2, <2>3
    <3> QED BY <2>3, <3>1
  <2> QED BY <2>2, <2>3, <2>4
<1>2. <<>> \in C
  <2>1. IsPrefix(<<>>, p) /\ IsPrefix(<<>>, q)
    BY DEF IsPrefix
  <2>2. <<>> \in Prefixes(p)
    <3>1. SubSeq(p, 1, 0) = <<>> /\ 0 \in 0 .. Len(p)
      OBVIOUS
    <3> QED BY <3>1, Zenon DEF Prefixes
  <2> QED BY <2>1, <2>2, Zenon DEF CommonPrefixes
<1>3. \E x \in C : \A y \in C : Len(y) <= Len(x)
  <2> DEFINE D == {Len(p) - Len(x) : x \in C}
  <2> HIDE DEF C
  <2>1. D \subseteq Nat
    BY <1>1
  <2>2. D # {}
    BY <1>2
  <2>3. PICK d \in D : \A e \in D : d <= e
    BY <2>1, <2>2, LeastNat
  <2>4. PICK x \in C : d = Len(p) - Len(x)
    BY <2>3
  <2>5. ASSUME NEW y \in C
        PROVE  Len(y) <= Len(x)
    <3>1. Len(p) - Len(x) <= Len(p) - Len(y)
      BY <2>3, <2>4
    <3> QED BY <3>1, <1>1, <2>4
  <2> QED BY <2>4, <2>5
<1>4. LongestCommonPrefix({p, q}) \in C
  BY <1>3, Zenon DEF LongestCommonPrefix
<1> HIDE DEF C
<1> QED BY <1>1, <1>4 DEF Common

LEMMA DivFacts ==
    ASSUME NEW x \in Nat, NEW b \in Nat, b > 0
    PROVE  /\ x \div b \in Nat /\ (x \div b) * b \in Nat
           /\ (x \div b) * b <= x /\ x < (x \div b) * b + b
OBVIOUS

LEMMA EntriesAre ==
    ASSUME NEW q \in Seq(Nat)
    PROVE  /\ Entries(q) \subseteq Entry
           /\ \A e \in Entries(q) : e.pos < Len(q) /\ e.tok = q[e.pos + 1]
           /\ \A k \in 1 .. Len(q) : [pos |-> k - 1, tok |-> q[k]] \in Entries(q)
           /\ \A e \in Entry : e.pos < Len(q) /\ e.tok = q[e.pos + 1] => e \in Entries(q)
           /\ Len(q) = 0 => Entries(q) = {}
<1>1. ASSUME NEW e \in Entries(q)
      PROVE  e \in Entry /\ e.pos < Len(q) /\ e.tok = q[e.pos + 1]
  <2>1. PICK k \in 1 .. Len(q) : e = [pos |-> k - 1, tok |-> q[k]]
    BY DEF Entries
  <2>2. k \in Nat /\ (k - 1) + 1 = k /\ q[k] \in Nat /\ k - 1 \in Nat /\ e.pos = k - 1 /\ e.tok = q[k]
    BY <2>1
  <2> QED BY <2>1, <2>2 DEF Entry
<1>2. ASSUME NEW e \in Entry, e.pos < Len(q), e.tok = q[e.pos + 1]
      PROVE  e \in Entries(q)
  <2>1. e = [pos |-> (e.pos + 1) - 1, tok |-> q[e.pos + 1]] /\ e.pos + 1 \in 1 .. Len(q)
    BY <1>2 DEF Entry
  <2> QED BY <2>1 DEF Entries
<1>3. Len(q) = 0 => Entries(q) = {}
  BY DEF Entries
<1> QED BY <1>1, <1>2, <1>3 DEF Entries

\* Two sets of entries are equal when they have the same members.
LEMMA EntriesEqual ==
    ASSUME NEW q \in Seq(Nat), NEW m \in SUBSET Entry
    PROVE  m = Entries(q) <=>
              /\ \A e \in m : e.pos < Len(q) /\ e.tok = q[e.pos + 1]
              /\ \A k \in 1 .. Len(q) : [pos |-> k - 1, tok |-> q[k]] \in m
<1>1. ASSUME \A e \in m : e.pos < Len(q) /\ e.tok = q[e.pos + 1],
             \A k \in 1 .. Len(q) : [pos |-> k - 1, tok |-> q[k]] \in m
      PROVE  m = Entries(q)
  <2>1. m \subseteq Entries(q)
    BY <1>1, EntriesAre
  <2>2. Entries(q) \subseteq m
    BY <1>1 DEF Entries
  <2> QED BY <2>1, <2>2
<1> QED BY <1>1, EntriesAre

LEMMA EntriesConcat ==
    ASSUME NEW q \in Seq(Nat), NEW r \in Seq(Nat)
    PROVE  /\ q \o r \in Seq(Nat) /\ Len(q \o r) = Len(q) + Len(r)
           /\ Entries(q \o r) = Entries(q) \cup {[pos |-> Len(q) + k - 1, tok |-> r[k]] : k \in 1 .. Len(r)}
<1> DEFINE c == q \o r
           R == {[pos |-> Len(q) + k - 1, tok |-> r[k]] : k \in 1 .. Len(r)}
<1>1. /\ c \in Seq(Nat) /\ Len(c) = Len(q) + Len(r) /\ Len(q) \in Nat /\ Len(r) \in Nat
      /\ \A k \in 1 .. Len(q) : c[k] = q[k]
      /\ \A k \in 1 .. Len(r) : c[Len(q) + k] = r[k]
  OBVIOUS
<1> HIDE DEF c
<1>2. ASSUME NEW k \in 1 .. Len(c)
      PROVE  [pos |-> k - 1, tok |-> c[k]] \in Entries(q) \cup R
  <2>1. CASE k <= Len(q)
    <3>1. k \in 1 .. Len(q) /\ c[k] = q[k]
      BY <1>1, <2>1
    <3> QED BY <3>1 DEF Entries
  <2>2. CASE ~(k <= Len(q))
    <3>1. PICK j \in 1 .. Len(r) : Len(q) + j = k
      <4>1. k - Len(q) \in 1 .. Len(r) /\ Len(q) + (k - Len(q)) = k
        BY <1>1, <2>2
      <4> QED BY <4>1
    <3>2. c[Len(q) + j] = r[j]
      BY <1>1
    <3>3. k - 1 = Len(q) + j - 1
      BY <1>1, <3>1
    <3>4. [pos |-> k - 1, tok |-> c[k]] = [pos |-> Len(q) + j - 1, tok |-> r[j]]
      BY <3>1, <3>2, <3>3
    <3> QED BY <3>4
  <2> QED BY <2>1, <2>2
<1>3. ASSUME NEW k \in 1 .. Len(q)
      PROVE  [pos |-> k - 1, tok |-> q[k]] \in Entries(c)
  <2>1. k \in 1 .. Len(c) /\ c[k] = q[k]
    BY <1>1
  <2> QED BY <2>1 DEF Entries
<1>4. ASSUME NEW k \in 1 .. Len(r)
      PROVE  [pos |-> Len(q) + k - 1, tok |-> r[k]] \in Entries(c)
  <2>1. c[Len(q) + k] = r[k]
    BY <1>1
  <2>2. Len(q) + k \in 1 .. Len(c)
    BY <1>1
  <2>3. Len(q) + k - 1 = (Len(q) + k) - 1
    BY <1>1
  <2>4. [pos |-> (Len(q) + k) - 1, tok |-> c[Len(q) + k]] \in Entries(c)
    BY <2>2 DEF Entries
  <2> QED BY <2>1, <2>3, <2>4
<1>5. Entries(c) \subseteq Entries(q) \cup R
  <2> HIDE DEF R
  <2> QED BY <1>2 DEF Entries
<1>6. Entries(q) \subseteq Entries(c)
  BY <1>3 DEF Entries
<1>7. R \subseteq Entries(c)
  BY <1>4
<1>8. Entries(c) = Entries(q) \cup R
  BY <1>5, <1>6, <1>7
<1> QED BY <1>1, <1>8 DEF c

LEMMA EntriesAppend ==
    ASSUME NEW q \in Seq(Nat), NEW x \in Nat
    PROVE  /\ Append(q, x) \in Seq(Nat) /\ Len(Append(q, x)) = Len(q) + 1
           /\ Append(q, x)[Len(q) + 1] = x
           /\ Entries(Append(q, x)) = Entries(q) \cup {[pos |-> Len(q), tok |-> x]}
<1> DEFINE r == <<x>>
<1>1. /\ r \in Seq(Nat) /\ Len(r) = 1 /\ r[1] = x /\ Append(q, x) = q \o r
      /\ Append(q, x)[Len(q) + 1] = x
  OBVIOUS
<1> HIDE DEF r
<1>2. {[pos |-> Len(q) + k - 1, tok |-> r[k]] : k \in 1 .. Len(r)} = {[pos |-> Len(q), tok |-> x]}
  <2>1. 1 .. Len(r) = {1} /\ Len(q) + 1 - 1 = Len(q)
    BY <1>1
  <2> QED BY <1>1, <2>1
<1> QED BY <1>1, <1>2, EntriesConcat

LEMMA EntriesCut ==
    ASSUME NEW q \in Seq(Nat), NEW n \in 0 .. Len(q)
    PROVE  /\ SubSeq(q, 1, n) \in Seq(Nat) /\ Len(SubSeq(q, 1, n)) = n
           /\ \A k \in 1 .. n : SubSeq(q, 1, n)[k] = q[k]
           /\ Entries(SubSeq(q, 1, n)) = {e \in Entries(q) : e.pos < n}
<1> DEFINE c == SubSeq(q, 1, n)
           m == {e \in Entries(q) : e.pos < n}
<1>1. c \in Seq(Nat) /\ Len(c) = n /\ \A k \in 1 .. n : c[k] = q[k]
  OBVIOUS
<1> HIDE DEF c
<1>2. m \in SUBSET Entry
  BY EntriesAre
<1>3. \A e \in m : e.pos < Len(c) /\ e.tok = c[e.pos + 1]
  <2> TAKE e \in m
  <2>1. e \in Entry /\ e.pos < n /\ e.tok = q[e.pos + 1] /\ e.pos + 1 \in 1 .. n
    BY EntriesAre DEF Entry
  <2> QED BY <1>1, <2>1
<1>4. \A k \in 1 .. Len(c) : [pos |-> k - 1, tok |-> c[k]] \in m
  <2> TAKE k \in 1 .. Len(c)
  <2>1. k \in 1 .. Len(q) /\ c[k] = q[k] /\ k - 1 < n
    BY <1>1
  <2> QED BY <2>1, EntriesAre
<1> HIDE DEF m
<1>5. m = Entries(c)
  BY <1>1, <1>2, <1>3, <1>4, EntriesEqual
<1> QED BY <1>1, <1>5 DEF c, m

LEMMA TruncatedIs ==
    ASSUME NEW p \in Seq(Nat), NEW keep \in 0 .. NCtx - 4
    PROVE  /\ Truncated(p, keep) \in Seq(Nat) /\ Len(Truncated(p, keep)) < NCtx
           /\ p # <<>> => Len(Truncated(p, keep)) > 0
<1> USE SlotCacheAssumption
<1>1. CASE Len(p) < NCtx
  BY <1>1 DEF Truncated
<1>2. CASE ~(Len(p) < NCtx)
  <2> DEFINE block == (NCtx - keep) \div 2
             x == Len(p) - keep - block
             cut == (x \div block) * block
             a == SubSeq(p, 1, keep)
             b == SubSeq(p, keep + cut + 1, Len(p))
  <2>1. block \in Nat /\ block > 0 /\ 2 * block <= NCtx - keep /\ x \in Nat
    BY <1>2
  <2>2. cut \in Nat /\ cut <= x /\ x < cut + block
    <3> HIDE DEF block, x
    <3> QED BY <2>1, DivFacts
  <2>3. /\ a \in Seq(Nat) /\ Len(a) = keep
        /\ b \in Seq(Nat) /\ Len(b) = Len(p) - keep - cut
    <3> HIDE DEF cut
    <3> QED BY <1>2, <2>1, <2>2
  <2>4. Truncated(p, keep) = a \o b
    BY <1>2 DEF Truncated
  <2>5. a \o b \in Seq(Nat) /\ Len(a \o b) = Len(a) + Len(b)
    <3> HIDE DEF a, b
    <3> QED BY <2>3, EntriesConcat
  <2>6. Len(a \o b) = Len(p) - cut
    <3> HIDE DEF a, b, cut
    <3> QED BY <2>2, <2>3, <2>5
  <2>7. Len(a \o b) < NCtx /\ Len(a \o b) > 0
    <3> HIDE DEF a, b, cut, block
    <3> QED BY <2>1, <2>2, <2>6
  <2> QED BY <2>4, <2>5, <2>7
<1> QED BY <1>1, <1>2

LEMMA ConcatIs ==
    ASSUME NEW q \in Seq(Nat), NEW r \in Seq(Nat)
    PROVE  /\ q \o r \in Seq(Nat) /\ Len(q \o r) = Len(q) + Len(r) /\ Len(q) \in Nat /\ Len(r) \in Nat
           /\ \A k \in 1 .. Len(q) : (q \o r)[k] = q[k]
           /\ \A k \in 1 .. Len(r) : (q \o r)[Len(q) + k] = r[k]
OBVIOUS

\* The shift of the memory and the one of the cache.
LEMMA EntriesShift ==
    ASSUME NEW q \in Seq(Nat), NEW keep \in Nat, NEW d \in Nat, keep + d <= Len(q)
    PROVE  LET c == SubSeq(q, 1, keep) \o SubSeq(q, keep + d + 1, Len(q))
           IN  /\ c \in Seq(Nat) /\ Len(c) = Len(q) - d
               /\ Entries(c) = SeqAdd(SeqRm(Entries(q), keep, keep + d), keep + d, Len(q), -d)
<1> DEFINE a == SubSeq(q, 1, keep)
           b == SubSeq(q, keep + d + 1, Len(q))
           c == a \o b
           r == SeqRm(Entries(q), keep, keep + d)
           m == SeqAdd(r, keep + d, Len(q), -d)
<1>1. /\ a \in Seq(Nat) /\ Len(a) = keep /\ \A k \in 1 .. keep : a[k] = q[k]
      /\ b \in Seq(Nat) /\ Len(b) = Len(q) - keep - d
      /\ \A k \in 1 .. Len(q) - keep - d : b[k] = q[keep + d + k]
  OBVIOUS
<1> HIDE DEF a, b
<1>2. /\ c \in Seq(Nat) /\ Len(c) = Len(a) + Len(b)
      /\ \A k \in 1 .. Len(a) : c[k] = a[k]
      /\ \A k \in 1 .. Len(b) : c[Len(a) + k] = b[k]
  <2> HIDE DEF c
  <2>1. c = a \o b
    BY DEF c
  <2> QED BY ZenonT(30), <1>1, <2>1, ConcatIs
<1>3. /\ Len(q) \in Nat /\ Len(c) = Len(q) - d /\ keep <= Len(c)
      /\ \A k \in 1 .. keep : c[k] = q[k]
      /\ \A k \in 1 .. Len(q) - keep - d : c[keep + k] = q[keep + d + k]
  <2>1. Len(q) \in Nat /\ Len(c) = Len(q) - d /\ keep <= Len(c)
    BY <1>1, <1>2
  <2>2. \A k \in 1 .. keep : c[k] = q[k]
    BY <1>1, <1>2
  <2>3. ASSUME NEW k \in 1 .. Len(q) - keep - d
        PROVE  c[keep + k] = q[keep + d + k]
    <3>1. k \in 1 .. Len(b)
      BY <1>1
    <3> QED BY <1>1, <1>2, <3>1
  <2> QED BY <2>1, <2>2, <2>3
<1> HIDE DEF c
<1>4. ASSUME NEW e \in m
      PROVE  e \in Entry /\ e.pos < Len(c) /\ e.tok = c[e.pos + 1]
  <2>1. PICK f \in r : e = IF keep + d <= f.pos /\ f.pos < Len(q) THEN [f EXCEPT !.pos = @ + (-d)] ELSE f
    BY DEF SeqAdd
  <2>2. f \in Entries(q) /\ (f.pos < keep \/ f.pos >= keep + d)
    BY <2>1 DEF SeqRm
  <2>3. f \in Entry /\ f.pos < Len(q) /\ f.tok = q[f.pos + 1] /\ f.pos \in Nat
    <3>1. f \in Entry /\ f.pos < Len(q) /\ f.tok = q[f.pos + 1]
      BY <2>2, EntriesAre
    <3> QED BY <3>1 DEF Entry
  <2>4. CASE f.pos < keep
    <3>1. e = f /\ f.pos + 1 \in 1 .. keep /\ f.pos < Len(c)
      BY SMTT(30), <1>3, <2>1, <2>3, <2>4
    <3>2. c[f.pos + 1] = q[f.pos + 1]
      BY <1>3, <3>1
    <3> QED BY <2>3, <3>1, <3>2
  <2>5. CASE f.pos >= keep + d
    <3> DEFINE x == f.pos - d
    <3>1. e = [f EXCEPT !.pos = f.pos + (-d)]
      BY <2>1, <2>3, <2>5
    <3>2. e = [pos |-> x, tok |-> f.tok] /\ f.tok \in Nat
      <4>1. f = [pos |-> f.pos, tok |-> f.tok] /\ f.tok \in Nat
        BY <2>3 DEF Entry
      <4>2. f.pos + (-d) = x
        BY <2>3
      <4> QED BY <3>1, <4>1, <4>2
    <3>3. x \in Nat /\ x < Len(c) /\ x + 1 - keep \in 1 .. Len(q) - keep - d /\ x + d = f.pos
      <4>1. x \in Nat /\ keep <= x /\ x + d = f.pos
        BY <2>3, <2>5
      <4>2. x < Len(q) - d
        BY <1>3, <2>3, <4>1
      <4> HIDE DEF x
      <4> QED BY <1>3, <4>1, <4>2
    <3> HIDE DEF x
    <3>4. PICK k \in 1 .. Len(q) - keep - d : k = x + 1 - keep
      BY <3>3
    <3>5. c[keep + k] = q[keep + d + k]
      BY <1>3
    <3>6. keep + k = x + 1 /\ keep + d + k = f.pos + 1
      BY <3>3, <3>4
    <3>7. e.pos = x /\ e.tok = f.tok /\ e \in Entry
      BY <3>2, <3>3 DEF Entry
    <3> QED BY <2>3, <3>3, <3>5, <3>6, <3>7
  <2> QED BY <2>2, <2>4, <2>5
<1>5. ASSUME NEW k \in 1 .. Len(c)
      PROVE  [pos |-> k - 1, tok |-> c[k]] \in m
  <2>1. CASE k <= keep
    <3> DEFINE f == [pos |-> k - 1, tok |-> q[k]]
    <3>1. f \in Entries(q) /\ f.pos < keep
      <4>1. k \in 1 .. Len(q) /\ k - 1 < keep
        BY <1>3, <2>1
      <4> QED BY <4>1 DEF Entries
    <3>2. f \in r
      BY <3>1 DEF SeqRm
    <3>3. ~(keep + d <= f.pos)
      BY <2>1
    <3> HIDE DEF f, r
    <3>4. f \in m
      BY <3>2, <3>3 DEF SeqAdd
    <3>5. k \in 1 .. keep
      BY <2>1
    <3> QED BY <1>3, <3>4, <3>5 DEF f
  <2>2. CASE ~(k <= keep)
    <3> DEFINE j == k + d
               f == [pos |-> j - 1, tok |-> q[j]]
    <3>1. j \in 1 .. Len(q) /\ j - 1 >= keep + d /\ j - 1 < Len(q) /\ keep + d # -1
      BY <1>3, <2>2
    <3>2. f \in Entries(q) /\ f.pos = j - 1
      BY <3>1 DEF Entries
    <3>3. f \in r
      BY <3>1, <3>2 DEF SeqRm
    <3>4. [f EXCEPT !.pos = @ + (-d)] \in m
      <4> HIDE DEF f, r, j
      <4> QED BY <3>1, <3>2, <3>3 DEF SeqAdd
    <3>5. [f EXCEPT !.pos = @ + (-d)] = [pos |-> k - 1, tok |-> q[k + d]]
      BY SMTT(30), <1>3
    <3>6. c[keep + (k - keep)] = q[keep + d + (k - keep)]
      <4>1. k - keep \in 1 .. Len(q) - keep - d
        BY <1>3, <2>2
      <4> QED BY <1>3, <4>1
    <3>7. c[k] = q[k + d]
      <4>1. keep + (k - keep) = k /\ keep + d + (k - keep) = k + d
        BY <1>3
      <4> QED BY <3>6, <4>1
    <3> HIDE DEF f, m
    <3> QED BY <3>4, <3>5, <3>7
  <2> QED BY <2>1, <2>2
<1>6. m \in SUBSET Entry
  <2> HIDE DEF m
  <2> QED BY <1>4
<1> HIDE DEF m
<1>7. m = Entries(c)
  BY <1>2, <1>4, <1>5, <1>6, EntriesEqual DEF c
<1> QED BY <1>2, <1>3, <1>7 DEF m, r, c, a, b

\* What SeqRm() and SeqAdd() leave.
LEMMA MemoryTypes ==
    ASSUME NEW m \in SUBSET Entry, NEW p0 \in Nat, NEW p1 \in Nat, NEW p2 \in Nat, NEW d \in Int, p1 + d >= 0
    PROVE  /\ SeqRm(m, p0, -1) = {e \in m : e.pos < p0}
           /\ SeqRm(m, p0, p1) = {e \in m : e.pos < p0 \/ p1 <= e.pos}
           /\ SeqAdd(SeqRm(m, p0, p1), p1, p2, d) \in SUBSET Entry
<1>1. SeqRm(m, p0, -1) = {e \in m : e.pos < p0}
  BY DEF SeqRm
<1>2. SeqRm(m, p0, p1) = {e \in m : e.pos < p0 \/ p1 <= e.pos}
  BY DEF SeqRm, Entry
<1>3. ASSUME NEW e \in SeqRm(m, p0, p1)
      PROVE  (IF p1 <= e.pos /\ e.pos < p2 THEN [e EXCEPT !.pos = @ + d] ELSE e) \in Entry
  BY <1>2 DEF Entry
<1>4. SeqAdd(SeqRm(m, p0, p1), p1, p2, d) \in SUBSET Entry
  BY <1>3 DEF SeqAdd
<1> QED BY <1>1, <1>2, <1>4

\* A chunk of n tokens is moved from position h to position p.
LEMMA ChunkMoved ==
    ASSUME NEW m \in SUBSET Entry, NEW q \in Seq(Nat), NEW h \in Nat, NEW p \in Nat, NEW n \in Nat,
           p <= h, h + n <= Len(q), AgreeBelow(m, q, p), AgreeFrom(m, q, h),
           NEW c \in Seq(Nat), Len(c) = Len(q),
           \A k \in 1 .. Len(q) : c[k] = IF p < k /\ k <= p + n THEN q[k + h - p] ELSE q[k]
    PROVE  /\ AgreeBelow(SeqAdd(SeqRm(m, p, h), h, h + n, p - h), c, p + n)
           /\ AgreeFrom(SeqAdd(SeqRm(m, p, h), h, h + n, p - h), c, h + n)
<1> DEFINE r == SeqRm(m, p, h)
           x == SeqAdd(r, h, h + n, p - h)
<1>1. r = {e \in m : e.pos < p \/ h <= e.pos}
  BY DEF SeqRm, Entry
<1> HIDE DEF r
<1>2. ASSUME NEW e \in x, e.pos < p + n \/ h + n <= e.pos
      PROVE  e.pos < Len(c) /\ e.tok = c[e.pos + 1]
  <2>1. PICK f \in r : e = IF h <= f.pos /\ f.pos < h + n THEN [f EXCEPT !.pos = @ + (p - h)] ELSE f
    BY DEF SeqAdd
  <2>2. f \in m /\ f \in Entry /\ f.pos \in Nat /\ (f.pos < p \/ h <= f.pos)
    BY <1>1, <2>1 DEF Entry
  <2>3. f.pos < Len(q) /\ f.tok = q[f.pos + 1]
    BY <2>2 DEF AgreeBelow, AgreeFrom
  <2>4. CASE f.pos < p
    <3>1. e = f
      BY <2>1, <2>2, <2>4
    <3>2. f.pos + 1 \in 1 .. Len(q) /\ ~(p < f.pos + 1)
      BY SMTT(30), <2>2, <2>3, <2>4
    <3> QED BY <2>3, <3>1, <3>2
  <2>5. CASE h <= f.pos /\ f.pos < h + n
    <3>1. e.pos = f.pos + (p - h) /\ e.tok = f.tok
      BY <2>1, <2>2, <2>5 DEF Entry
    <3>2. /\ e.pos + 1 \in 1 .. Len(q) /\ p < e.pos + 1 /\ e.pos + 1 <= p + n
          /\ (e.pos + 1) + h - p = f.pos + 1 /\ e.pos < Len(c)
      <4>1. Len(q) \in Nat
        OBVIOUS
      <4>2. e.pos \in Nat /\ p <= e.pos /\ e.pos < p + n
        BY SMTT(30), <2>2, <2>5, <3>1
      <4>3. e.pos + 1 <= p + n /\ p + n <= h + n /\ p < e.pos + 1
        BY <4>2
      <4>4. e.pos + 1 \in 1 .. Len(q)
        <5>1. h + n <= Len(q) /\ h + n \in Nat /\ p + n \in Nat
          OBVIOUS
        <5>2. e.pos + 1 \in Nat /\ 1 <= e.pos + 1
          BY <4>2
        <5> QED BY <4>1, <4>3, <5>1, <5>2
      <4>5. (e.pos + 1) + h - p = f.pos + 1
        BY <2>2, <3>1, <4>2
      <4> QED BY <4>1, <4>2, <4>3, <4>4, <4>5
    <3>3. c[e.pos + 1] = q[(e.pos + 1) + h - p]
      BY <3>2
    <3> QED BY <2>3, <3>1, <3>2, <3>3
  <2>6. CASE h + n <= f.pos
    <3>1. e = f
      BY <2>1, <2>2, <2>6
    <3>2. f.pos + 1 \in 1 .. Len(q) /\ ~(f.pos + 1 <= p + n)
      BY SMTT(30), <2>2, <2>3, <2>6
    <3> QED BY <2>3, <3>1, <3>2
  <2> QED BY <2>2, <2>4, <2>5, <2>6
<1>3. ASSUME NEW k \in 1 .. Len(c), k <= p + n \/ h + n < k
      PROVE  [pos |-> k - 1, tok |-> c[k]] \in x
  <2>1. k \in 1 .. Len(q)
    OBVIOUS
  <2>2. CASE k <= p \/ h + n < k
    <3> DEFINE f == [pos |-> k - 1, tok |-> q[k]]
    <3>1. f \in m
      BY <2>1, <2>2 DEF AgreeBelow, AgreeFrom
    <3>2. f \in r
      BY <1>1, <2>2, <3>1
    <3>3. ~(h <= f.pos /\ f.pos < h + n)
      BY <2>2
    <3>4. c[k] = q[k]
      BY <2>1, <2>2
    <3> HIDE DEF f
    <3>5. f \in x
      BY <3>2, <3>3 DEF SeqAdd
    <3> QED BY <3>4, <3>5 DEF f
  <2>3. CASE p < k /\ k <= p + n
    <3> DEFINE j == k + h - p
               f == [pos |-> j - 1, tok |-> q[j]]
    <3>1. j \in h + 1 .. Len(q) /\ h <= j - 1 /\ j - 1 < h + n
      BY <2>3
    <3>2. f \in m
      BY <3>1 DEF AgreeFrom
    <3>3. f \in r /\ h <= f.pos /\ f.pos < h + n
      BY <1>1, <3>1, <3>2
    <3>4. [f EXCEPT !.pos = @ + (p - h)] \in x
      <4> HIDE DEF f
      <4> QED BY <3>3 DEF SeqAdd
    <3>5. [f EXCEPT !.pos = @ + (p - h)] = [pos |-> k - 1, tok |-> q[j]]
      <4>1. (j - 1) + (p - h) = k - 1
        BY <2>1
      <4> HIDE DEF j
      <4> QED BY <4>1
    <3>6. c[k] = q[j]
      BY <2>1, <2>3
    <3> HIDE DEF f, x
    <3> QED BY <3>4, <3>5, <3>6
  <2> QED BY <1>3, <2>2, <2>3
<1> HIDE DEF x
<1>4. AgreeBelow(x, c, p + n)
  <2>1. ASSUME NEW k \in 1 .. p + n, k <= Len(c)
        PROVE  [pos |-> k - 1, tok |-> c[k]] \in x
    <3>1. k \in 1 .. Len(c)
      BY <2>1
    <3> QED BY SMTT(30), <1>3, <3>1
  <2> QED BY <1>2, <2>1 DEF AgreeBelow
<1>5. AgreeFrom(x, c, h + n)
  <2>1. ASSUME NEW k \in h + n + 1 .. Len(c)
        PROVE  [pos |-> k - 1, tok |-> c[k]] \in x
    <3>1. k \in 1 .. Len(c) /\ (k <= p + n \/ h + n < k)
      OBVIOUS
    <3> QED BY <1>3, <3>1
  <2> QED BY <1>2, <2>1 DEF AgreeFrom
<1> QED BY <1>4, <1>5 DEF x, r

-----------------------------------------------------------------------------
(* The tokens of a slot s in the batch b from position r on.               *)

Left(b, r, s) ==
    {[pos |-> b[k].pos, tok |-> b[k].tok] : k \in {j \in r .. Len(b) : b[j].slot = s}}

LEMMA LeftIs ==
    ASSUME NEW b \in Seq(Token), NEW r \in Nat, r > 0, NEW s
    PROVE  /\ Left(b, r, s) \in SUBSET Entry
           /\ Left(b, r, s) = {} <=> \A k \in r .. Len(b) : b[k].slot # s
<1>1. ASSUME NEW k \in r .. Len(b)
      PROVE  b[k] \in Token /\ [pos |-> b[k].pos, tok |-> b[k].tok] \in Entry
  <2>1. b[k] \in Token
    OBVIOUS
  <2> QED BY <2>1 DEF Token, Entry
<1> QED BY <1>1 DEF Left

LEMMA LeftConcat ==
    ASSUME NEW b \in Seq(Token), NEW c \in Seq(Token), NEW r \in 1 .. Len(b) + 1, NEW s
    PROVE  /\ b \o c \in Seq(Token)
           /\ Left(b \o c, r, s) = Left(b, r, s) \cup Left(c, 1, s)
<1> DEFINE x == b \o c
<1>1. /\ x \in Seq(Token) /\ Len(x) = Len(b) + Len(c) /\ Len(b) \in Nat /\ Len(c) \in Nat
      /\ \A k \in 1 .. Len(b) : x[k] = b[k]
      /\ \A k \in 1 .. Len(c) : x[Len(b) + k] = c[k]
  OBVIOUS
<1> HIDE DEF x
<1>2. ASSUME NEW k \in r .. Len(x), x[k].slot = s
      PROVE  [pos |-> x[k].pos, tok |-> x[k].tok] \in Left(b, r, s) \cup Left(c, 1, s)
  <2>1. CASE k <= Len(b)
    <3>1. k \in r .. Len(b) /\ x[k] = b[k]
      BY <1>1, <2>1
    <3> QED BY <1>2, <3>1 DEF Left
  <2>2. CASE ~(k <= Len(b))
    <3>1. PICK j \in 1 .. Len(c) : Len(b) + j = k
      <4>1. k - Len(b) \in 1 .. Len(c) /\ Len(b) + (k - Len(b)) = k
        BY <1>1, <2>2
      <4> QED BY <4>1
    <3>2. x[k] = c[j]
      BY <1>1, <3>1
    <3> QED BY <1>2, <3>2 DEF Left
  <2> QED BY <2>1, <2>2
<1>3. ASSUME NEW k \in r .. Len(b), b[k].slot = s
      PROVE  [pos |-> b[k].pos, tok |-> b[k].tok] \in Left(x, r, s)
  <2>1. k \in r .. Len(x) /\ x[k] = b[k]
    BY <1>1
  <2> QED BY <1>3, <2>1 DEF Left
<1>4. ASSUME NEW k \in 1 .. Len(c), c[k].slot = s
      PROVE  [pos |-> c[k].pos, tok |-> c[k].tok] \in Left(x, r, s)
  <2>1. Len(b) + k \in r .. Len(x)
    BY <1>1
  <2>2. x[Len(b) + k] = c[k]
    BY <1>1
  <2> QED BY <1>4, <2>1, <2>2 DEF Left
<1>5. Left(x, r, s) \subseteq Left(b, r, s) \cup Left(c, 1, s)
  <2> DEFINE y == Left(b, r, s) \cup Left(c, 1, s)
  <2> HIDE DEF y
  <2>1. ASSUME NEW k \in r .. Len(x), x[k].slot = s
        PROVE  [pos |-> x[k].pos, tok |-> x[k].tok] \in y
    BY <1>2, <2>1 DEF y
  <2>2. Left(x, r, s) \subseteq y
    BY <2>1 DEF Left
  <2> QED BY <2>2 DEF y
<1>6. Left(b, r, s) \subseteq Left(x, r, s)
  <2> DEFINE y == Left(x, r, s)
  <2> HIDE DEF y
  <2>1. ASSUME NEW k \in r .. Len(b), b[k].slot = s
        PROVE  [pos |-> b[k].pos, tok |-> b[k].tok] \in y
    BY <1>3, <2>1 DEF y
  <2> QED BY <2>1 DEF Left, y
<1>7. Left(c, 1, s) \subseteq Left(x, r, s)
  <2> DEFINE y == Left(x, r, s)
  <2> HIDE DEF y
  <2>1. ASSUME NEW k \in 1 .. Len(c), c[k].slot = s
        PROVE  [pos |-> c[k].pos, tok |-> c[k].tok] \in y
    BY <1>4, <2>1 DEF y
  <2> QED BY <2>1 DEF Left, y
<1> QED BY <1>1, <1>5, <1>6, <1>7 DEF x

-----------------------------------------------------------------------------
(* What the invariant says in short.                                       *)

LEMMA SlotsAre ==
    /\ Cardinality(Slot) \in Nat
    /\ \A s \in Slot : s \in Nat /\ s < Cardinality(Slot)
    /\ \A n \in Nat : n < Cardinality(Slot) => n \in Slot
    /\ \A s \in Slot : s + 1 \notin Slot => s + 1 = Cardinality(Slot)
<1>1. Cardinality(Slot) \in Nat
  BY SlotCacheAssumption, FS_CardinalityType
<1>2. Slot = 0 .. Cardinality(Slot) - 1
  BY SlotCacheAssumption
<1> DEFINE n == Cardinality(Slot)
<1> HIDE DEF n
<1>3. n \in Nat /\ Slot = 0 .. n - 1
  BY <1>1, <1>2 DEF n
<1>4. /\ \A s \in Slot : s \in Nat /\ s < n
      /\ \A k \in Nat : k < n => k \in Slot
      /\ \A s \in Slot : s + 1 \notin Slot => s + 1 = n
  BY <1>3
<1> QED BY <1>1, <1>4 DEF n

LEMMA SizeIs ==
    ASSUME Types, PlaceOK
    PROVE  /\ Rest \in 1 .. Len(batch) + 1
           /\ pc \notin Decoding => Rest = 1 /\ view = NoView
           /\ pc \in Decoding => Size \in 1 .. Len(batch) /\ view.i + Size <= Len(batch)
<1>1. view.i \in Nat /\ view.n_batch \in Nat /\ view.n_batch > 0 /\ Len(batch) \in Nat
  BY SlotCacheAssumption DEF Types
<1>2. pc \in Decoding => Size \in 1 .. Len(batch) /\ view.i + Size <= Len(batch)
  <2>1. CASE pc \in Decoding
    <3>1. view.i < Len(batch)
      BY <2>1 DEF PlaceOK
    <3> QED BY <1>1, <3>1 DEF Size, Least
  <2> QED BY <2>1
<1>3. pc \notin Decoding => view = NoView /\ Rest = 1
  BY DEF PlaceOK, NoView, Rest, Decoding
<1>4. Rest \in 1 .. Len(batch) + 1
  <2>1. CASE pc \notin Decoding
    BY <1>1, <1>3, <2>1
  <2>2. CASE pc \in Decoding
    BY <1>1, <1>2, <2>2 DEF Rest
  <2> QED BY <2>1, <2>2
<1> QED BY <1>2, <1>3, <1>4

LEMMA CachedIs ==
    ASSUME NEW s \in Slot
    PROVE  /\ slots[s].cache \in Seq(Nat) => Cached(s) = Entries(slots[s].cache)
           /\ slots'[s].cache \in Seq(Nat) => Cached(s)' = Entries(slots'[s].cache)
BY DEF Cached, Entries

LEMMA WaitingIs ==
    ASSUME NEW s \in Slot
    PROVE  Waiting(s) = Left(batch, Rest, s) /\ Waiting(s)' = Left(batch', Rest', s)
BY DEF Waiting, Left

\* A slot that a step does not touch, and of which it adds no token to the batch.
LEMMA Frame ==
    ASSUME Types, PlaceOK, NEW t \in Slot,
           SlotOK(t), OutputOK(t), ReuseOK(t), MemoryOK(t),
           slots'[t] = slots[t], mem'[t] = mem[t], t \in lost' <=> t \in lost,
           ~Comparing(t), ~Comparing(t)', Rest' = Rest,
           NEW c \in Seq(Token), batch' = batch \o c, \A k \in 1 .. Len(c) : c[k].slot # t,
           t \in todo'.sample <=> t \in todo.sample,
           t \in todo.sample => view' = view /\ batch' = batch,
           t \in todo'.spec => slots[t].state = "generating" /\ slots[t].n_past + 2 <= NCtx
    PROVE  SlotOK(t)' /\ OutputOK(t)' /\ ReuseOK(t)' /\ MemoryOK(t)'
<1>1. /\ batch \in Seq(Token) /\ batch' \in Seq(Token) /\ Len(batch) \in Nat /\ Len(c) \in Nat
      /\ Len(batch') = Len(batch) + Len(c)
      /\ \A k \in 1 .. Len(batch) : batch'[k] = batch[k]
      /\ \A k \in 1 .. Len(c) : batch'[Len(batch) + k] = c[k]
  BY DEF Types
<1>2. ASSUME NEW k \in Nat, Len(batch) < k, k <= Len(batch')
      PROVE  batch'[k].slot # t
  <2>1. PICK j \in 1 .. Len(c) : Len(batch) + j = k
    <3>1. k - Len(batch) \in 1 .. Len(c) /\ Len(batch) + (k - Len(batch)) = k
      BY <1>1, <1>2
    <3> QED BY <3>1
  <2> QED BY <1>1, <2>1
<1>3. Rest \in 1 .. Len(batch) + 1
  BY SizeIs
<1>4. /\ HasOutput(t)' <=> HasOutput(t)
      /\ Active(t)' <=> Active(t)
  BY DEF HasOutput, Active
<1>5. SlotOK(t)'
  BY <1>4 DEF SlotOK
<1>6. ReuseOK(t)'
  BY DEF ReuseOK
<1>7. slots[t].i_batch \in Int /\ slots[t].cache \in Seq(Nat)
  <2>1. slots[t] \in SlotType
    BY DEF Types
  <2> QED BY <2>1 DEF SlotType
<1>8. OutputOK(t)'
  <2>1. CASE t \in todo.sample
    <3>1. view' = view /\ batch' = batch /\ Size' = Size
      BY <2>1 DEF Size
    <3> QED BY <1>4, <2>1, <3>1 DEF OutputOK
  <2>2. CASE t \notin todo.sample
    BY <1>1, <1>3, <1>4, <1>7, <2>2 DEF OutputOK
  <2> QED BY <2>1, <2>2
<1>9. Waiting(t)' = Waiting(t)
  <2>1. Left(c, 1, t) = {}
    BY DEF Left
  <2>2. Left(batch \o c, Rest, t) = Left(batch, Rest, t) \cup Left(c, 1, t)
    BY <1>1, <1>3, LeftConcat
  <2>3. Left(batch', Rest', t) = Left(batch, Rest, t)
    BY <2>1, <2>2
  <2> QED BY <2>3, WaitingIs
<1>10. HasOutput(t) => slots[t].i_batch + 1 \in 1 .. Len(batch)
  <2>1. SUFFICES ASSUME HasOutput(t)
                 PROVE  slots[t].i_batch + 1 \in 1 .. Len(batch)
    OBVIOUS
  <2>2. view.i \in Nat
    BY DEF Types
  <2> QED BY SMTT(30), <1>1, <1>3, <1>7, <2>1, <2>2 DEF OutputOK
<1>11. MemoryOK(t)'
  <2>1. SUFFICES ASSUME t \notin lost
                 PROVE  MemoryOK(t)'
    BY DEF MemoryOK
  <2>2. Cached(t)' = Cached(t)
    BY DEF Cached
  <2>3. ASSUME HasOutput(t)
        PROVE  /\ batch'[slots[t].i_batch + 1] = batch[slots[t].i_batch + 1]
               /\ \A k \in slots[t].i_batch + 2 .. Len(batch') : batch'[k].slot # t
    <3>1. batch'[slots[t].i_batch + 1] = batch[slots[t].i_batch + 1]
      BY <1>1, <1>10, <2>3
    <3>2. ASSUME NEW k \in slots[t].i_batch + 2 .. Len(batch')
          PROVE  batch'[k].slot # t
      <4>1. k \in Nat /\ k > 0
        BY <1>1, <1>7, <1>10, <2>3
      <4>2. CASE k <= Len(batch)
        <5>1. k \in slots[t].i_batch + 2 .. Len(batch) /\ k \in 1 .. Len(batch)
          BY <1>1, <1>7, <4>1, <4>2
        <5> QED BY <1>1, <2>1, <2>3, <5>1 DEF MemoryOK
      <4>3. CASE ~(k <= Len(batch))
        BY <1>1, <1>2, <4>1, <4>3
      <4> QED BY <4>2, <4>3
    <3> QED BY <3>1, <3>2
  <2>4. NoneWaits(t) => NoneWaits(t)'
    <3>1. SUFFICES ASSUME NoneWaits(t), NEW k \in Rest .. Len(batch')
                   PROVE  batch'[k].slot # t
      BY DEF NoneWaits
    <3>2. k \in Nat /\ k > 0
      BY <1>1, <1>3
    <3>3. CASE k <= Len(batch)
      <4>1. k \in Rest .. Len(batch) /\ k \in 1 .. Len(batch)
        BY <1>1, <1>3, <3>2, <3>3
      <4> QED BY <1>1, <3>1, <4>1 DEF NoneWaits
    <3>4. CASE ~(k <= Len(batch))
      BY <1>1, <1>2, <3>2, <3>4
    <3> QED BY <3>3, <3>4
  <2>5. MemoryOK(t)
    OBVIOUS
  <2> HIDE DEF MemoryOK
  <2> QED BY <1>4, <1>9, <2>1, <2>2, <2>3, <2>4, <2>5 DEF MemoryOK
<1> QED BY <1>5, <1>6, <1>8, <1>11

\* The same when the batch does not change.
LEMMA FrameSame ==
    ASSUME Types, PlaceOK, NEW t \in Slot,
           SlotOK(t), OutputOK(t), ReuseOK(t), MemoryOK(t),
           slots'[t] = slots[t], mem'[t] = mem[t], t \in lost' <=> t \in lost,
           ~Comparing(t), ~Comparing(t)', Rest' = Rest, batch' = batch,
           t \in todo'.sample <=> t \in todo.sample,
           t \in todo.sample => view' = view,
           t \in todo'.spec => slots[t].state = "generating" /\ slots[t].n_past + 2 <= NCtx
    PROVE  SlotOK(t)' /\ OutputOK(t)' /\ ReuseOK(t)' /\ MemoryOK(t)'
<1>1. batch' = batch \o <<>> /\ <<>> \in Seq(Token) /\ \A k \in 1 .. Len(<<>>) : <<>>[k].slot # t
  BY DEF Types
<1> QED BY <1>1, Frame


-----------------------------------------------------------------------------
(* What several actions do.                                                *)

LEMMA SlotIs ==
    ASSUME Types, NEW s \in Slot
    PROVE  /\ slots[s] \in SlotType /\ mem[s] \in SUBSET Entry
           /\ slots[s].state \in SlotState /\ slots[s].cache \in Seq(Nat) /\ slots[s].n_past \in Nat
           /\ slots[s].prompt \in Seq(Nat) /\ slots[s].lora \in Loras \cup {0} /\ slots[s].n_keep \in Int
           /\ slots[s].cache_prompt \in BOOLEAN /\ slots[s].sampled \in Nat /\ slots[s].i_batch \in Int
           /\ Len(slots[s].cache) \in Nat /\ Len(slots[s].prompt) \in Nat
           /\ \A k \in 1 .. Len(slots[s].cache) : slots[s].cache[k] \in Nat
           /\ Entries(slots[s].cache) \subseteq Entry
<1>1. slots[s] \in SlotType /\ mem[s] \in SUBSET Entry
  BY DEF Types
<1>2. /\ slots[s].state \in SlotState /\ slots[s].cache \in Seq(Nat) /\ slots[s].n_past \in Nat
      /\ slots[s].prompt \in Seq(Nat) /\ slots[s].lora \in Loras \cup {0} /\ slots[s].n_keep \in Int
      /\ slots[s].cache_prompt \in BOOLEAN /\ slots[s].sampled \in Nat /\ slots[s].i_batch \in Int
  BY <1>1 DEF SlotType
<1>3. ASSUME NEW q \in Seq(Nat)
      PROVE  Len(q) \in Nat /\ \A k \in 1 .. Len(q) : q[k] \in Nat
  OBVIOUS
<1>4. Entries(slots[s].cache) \subseteq Entry
  BY <1>2, EntriesAre
<1>5. /\ Len(slots[s].cache) \in Nat /\ Len(slots[s].prompt) \in Nat
      /\ \A k \in 1 .. Len(slots[s].cache) : slots[s].cache[k] \in Nat
  BY <1>2, <1>3
<1> QED BY <1>1, <1>2, <1>4, <1>5

LEMMA ReleasedIs ==
    ASSUME NEW sl \in SlotType
    PROVE  /\ Released(sl) \in SlotType
           /\ Released(sl).state = "idle" /\ Released(sl).n_past = 0 /\ Released(sl).cache = sl.cache
<1>1. NewSlot \in SlotType
  BY DEF NewSlot, SlotType, SlotState
<1>2. NewSlot.state = "idle" /\ NewSlot.n_past = 0
  BY DEF NewSlot
<1>3. sl.cache \in Seq(Nat) /\ sl.lora \in Loras \cup {0} /\ sl.i_batch \in Int
  BY DEF SlotType
<1> DEFINE new == NewSlot
<1> HIDE DEF new
<1>4. Released(sl) = [new EXCEPT !.cache = sl.cache, !.lora = sl.lora, !.i_batch = sl.i_batch]
  BY Zenon DEF Released, new
<1>5. new \in SlotType /\ new.state = "idle" /\ new.n_past = 0
  BY <1>1, <1>2 DEF new
<1> QED BY <1>3, <1>4, <1>5 DEF SlotType

\* A slot without a request, after a step.
LEMMA Inactive ==
    ASSUME NEW s \in Slot, slots'[s].state \in {"idle", "started"}, slots'[s].n_past = 0,
           Len(slots'[s].cache) < NCtx, ~Comparing(s)', s \notin todo'.sample, s \notin todo'.spec,
           s \notin lost' /\ slots'[s].cache # <<>> => Cached(s)' = mem'[s] \cup Waiting(s)'
    PROVE  SlotOK(s)' /\ OutputOK(s)' /\ ReuseOK(s)' /\ MemoryOK(s)' /\ RoomOK(s)'
<1>1. ~Active(s)' /\ ~HasOutput(s)'
  BY DEF Active, HasOutput
<1>2. SlotOK(s)'
  BY <1>1, SlotCacheAssumption DEF SlotOK
<1>3. OutputOK(s)' /\ ReuseOK(s)' /\ RoomOK(s)'
  BY <1>1 DEF OutputOK, ReuseOK, RoomOK
<1>4. MemoryOK(s)'
  BY <1>1 DEF MemoryOK
<1> QED BY <1>2, <1>3, <1>4

\* Nothing waits between two calls.
LEMMA IdleIs ==
    ASSUME Types, PlaceOK, pc = "idle", NEW s \in Slot
    PROVE  /\ batch = <<>> /\ view = NoView /\ at = 0 /\ todo.sample = {} /\ todo.spec = {}
           /\ Rest = 1 /\ Waiting(s) = {} /\ ~Comparing(s)
<1>1. batch = <<>> /\ view = NoView /\ at = 0 /\ todo.sample = {} /\ todo.spec = {}
  BY DEF PlaceOK, Filling, Decoding
<1>2. Rest = 1
  BY SizeIs DEF Decoding
<1>3. Waiting(s) = {}
  BY <1>1, <1>2 DEF Waiting
<1> QED BY <1>1, <1>2, <1>3 DEF Comparing

\* A task of the slot s.
LEMMA IdleTask ==
    ASSUME Types, IInv, pc = "idle", NEW s \in Slot, NEW new \in SlotType, NEW m \in SUBSET Entry,
           slots' = [slots EXCEPT ![s] = new], mem' = [mem EXCEPT ![s] = m],
           lost' \subseteq Slot, \A t \in Slot : t # s => (t \in lost' <=> t \in lost),
           file' \in [cache : Seq(Nat), mem : SUBSET Entry, lost : BOOLEAN], FileOK',
           UNCHANGED <<clean, pc, building, batch, view, todo>>,
           new.state \in {"idle", "started"}, new.n_past = 0, Len(new.cache) < NCtx,
           s \notin lost' /\ new.cache # <<>> => m = Entries(new.cache)
    PROVE  Types' /\ IInv'
<1>1. /\ \A t \in Slot : t # s => slots'[t] = slots[t] /\ mem'[t] = mem[t]
      /\ slots'[s] = new /\ mem'[s] = m
  BY DEF Types
<1>2. Types'
  BY DEF Types, building
<1>3. /\ batch = <<>> /\ view = NoView /\ at = 0 /\ todo.sample = {} /\ todo.spec = {} /\ Rest = 1
      /\ \A t \in Slot : Waiting(t) = {} /\ ~Comparing(t)
  BY IdleIs DEF IInv
<1>4. /\ pc' = pc /\ batch' = batch /\ view' = view /\ at' = at /\ todo' = todo /\ Rest' = Rest
      /\ \A t \in Slot : Waiting(t)' = {} /\ ~Comparing(t)' /\ RoomOK(t)'
  BY <1>3 DEF building, Rest, Size, Waiting, Comparing, RoomOK
<1>5. PlaceOK' /\ BatchOK'
  BY <1>3, <1>4 DEF IInv, PlaceOK, BatchOK, NoView
<1>6. ASSUME NEW t \in Slot, t # s
      PROVE  SlotOK(t)' /\ OutputOK(t)' /\ ReuseOK(t)' /\ MemoryOK(t)'
  BY <1>1, <1>3, <1>4, <1>6, FrameSame DEF IInv, SlotsOK
<1>7. SlotOK(s)' /\ OutputOK(s)' /\ ReuseOK(s)' /\ MemoryOK(s)' /\ RoomOK(s)'
  <2>1. new.cache \in Seq(Nat)
    BY DEF SlotType
  <2>2. Cached(s)' = Entries(new.cache)
    BY <1>1, <2>1, CachedIs
  <2> QED BY <1>1, <1>3, <1>4, <2>2, Inactive
<1> QED BY <1>2, <1>4, <1>5, <1>6, <1>7 DEF IInv, SlotsOK

\* What a slot without a request has cached is in its sequence.
LEMMA IdleMemory ==
    ASSUME Types, IInv, pc = "idle", NEW s \in Slot
    PROVE  /\ Len(slots[s].cache) < NCtx
           /\ s \notin lost /\ slots[s].cache # <<>> => mem[s] = Entries(slots[s].cache)
<1>1. SlotOK(s) /\ MemoryOK(s) /\ Waiting(s) = {} /\ ~Comparing(s)
  BY IdleIs DEF IInv, SlotsOK
<1>2. Cached(s) = Entries(slots[s].cache)
  BY SlotIs, CachedIs
<1>3. s \notin lost /\ slots[s].cache # <<>> => Cached(s) = mem[s]
  BY <1>1 DEF MemoryOK
<1> QED BY <1>1, <1>2, <1>3 DEF SlotOK

LEMMA LaunchKeeps ==
    ASSUME Types, IInv, NEW s \in Slot, NEW p \in Prompts, NEW lora \in Loras, NEW keep \in NKeep,
           NEW cached \in BOOLEAN, NEW ok \in BOOLEAN, Launch(s, p, lora, keep, cached, ok)
    PROVE  Types' /\ IInv'
<1> DEFINE kept == IF lora = slots[s].lora THEN slots[s].cache ELSE <<>>
           same == [slots[s] EXCEPT !.lora = lora, !.cache = kept]
           new == IF ~ok THEN same
                  ELSE [same EXCEPT !.state = "started", !.prompt = p, !.n_keep = keep, !.cache_prompt = cached]
<1>1. pc = "idle" /\ slots[s].state = "idle"
  BY DEF Launch, Processing
<1>2. /\ mem' = mem /\ file' = file /\ slots' = [slots EXCEPT ![s] = new]
      /\ lost' = IF lora = slots[s].lora THEN lost ELSE lost \ {s}
      /\ UNCHANGED <<clean, pc, building, batch, view, todo>>
  BY DEF Launch, Tasks
<1>3. slots[s].n_past = 0
  BY <1>1 DEF IInv, SlotsOK, SlotOK
<1>4. kept \in Seq(Nat) /\ Len(kept) < NCtx
  BY SlotIs, <1>1, IdleMemory, SlotCacheAssumption
<1> HIDE DEF kept
<1>5. same \in SlotType /\ same.state = "idle" /\ same.n_past = 0 /\ same.cache = kept
  <2>1. slots[s] \in SlotType
    BY SlotIs
  <2> QED BY <1>1, <1>3, <1>4, <2>1 DEF SlotType
<1> HIDE DEF same
<1>6. /\ new \in SlotType /\ new.state \in {"idle", "started"} /\ new.n_past = 0 /\ new.cache = kept
  <2>1. p \in Seq(Nat) /\ keep \in Int
    BY SlotCacheAssumption
  <2> QED BY <1>5, <2>1 DEF SlotType, SlotState
<1> HIDE DEF new
<1>7. s \notin lost' /\ kept # <<>> => mem[s] = Entries(kept)
  BY <1>1, <1>2, IdleMemory DEF kept
<1>8. FileOK' /\ file' \in [cache : Seq(Nat), mem : SUBSET Entry, lost : BOOLEAN]
  BY <1>2 DEF IInv, FileOK, Types
<1>9. mem' = [mem EXCEPT ![s] = mem[s]] /\ mem[s] \in SUBSET Entry /\ lost' \subseteq Slot
  BY <1>2 DEF Types
<1>10. \A t \in Slot : t # s => (t \in lost' <=> t \in lost)
  BY <1>2
<1> QED BY <1>1, <1>2, <1>4, <1>6, <1>7, <1>8, <1>9, <1>10, IdleTask

LEMMA CancelKeeps ==
    ASSUME Types, IInv, NEW s \in Slot, Cancel(s)
    PROVE  Types' /\ IInv'
<1>1. pc = "idle" /\ mem' = mem /\ file' = file /\ lost' = lost
  BY DEF Cancel, Tasks
<1>2. slots' = [slots EXCEPT ![s] = Released(slots[s])]
  BY DEF Cancel, Tasks
<1>3. UNCHANGED <<clean, pc, building, batch, view, todo>>
  BY DEF Cancel, Tasks
<1>4. /\ Released(slots[s]) \in SlotType /\ Released(slots[s]).state = "idle"
      /\ Released(slots[s]).n_past = 0 /\ Released(slots[s]).cache = slots[s].cache
  BY SlotIs, ReleasedIs
<1>5. FileOK' /\ file' \in [cache : Seq(Nat), mem : SUBSET Entry, lost : BOOLEAN]
  BY <1>1 DEF IInv, FileOK, Types
<1>6. mem' = [mem EXCEPT ![s] = mem[s]] /\ mem[s] \in SUBSET Entry /\ lost' \subseteq Slot
  BY <1>1 DEF Types
<1> QED BY ZenonT(30), <1>1, <1>2, <1>3, <1>4, <1>5, <1>6, IdleMemory, IdleTask

LEMMA SaveKeeps ==
    ASSUME Types, IInv, NEW s \in Slot, Save(s)
    PROVE  Types' /\ IInv'
<1>1. /\ pc = "idle" /\ mem' = mem /\ slots' = slots /\ lost' = lost /\ slots[s].state = "idle"
      /\ file' = [cache |-> slots[s].cache, mem |-> mem[s], lost |-> s \in lost]
  BY DEF Save, Tasks, Processing
<1>2. UNCHANGED <<clean, pc, building, batch, view, todo>>
  BY DEF Save, Tasks
<1>3. slots' = [slots EXCEPT ![s] = slots[s]] /\ slots[s] \in SlotType
  BY <1>1 DEF Types
<1>4. mem' = [mem EXCEPT ![s] = mem[s]] /\ mem[s] \in SUBSET Entry /\ lost' \subseteq Slot
  BY <1>1 DEF Types
<1>5. slots[s].n_past = 0
  BY <1>1 DEF IInv, SlotsOK, SlotOK
<1>6. file' \in [cache : Seq(Nat), mem : SUBSET Entry, lost : BOOLEAN]
  BY <1>1, SlotIs
<1>7. FileOK'
  <2>1. s \notin lost /\ slots[s].cache # <<>> => mem[s] = Entries(slots[s].cache)
    BY <1>1, IdleMemory
  <2>2. file'.cache = slots[s].cache /\ file'.mem = mem[s]
    BY <1>1
  <2>3. file'.lost <=> s \in lost
    BY <1>1, Zenon
  <2>4. slots[s].cache \in Seq(Nat)
    BY SlotIs
  <2>5. DOMAIN slots[s].cache = 1 .. Len(slots[s].cache)
    BY <2>4
  <2> QED BY <1>1, <2>1, <2>2, <2>3, <2>5, IdleMemory DEF FileOK, Entries
<1> QED BY <1>1, <1>2, <1>3, <1>4, <1>5, <1>6, <1>7, IdleMemory, IdleTask

LEMMA RestoreKeeps ==
    ASSUME Types, IInv, NEW s \in Slot, NEW how \in {"read", "no_room", "no_file"}, Restore(s, how)
    PROVE  Types' /\ IInv'
<1> DEFINE m == CASE how = "read" -> file.mem [] how = "no_room" -> {} [] how = "no_file" -> mem[s]
           q == IF how = "read" THEN file.cache ELSE <<>>
           new == [slots[s] EXCEPT !.cache = q]
<1>1. /\ pc = "idle" /\ slots[s].state = "idle" /\ file' = file
      /\ mem' = [mem EXCEPT ![s] = m]
      /\ lost' = IF how = "read" /\ file.lost THEN lost \cup {s} ELSE lost \ {s}
  BY DEF Restore, Tasks, Processing
<1>2. UNCHANGED <<clean, pc, building, batch, view, todo>>
  BY DEF Restore, Tasks
<1>3. slots' = [slots EXCEPT ![s] = new]
  BY DEF Restore, Tasks
<1>4. FileOK' /\ file' \in [cache : Seq(Nat), mem : SUBSET Entry, lost : BOOLEAN]
  BY <1>1 DEF IInv, FileOK, Types
<1>5. file.cache \in Seq(Nat) /\ file.mem \in SUBSET Entry /\ Len(file.cache) < NCtx
  BY DEF Types, IInv, FileOK
<1>6. q \in Seq(Nat) /\ Len(q) < NCtx /\ m \in SUBSET Entry /\ lost' \subseteq Slot
  BY <1>1, <1>5, SlotCacheAssumption, SlotIs DEF Types
<1>7. slots[s].n_past = 0
  BY <1>1 DEF IInv, SlotsOK, SlotOK
<1>8. s \notin lost' /\ q # <<>> => m = Entries(q)
  <2>1. SUFFICES ASSUME s \notin lost', q # <<>>
                 PROVE  m = Entries(q)
    OBVIOUS
  <2>2. how = "read" /\ ~file.lost /\ m = file.mem /\ q = file.cache
    BY <1>1, <2>1
  <2>3. DOMAIN q = 1 .. Len(q)
    BY <1>6
  <2> QED BY <2>1, <2>2, <2>3 DEF IInv, FileOK, Entries
<1> HIDE DEF m, q
<1>9. new \in SlotType /\ new.state = "idle" /\ new.n_past = 0 /\ new.cache = q
  BY <1>1, <1>6, <1>7, SlotIs DEF SlotType
<1>10. \A t \in Slot : t # s => (t \in lost' <=> t \in lost)
  BY <1>1
<1> HIDE DEF new
<1> QED BY <1>1, <1>2, <1>3, <1>4, <1>6, <1>8, <1>9, <1>10, IdleTask

LEMMA EraseKeeps ==
    ASSUME Types, IInv, NEW s \in Slot, Erase(s)
    PROVE  Types' /\ IInv'
<1> DEFINE new == [slots[s] EXCEPT !.cache = <<>>]
<1>1. /\ pc = "idle" /\ slots[s].state = "idle" /\ file' = file
      /\ mem' = [mem EXCEPT ![s] = {}] /\ lost' = lost \ {s}
  BY DEF Erase, Tasks, Processing
<1>2. UNCHANGED <<clean, pc, building, batch, view, todo>>
  BY DEF Erase, Tasks
<1>3. slots' = [slots EXCEPT ![s] = new]
  BY DEF Erase, Tasks
<1>4. FileOK' /\ file' \in [cache : Seq(Nat), mem : SUBSET Entry, lost : BOOLEAN]
  BY <1>1 DEF IInv, FileOK, Types
<1>5. slots[s].n_past = 0
  BY <1>1 DEF IInv, SlotsOK, SlotOK
<1>6. new \in SlotType /\ new.state = "idle" /\ new.n_past = 0 /\ new.cache = <<>> /\ Len(new.cache) < NCtx
  <2>1. <<>> \in Seq(Nat) /\ Len(<<>>) < NCtx
    BY SlotCacheAssumption
  <2>2. slots[s] \in SlotType
    BY SlotIs
  <2>3. new \in SlotType
    BY <2>1, <2>2 DEF SlotType
  <2>4. new.state = "idle" /\ new.n_past = 0 /\ new.cache = <<>>
    BY <1>1, <1>5, <2>2 DEF SlotType
  <2> QED BY <2>1, <2>3, <2>4
<1>7. lost' \subseteq Slot /\ \A t \in Slot : t # s => (t \in lost' <=> t \in lost)
  BY <1>1 DEF Types
<1>8. {} \in SUBSET Entry
  OBVIOUS
<1> HIDE DEF new
<1> QED BY <1>1, <1>2, <1>3, <1>4, <1>6, <1>7, <1>8, IdleTask

LEMMA IdleUpdateKeeps ==
    ASSUME Types, IInv, IdleUpdate
    PROVE  Types' /\ IInv'
<1>1. /\ pc = "idle" /\ slots' = slots /\ file' = file /\ pc' = pc /\ at' = at /\ batch' = batch
      /\ view' = view /\ todo' = todo /\ heads' = heads
      /\ mem' = [s \in Slot |-> {}] /\ lost' = {s \in Slot : slots[s].cache # <<>>}
      /\ \A s \in Slot : slots[s].state = "idle"
  BY DEF IdleUpdate, Processing, building
<1>2. Types'
  BY <1>1 DEF Types
<1>3. /\ \A t \in Slot : ~Comparing(t) /\ ~Comparing(t)'
      /\ todo.sample = {} /\ todo.spec = {}
  <2>1. PlaceOK
    BY DEF IInv
  <2>2. todo.sample = {} /\ todo.spec = {}
    BY <1>1, <2>1 DEF PlaceOK
  <2> QED BY <1>1, <2>2 DEF Comparing
<1>4. PlaceOK' /\ BatchOK' /\ FileOK'
  BY <1>1 DEF IInv, PlaceOK, BatchOK, FileOK
<1>5. ASSUME NEW s \in Slot
      PROVE  SlotOK(s)' /\ OutputOK(s)' /\ ReuseOK(s)' /\ MemoryOK(s)' /\ RoomOK(s)'
  <2>1. slots'[s].state = "idle" /\ slots'[s].n_past = 0 /\ Len(slots'[s].cache) < NCtx
    <3>1. SlotOK(s)
      BY DEF IInv, SlotsOK
    <3> QED BY <1>1, <3>1 DEF SlotOK
  <2>2. s \notin lost' => slots'[s].cache = <<>>
    BY <1>1
  <2> QED BY <1>1, <1>3, <2>1, <2>2, Inactive
<1> QED BY <1>2, <1>4, <1>5 DEF IInv, SlotsOK

LEMMA BeginKeeps ==
    ASSUME Types, IInv, Begin
    PROVE  Types' /\ IInv'
<1>1. /\ pc = "idle" /\ slots' = slots /\ mem' = mem /\ file' = file /\ pc' = "shift" /\ at' = at /\ batch' = batch
      /\ view' = view /\ todo' = todo /\ heads' = heads /\ lost' = lost
  BY DEF Begin, building
<1>2. Types'
  BY <1>1 DEF Types
<1>3. /\ batch = <<>> /\ view = NoView /\ at = 0 /\ todo.sample = {} /\ todo.spec = {} /\ Rest = 1 /\ Rest' = 1
      /\ \A t \in Slot : ~Comparing(t) /\ ~Comparing(t)' /\ Waiting(t) = {}
      /\ 0 \in Slot
  <2>1. \E s \in Slot : TRUE
    BY DEF Begin
  <2>2. 0 \in Slot
    BY <2>1, SlotsAre
  <2> QED BY <1>1, <2>1, <2>2, IdleIs DEF IInv, Comparing, Rest, NoView
<1>4. PlaceOK' /\ BatchOK' /\ FileOK'
  BY <1>1, <1>3 DEF IInv, PlaceOK, BatchOK, FileOK, Decoding, Filling, NoView
<1>5. ASSUME NEW s \in Slot
      PROVE  SlotOK(s)' /\ OutputOK(s)' /\ ReuseOK(s)' /\ MemoryOK(s)'
  BY <1>1, <1>3, FrameSame DEF IInv, SlotsOK
<1>6. ASSUME NEW s \in Slot
      PROVE  RoomOK(s)'
  BY <1>1, <1>3, SlotsAre DEF RoomOK
<1> QED BY <1>2, <1>4, <1>5, <1>6 DEF IInv, SlotsOK

\* The next slot of a loop, or the first one of the next loop.
LEMMA NextSlotIs ==
    ASSUME at \in Slot, NEW loop, NEW next, NextSlot(loop, next)
    PROVE  /\ at' \in Slot /\ pc' \in {loop, next}
           /\ pc' = loop \/ \A t \in Slot : t <= at
           /\ (pc' = loop /\ at' = at + 1) \/ (pc' = next /\ at' = 0)
           /\ \A t \in Slot : t < at + 1 => t = at \/ t < at
<1>1. at \in Nat /\ \A t \in Slot : t \in Nat
  BY SlotsAre
<1>2. CASE at + 1 \in Slot
  BY <1>1, <1>2 DEF NextSlot
<1>3. CASE at + 1 \notin Slot
  <2>1. at + 1 = Cardinality(Slot) /\ Cardinality(Slot) \in Nat /\ 0 < Cardinality(Slot)
    BY <1>1, <1>3, SlotsAre
  <2>2. 0 \in Slot
    BY <2>1, SlotsAre
  <2>3. \A t \in Slot : t <= at
    BY <1>1, <2>1, SlotsAre
  <2> QED BY <1>1, <1>3, <2>2, <2>3 DEF NextSlot
<1> QED BY <1>2, <1>3

\* A slot whose context is shifted generates, its context is just full, and
\* there is something of it to give up.
LEMMA FullIs ==
    ASSUME Types, IInv, pc = "shift", IsFull(at)
    PROVE  LET sl   == slots[at]
               keep == sl.n_keep + AddBos
               d    == (sl.n_past - keep) \div 2
           IN  /\ sl.state = "generating" /\ Len(sl.cache) = sl.n_past /\ sl.n_past + 1 = NCtx
               /\ keep \in Nat /\ d \in Nat /\ d > 0 /\ keep + d <= sl.n_past
<1> DEFINE sl == slots[at]
           keep == sl.n_keep + AddBos
           d == (sl.n_past - keep) \div 2
<1>1. at \in Slot /\ batch = <<>> /\ todo.sample = {}
  BY DEF IInv, PlaceOK
<1>2. SlotOK(at) /\ OutputOK(at) /\ ~Comparing(at)
  BY <1>1 DEF IInv, SlotsOK, Comparing
<1>3. /\ sl.state \in SlotState /\ sl.cache \in Seq(Nat) /\ sl.n_past \in Nat /\ sl.prompt \in Seq(Nat)
      /\ sl.n_keep \in Int /\ sl.i_batch \in Int
      /\ Len(sl.cache) \in Nat /\ Len(sl.prompt) \in Nat
  BY <1>1, SlotIs
<1>4. sl.state # "idle" /\ sl.n_past + 1 >= NCtx /\ sl.n_past < NCtx
  BY <1>2 DEF IsFull, Processing, SlotOK
<1>5. sl.n_past + 1 = NCtx /\ sl.n_past >= 3
  <2> HIDE DEF sl
  <2> QED BY <1>3, <1>4, SlotCacheAssumption
<1>6. sl.state # "started"
  BY <1>2, <1>5 DEF SlotOK
<1>7. sl.state # "done_prompt"
  <2>1. SUFFICES ASSUME sl.state = "done_prompt"
                 PROVE  FALSE
    OBVIOUS
  <2>2. sl.i_batch + 1 \in Rest .. Len(batch)
    BY <1>1, <1>2, <2>1 DEF OutputOK, HasOutput
  <2>3. Rest = 1 /\ Len(batch) = 0
    BY <1>1, SizeIs DEF IInv, Decoding
  <2> QED BY <2>2, <2>3
<1>8. sl.state # "prompt"
  <2>1. SUFFICES ASSUME sl.state = "prompt"
                 PROVE  FALSE
    OBVIOUS
  <2>2. sl.n_past = Len(sl.cache) /\ IsStrictPrefix(sl.cache, sl.prompt) /\ Len(sl.prompt) <= NCtx - 1
    BY <1>2, <2>1 DEF SlotOK, Active
  <2>3. Len(sl.cache) <= Len(sl.prompt) /\ Len(sl.cache) # Len(sl.prompt)
    <3>1. /\ sl.cache # sl.prompt /\ Len(sl.cache) <= Len(sl.prompt)
          /\ SubSeq(sl.cache, 1, Len(sl.cache)) = SubSeq(sl.prompt, 1, Len(sl.cache))
      BY <2>2 DEF IsStrictPrefix, IsPrefix
    <3>2. ASSUME NEW q \in Seq(Nat)
          PROVE  SubSeq(q, 1, Len(q)) = q
      OBVIOUS
    <3>3. SubSeq(sl.cache, 1, Len(sl.cache)) = sl.cache /\ SubSeq(sl.prompt, 1, Len(sl.prompt)) = sl.prompt
      BY <1>3, <3>2
    <3> QED BY <3>1, <3>3
  <2> HIDE DEF sl
  <2> QED BY <1>3, <1>5, <2>2, <2>3, SlotCacheAssumption
<1>9. sl.state = "generating"
  BY <1>3, <1>4, <1>6, <1>7, <1>8 DEF SlotState
<1>10. sl.n_past = Len(sl.cache) /\ sl.n_keep \in 0 .. NCtx - 4
  BY <1>2, <1>9 DEF SlotOK, Active
<1>11. keep \in Nat /\ keep <= NCtx - 3
  <2> HIDE DEF sl
  <2> QED BY <1>10, SlotCacheAssumption
<1>12. d \in Nat /\ d > 0 /\ keep + d <= sl.n_past
  <2> HIDE DEF sl, keep
  <2> QED BY <1>3, <1>5, <1>11, SlotCacheAssumption
<1> QED BY <1>5, <1>9, <1>10, <1>11, <1>12

LEMMA ShiftContextKeeps ==
    ASSUME Types, IInv, ShiftContext
    PROVE  Types' /\ IInv'
<1>0. PICK s \in Slot : s = at
  <2>1. at \in Slot
    BY DEF ShiftContext, IInv, PlaceOK
  <2> QED BY <2>1
<1> DEFINE sl == slots[s]
           keep == sl.n_keep + AddBos
           d == (sl.n_past - keep) \div 2
           q == SubSeq(sl.cache, 1, keep) \o SubSeq(sl.cache, keep + d + 1, Len(sl.cache))
           m == SeqAdd(SeqRm(mem[s], keep, keep + d), keep + d, sl.n_past, -d)
           new == [sl EXCEPT !.cache = q, !.n_past = @ - d]
<1>1. /\ pc = "shift" /\ file' = file /\ heads' = heads /\ batch' = batch /\ view' = view /\ todo' = todo
      /\ lost' = lost /\ NextSlot("shift", "sampled")
  BY DEF ShiftContext
<1>2. at \in Slot /\ batch = <<>> /\ view = NoView /\ todo.sample = {} /\ todo.spec = {} /\ Len(batch) = 0
  BY <1>1 DEF IInv, PlaceOK, Decoding
<1>3. /\ at' \in Slot /\ pc' \in {"shift", "sampled"}
      /\ (pc' = "shift" /\ at' = at + 1) \/ (pc' = "sampled" /\ at' = 0)
      /\ pc' = "sampled" => \A t \in Slot : t <= at
      /\ \A t \in Slot : t < at + 1 => t = at \/ t < at
  BY <1>0, <1>1, <1>2, NextSlotIs
<1>4. Rest = 1 /\ Rest' = 1 /\ \A t \in Slot : ~Comparing(t) /\ ~Comparing(t)'
  BY <1>0, <1>1, <1>2, <1>3 DEF Comparing, Rest, NoView
<1>5. \A t \in Slot : Waiting(t) = {} /\ Waiting(t)' = {}
  BY <1>0, <1>1, <1>2, <1>4 DEF Waiting
<1>6. \A t \in Slot : SlotOK(t) /\ OutputOK(t) /\ ReuseOK(t) /\ MemoryOK(t) /\ RoomOK(t)
  BY DEF IInv, SlotsOK
<1>7. PlaceOK' /\ FileOK'
  <2>1. 0 <= at'
    BY <1>3, SlotsAre
  <2> QED BY <1>0, <1>1, <1>2, <1>3, <2>1 DEF IInv, PlaceOK, FileOK, Decoding, Filling, NoView
<1>8. BatchOK'
  BY <1>0, <1>1, <1>2 DEF BatchOK
<1>9. ASSUME NEW t \in Slot, t # s, slots'[t] = slots[t], mem'[t] = mem[t]
      PROVE  SlotOK(t)' /\ OutputOK(t)' /\ ReuseOK(t)' /\ MemoryOK(t)' /\ RoomOK(t)'
  <2>1. SlotOK(t)' /\ OutputOK(t)' /\ ReuseOK(t)' /\ MemoryOK(t)'
    BY <1>0, <1>1, <1>2, <1>4, <1>6, <1>9, FrameSame DEF IInv
  <2>2. RoomOK(t)'
    <3>1. t \in Nat /\ at \in Nat
      BY <1>0, <1>2, SlotsAre
    <3>2. CASE pc' = "shift"
      <4>1. t < at' => t < at
        BY <1>3, <1>9, <1>0, <3>1, <3>2
      <4> QED BY <1>1, <1>6, <1>9, <3>2, <4>1 DEF RoomOK
    <3>3. CASE pc' = "sampled"
      <4>1. t < at
        BY <1>3, <1>9, <1>0, <3>1, <3>3
      <4> QED BY <1>1, <1>6, <1>9, <3>3, <4>1 DEF RoomOK
    <3> QED BY <1>3, <3>2, <3>3
  <2> QED BY <2>1, <2>2
<1>10. CASE ~IsFull(s)
  <2>1. slots' = slots /\ mem' = mem
    BY <1>0, <1>10 DEF ShiftContext
  <2>2. Types'
    BY <1>0, <1>1, <2>1 DEF Types
  <2>3. SlotOK(s)' /\ OutputOK(s)' /\ ReuseOK(s)' /\ MemoryOK(s)'
    BY <1>0, <1>1, <1>2, <1>4, <1>6, <2>1, FrameSame DEF IInv
  <2>4. RoomOK(s)'
    <3>1. sl.n_past \in Nat /\ NCtx \in Nat
      BY <1>0, <1>2, SlotIs, SlotCacheAssumption
    <3>2. sl.state = "generating" => sl.n_past + 1 < NCtx
      BY <1>10, <3>1 DEF IsFull, Processing
    <3>3. slots'[s] = slots[s]
      BY <2>1
    <3> QED BY <2>1, <3>2 DEF RoomOK
  <2> QED BY <1>7, <1>8, <1>9, <2>1, <2>2, <2>3, <2>4 DEF IInv, SlotsOK
<1>11. CASE IsFull(s) /\ ~CtxShift
  <2>1. slots' = [slots EXCEPT ![s] = Released(slots[s])] /\ mem' = mem
    BY <1>0, <1>11 DEF ShiftContext
  <2>2. /\ Released(slots[s]) \in SlotType /\ Released(slots[s]).state = "idle"
        /\ Released(slots[s]).n_past = 0 /\ Released(slots[s]).cache = slots[s].cache
    BY <1>0, <1>2, SlotIs, ReleasedIs
  <2>3. slots'[s] = Released(slots[s]) /\ \A t \in Slot : t # s => slots'[t] = slots[t]
    BY <1>0, <1>2, <2>1 DEF Types
  <2>4. Types'
    BY <1>0, <1>1, <2>1, <2>2 DEF Types
  <2>5. Cached(s)' = Cached(s)
    BY <2>2, <2>3 DEF Cached
  <2>6. s \notin lost /\ slots[s].cache # <<>> => Cached(s) = mem[s]
    BY ZenonT(30), <1>0, <1>2, <1>4, <1>5, <1>6 DEF MemoryOK
  <2>7. SlotOK(s)' /\ OutputOK(s)' /\ ReuseOK(s)' /\ MemoryOK(s)' /\ RoomOK(s)'
    <3>1. Len(slots[s].cache) < NCtx
      BY <1>0, <1>2, <1>6 DEF SlotOK
    <3> QED BY <1>0, <1>1, <1>2, <1>4, <1>5, <2>1, <2>2, <2>3, <2>5, <2>6, <3>1, Inactive
  <2> QED BY <1>7, <1>8, <1>9, <2>1, <2>3, <2>4, <2>7 DEF IInv, SlotsOK
<1>12. CASE IsFull(s) /\ CtxShift
  <2>1. mem' = [mem EXCEPT ![s] = m] /\ slots' = [slots EXCEPT ![s] = new]
    <3>1. mem' = [mem EXCEPT ![s] = m]
      BY <1>0, <1>12 DEF ShiftContext
    <3>2. slots' = [slots EXCEPT ![s].cache = q, ![s].n_past = @ - d]
      BY <1>0, <1>12 DEF ShiftContext
    <3>3. slots' = [slots EXCEPT ![s] = new]
      <4> HIDE DEF q, d
      <4> QED BY <1>0, <1>2, <3>2 DEF Types
    <3> QED BY <3>1, <3>3
  <2>2. /\ sl.state = "generating" /\ Len(sl.cache) = sl.n_past /\ sl.n_past + 1 = NCtx
        /\ keep \in Nat /\ d \in Nat /\ d > 0 /\ keep + d <= sl.n_past
    BY <1>0, <1>1, <1>12, FullIs
  <2>3. sl \in SlotType /\ sl.cache \in Seq(Nat) /\ sl.n_past \in Nat /\ mem[s] \in SUBSET Entry /\ sl.i_batch \in Int
    BY <1>0, <1>2, SlotIs
  <2>4. /\ q \in Seq(Nat) /\ Len(q) = sl.n_past - d
        /\ Entries(q) = SeqAdd(SeqRm(Entries(sl.cache), keep, keep + d), keep + d, sl.n_past, -d)
    <3> HIDE DEF sl, keep, d
    <3>1. /\ q \in Seq(Nat) /\ Len(q) = Len(sl.cache) - d
          /\ Entries(q) = SeqAdd(SeqRm(Entries(sl.cache), keep, keep + d), keep + d, Len(sl.cache), -d)
      BY <2>2, <2>3, EntriesShift, Zenon
    <3> HIDE DEF q
    <3> QED BY <2>2, <3>1
  <2>5. m \in SUBSET Entry
    <3> HIDE DEF sl, keep, d
    <3>1. keep + d \in Nat /\ -d \in Int /\ keep + d + (-d) >= 0
      BY <2>2
    <3> QED BY <2>2, <2>3, <3>1, MemoryTypes
  <2> HIDE DEF m
  <2>6. /\ new \in SlotType /\ new.cache = q /\ new.n_past = sl.n_past - d /\ new.state = "generating"
        /\ new.n_keep = sl.n_keep /\ new.i_batch = sl.i_batch /\ new.sampled = sl.sampled
    <3>1. sl.n_past - d \in Nat
      <4> HIDE DEF sl, keep, d
      <4> QED BY <2>2, <2>3
    <3> HIDE DEF q, d
    <3> QED BY <2>2, <2>3, <2>4, <3>1 DEF SlotType
  <2> HIDE DEF new
  <2>7. /\ slots'[s] = new /\ mem'[s] = m
        /\ \A t \in Slot : t # s => slots'[t] = slots[t] /\ mem'[t] = mem[t]
    BY <1>0, <1>2, <2>1 DEF Types
  <2>8. Types'
    BY <1>0, <1>1, <1>2, <2>1, <2>5, <2>6 DEF Types
  <2>9. new.n_past + 1 < NCtx /\ Len(q) < NCtx /\ Len(q) = new.n_past /\ new.n_past < NCtx
    <3> HIDE DEF sl, keep, d, q
    <3> QED BY SMTT(30), <2>2, <2>3, <2>4, <2>6, SlotCacheAssumption
  <2>10. SlotOK(s)'
    <3>1. slots[s].n_keep \in 0 .. NCtx - 4 /\ slots[s].sampled \in Tokens
      BY <1>0, <1>2, <1>6, <2>2 DEF SlotOK, Active
    <3> HIDE DEF q
    <3> QED BY <1>0, <1>2, <1>4, <2>6, <2>7, <2>9, <3>1 DEF SlotOK, Active
  <2>11. ~HasOutput(s) /\ sl.i_batch = -1
    <3>1. ~HasOutput(s)
      <4>1. HasOutput(s) => sl.i_batch + 1 \in 1 .. 0
        BY <1>0, <1>2, <1>4, <1>6 DEF OutputOK
      <4> QED BY <2>3, <4>1
    <3> QED BY <2>2, <3>1 DEF HasOutput
  <2>12. ~HasOutput(s)'
    BY <2>6, <2>7, <2>11 DEF HasOutput
  <2>13. OutputOK(s)' /\ ReuseOK(s)' /\ RoomOK(s)'
    BY <1>0, <1>1, <1>2, <1>4, <2>7, <2>9, <2>12 DEF OutputOK, ReuseOK, RoomOK
  <2>14. MemoryOK(s)'
    <3>1. SUFFICES ASSUME s \notin lost
                   PROVE  MemoryOK(s)'
      BY <1>1 DEF MemoryOK
    <3>2. Cached(s) = mem[s] /\ Cached(s) = Entries(sl.cache)
      <4>1. Cached(s) = Entries(sl.cache)
        BY <1>0, <2>3, CachedIs
      <4>2. MemoryOK(s) /\ ~Comparing(s) /\ Active(s) /\ Waiting(s) = {}
        BY <1>4, <1>5, <1>6, <2>2 DEF Active
      <4>3. Cached(s) = mem[s] \cup Waiting(s)
        BY <3>1, <4>2 DEF MemoryOK
      <4> QED BY <4>1, <4>2, <4>3
    <3>3. m = Entries(q)
      BY <2>4, <3>2 DEF m
    <3>4. Cached(s)' = Entries(q)
      <4> HIDE DEF q
      <4> QED BY <1>0, <1>2, <2>4, <2>6, <2>7, CachedIs
    <3>5. NoneWaits(s)'
      BY <1>0, <1>1, <1>2, <1>4 DEF NoneWaits
    <3> HIDE DEF q
    <3> QED BY <1>0, <1>2, <1>5, <2>7, <2>12, <3>3, <3>4, <3>5 DEF MemoryOK
  <2> QED BY <1>7, <1>8, <1>9, <2>7, <2>8, <2>10, <2>13, <2>14 DEF IInv, SlotsOK
<1> QED BY <1>10, <1>11, <1>12

LEMMA AddSampledKeeps ==
    ASSUME Types, IInv, AddSampled
    PROVE  Types' /\ IInv'
<1>0. PICK s \in Slot : s = at
  <2>1. at \in Slot
    BY DEF AddSampled, IInv, PlaceOK
  <2> QED BY <2>1
<1>1. /\ pc = "sampled" /\ mem' = mem /\ file' = file /\ heads' = heads /\ view' = view /\ todo' = todo
      /\ lost' = lost /\ NextSlot("sampled", "prompt")
  BY DEF AddSampled
<1>2. /\ view = NoView /\ todo.sample = {} /\ todo.spec = {} /\ batch \in Seq(Token) /\ Len(batch) \in Nat
      /\ Len(batch) <= s /\ s \in Nat
  BY <1>0, <1>1, SlotsAre DEF IInv, PlaceOK, Decoding, Types
<1>3. /\ at' \in Slot /\ pc' \in {"sampled", "prompt"}
      /\ (pc' = "sampled" /\ at' = s + 1) \/ (pc' = "prompt" /\ at' = 0)
      /\ \A t \in Slot : t < s + 1 => t = s \/ t < s
  BY <1>0, <1>1, NextSlotIs
<1>4. Rest = 1 /\ Rest' = 1 /\ \A t \in Slot : ~Comparing(t) /\ ~Comparing(t)'
  BY <1>1, <1>2, <1>3 DEF Comparing, Rest, NoView
<1>5. \A t \in Slot : SlotOK(t) /\ OutputOK(t) /\ ReuseOK(t) /\ MemoryOK(t) /\ RoomOK(t)
  BY DEF IInv, SlotsOK
<1>6. FileOK'
  BY <1>1 DEF IInv, FileOK
<1>7. ASSUME NEW c \in Seq(Token), batch' = batch \o c, \A k \in 1 .. Len(c) : c[k].slot = s,
             NEW t \in Slot, t # s \/ Len(c) = 0, slots'[t] = slots[t]
      PROVE  SlotOK(t)' /\ OutputOK(t)' /\ ReuseOK(t)' /\ MemoryOK(t)' /\ RoomOK(t)'
  <2>1. \A k \in 1 .. Len(c) : c[k].slot # t
    BY <1>7
  <2>2. SlotOK(t)' /\ OutputOK(t)' /\ ReuseOK(t)' /\ MemoryOK(t)'
    BY <1>1, <1>2, <1>4, <1>5, <1>7, <2>1, Frame DEF IInv
  <2>3. RoomOK(t)'
    <3>1. t \in Nat
      BY SlotsAre
    <3>2. pc' = "sampled" /\ at' <= t => at <= t
      BY <1>0, <1>2, <1>3, <3>1
    <3> QED BY <1>1, <1>3, <1>5, <1>7, <3>2 DEF RoomOK
  <2> QED BY <2>2, <2>3
<1>8. ASSUME NEW c \in Seq(Token), batch' = batch \o c, \A k \in 1 .. Len(c) : c[k].slot = s,
             Len(c) \in 0 .. 1, Len(c) = 1 => slots'[s].state = "generating",
             \A t \in Slot : slots'[t].state = slots[t].state
      PROVE  PlaceOK' /\ BatchOK'
  <2>1. /\ Len(batch') = Len(batch) + Len(c) /\ batch' \in Seq(Token)
        /\ \A k \in 1 .. Len(batch) : batch'[k] = batch[k]
        /\ \A k \in 1 .. Len(c) : batch'[Len(batch) + k] = c[k]
    BY <1>2, <1>8
  <2>2. Len(batch') <= s + 1 /\ Len(batch') <= NBatch + Cardinality(Slot)
    <3>1. Len(batch') <= s + 1
      BY SMTT(30), <1>2, <1>8, <2>1
    <3>2. s + 1 <= Cardinality(Slot) /\ Cardinality(Slot) \in Nat /\ NBatch \in Nat
      BY SlotsAre, SlotCacheAssumption
    <3>3. Len(batch') \in Nat
      BY <2>1
    <3> QED BY <1>2, <3>1, <3>2, <3>3
  <2>3. PlaceOK'
    BY <1>1, <1>2, <1>3, <2>2 DEF IInv, PlaceOK, Decoding, Filling, NoView
  <2>4. ASSUME NEW k \in 1 .. Len(batch')
        PROVE  batch'[k].slot \in Slot /\ batch'[k].slot < s + 1 /\ slots'[batch'[k].slot].state = "generating"
    <3>1. CASE k <= Len(batch)
      <4>1. k \in 1 .. Len(batch) /\ batch'[k] = batch[k]
        BY <1>2, <2>1, <3>1
      <4>2. batch[k].slot < s /\ slots[batch[k].slot].state = "generating"
        BY <1>0, <1>1, <4>1 DEF IInv, BatchOK
      <4>3. batch[k] \in Token
        BY <1>2, <4>1
      <4>4. batch[k].slot \in Slot /\ batch[k].slot \in Nat
        BY <4>3, SlotsAre DEF Token
      <4> QED BY <1>2, <1>8, <4>1, <4>2, <4>4
    <3>2. CASE ~(k <= Len(batch))
      <4>1. k = Len(batch) + 1 /\ Len(c) = 1 /\ 1 \in 1 .. Len(c)
        BY <1>2, <1>8, <2>1, <3>2
      <4>2. batch'[k] = c[1] /\ c[1].slot = s
        BY <1>8, <2>1, <4>1
      <4> QED BY <1>2, <1>8, <4>1, <4>2
    <3> QED BY <3>1, <3>2
  <2>5. BatchOK'
    BY <1>3, <2>4 DEF BatchOK
  <2> QED BY <2>3, <2>5
<1>9. CASE ~(slots[s].state = "generating" /\ CanBatch(s))
  <2>1. slots' = slots /\ batch' = batch
    BY <1>0, <1>9 DEF AddSampled
  <2>2. Types'
    BY <1>1, <2>1 DEF Types
  <2>3. <<>> \in Seq(Token) /\ batch' = batch \o <<>> /\ Len(<<>>) = 0 /\ \A k \in 1 .. Len(<<>>) : <<>>[k].slot = s
    BY <1>2, <2>1
  <2>4. PlaceOK' /\ BatchOK'
    <3>1. Len(<<>>) \in 0 .. 1 /\ Len(<<>>) # 1 /\ \A t \in Slot : slots'[t].state = slots[t].state
      BY <2>1
    <3> QED BY <1>8, <2>3, <3>1
  <2>5. \A t \in Slot : SlotOK(t)' /\ OutputOK(t)' /\ ReuseOK(t)' /\ MemoryOK(t)' /\ RoomOK(t)'
    BY <1>7, <2>1, <2>3
  <2> QED BY <1>6, <2>2, <2>4, <2>5 DEF IInv, SlotsOK
<1>10. CASE slots[s].state = "generating" /\ CanBatch(s)
  <2> DEFINE sl == slots[s]
             token == [slot |-> s, pos |-> sl.n_past, tok |-> sl.sampled]
             c == <<token>>
             q == Append(sl.cache, sl.sampled)
             new == [sl EXCEPT !.i_batch = Len(batch), !.n_past = @ + 1, !.cache = q]
  <2>1. batch' = Append(batch, token)
    BY <1>0, <1>10 DEF AddSampled
  <2>2. sl \in SlotType /\ sl.cache \in Seq(Nat) /\ sl.n_past \in Nat /\ sl.sampled \in Nat
    BY SlotIs
  <2>3. slots' = [slots EXCEPT ![s] = new]
    <3>1. slots' = [slots EXCEPT ![s].i_batch = Len(batch), ![s].n_past = @ + 1,
                                 ![s].cache = Append(@, sl.sampled)]
      BY <1>0, <1>10 DEF AddSampled
    <3> QED BY <2>2, <3>1 DEF Types
  <2>4. token \in Token
    BY <2>2 DEF Token
  <2>5. token.slot = s /\ token.pos = sl.n_past /\ token.tok = sl.sampled
    OBVIOUS
  <2> HIDE DEF token
  <2>6. c \in Seq(Token) /\ batch' = batch \o c /\ Len(c) = 1 /\ c[1] = token /\ \A k \in 1 .. Len(c) : c[k].slot = s
    BY <1>2, <2>1, <2>4, <2>5
  <2> HIDE DEF c
  <2>7. /\ q \in Seq(Nat) /\ Len(q) = Len(sl.cache) + 1 /\ q[Len(sl.cache) + 1] = sl.sampled
        /\ Entries(q) = Entries(sl.cache) \cup {[pos |-> Len(sl.cache), tok |-> sl.sampled]}
    BY <2>2, EntriesAppend
  <2> HIDE DEF q
  <2>8. /\ new \in SlotType /\ new.cache = q /\ new.n_past = sl.n_past + 1 /\ new.i_batch = Len(batch)
        /\ new.state = "generating" /\ new.n_keep = sl.n_keep /\ new.sampled = sl.sampled
    <3>1. sl.n_past + 1 \in Nat /\ Len(batch) \in Int /\ sl.state = "generating"
      BY <1>2, <1>10, <2>2
    <3> HIDE DEF sl
    <3>2. new \in SlotType
      BY <2>2, <2>7, <3>1 DEF SlotType
    <3>3. /\ new.cache = q /\ new.n_past = sl.n_past + 1 /\ new.i_batch = Len(batch)
          /\ new.state = "generating" /\ new.n_keep = sl.n_keep /\ new.sampled = sl.sampled
      BY <2>2, <3>1 DEF SlotType
    <3> QED BY <3>2, <3>3
  <2> HIDE DEF new
  <2>9. slots'[s] = new /\ \A t \in Slot : t # s => slots'[t] = slots[t]
    BY <2>3 DEF Types
  <2>10. Types'
    <3>1. slots' \in [Slot -> SlotType]
      BY <2>3, <2>8 DEF Types
    <3>2. batch' \in Seq(Token)
      BY <1>2, <2>1, <2>4
    <3> QED BY <1>1, <3>1, <3>2 DEF Types
  <2>11. PlaceOK' /\ BatchOK'
    <3>1. Len(c) \in 0 .. 1 /\ slots'[s].state = "generating"
      BY <2>6, <2>8, <2>9
    <3>2. \A t \in Slot : slots'[t].state = slots[t].state
      BY <1>10, <2>9, <3>1
    <3> QED BY <1>8, <2>6, <3>1, <3>2
  <2>12. ASSUME NEW t \in Slot, t # s
         PROVE  SlotOK(t)' /\ OutputOK(t)' /\ ReuseOK(t)' /\ MemoryOK(t)' /\ RoomOK(t)'
    BY <1>7, <2>6, <2>9, <2>12
  <2>13. /\ sl.n_past + 1 < NCtx /\ sl.n_past = Len(sl.cache) /\ sl.n_keep \in 0 .. NCtx - 4
         /\ sl.sampled \in Tokens
    <3>1. sl.n_past = Len(sl.cache) /\ sl.n_keep \in 0 .. NCtx - 4 /\ sl.sampled \in Tokens
      BY <1>4, <1>5, <1>10 DEF SlotOK, Active
    <3>2. sl.n_past + 1 < NCtx
      BY <1>0, <1>1, <1>2, <1>5, <1>10 DEF RoomOK
    <3> QED BY <3>1, <3>2
  <2>14. /\ slots'[s].state = "generating" /\ slots'[s].cache = q /\ slots'[s].n_past = sl.n_past + 1
         /\ slots'[s].i_batch = Len(batch) /\ slots'[s].n_keep = sl.n_keep /\ slots'[s].sampled = sl.sampled
    BY <2>8, <2>9
  <2>15. SlotOK(s)'
    <3>1. Len(q) = sl.n_past + 1 /\ Len(q) < NCtx
      BY <2>7, <2>13
    <3> QED BY <1>4, <2>13, <2>14, <3>1 DEF SlotOK, Active
  <2>16. /\ batch' \in Seq(Token) /\ Len(batch') = Len(batch) + 1 /\ batch'[Len(batch) + 1] = token
    BY <1>2, <2>1, <2>4
  <2>17. OutputOK(s)'
    <3>1. Len(batch) + 1 \in Rest' .. Len(batch')
      BY <1>2, <1>4, <2>16
    <3>2. s \notin todo'.sample /\ s \notin todo'.spec
      BY <1>1, <1>2
    <3> QED BY <2>14, <3>1, <3>2 DEF OutputOK
  <2>18. ReuseOK(s)'
    BY <1>4 DEF ReuseOK
  <2>19. RoomOK(s)'
    <3>1. pc' = "sampled" => ~(at' <= s)
      BY <1>2, <1>3
    <3> QED BY <1>3, <3>1 DEF RoomOK
  <2>20. MemoryOK(s)'
    <3>1. SUFFICES ASSUME s \notin lost
                   PROVE  MemoryOK(s)'
      BY <1>1 DEF MemoryOK
    <3>2. Cached(s)' = mem'[s] \cup Waiting(s)'
      <4>1. Cached(s) = mem[s] \cup Waiting(s) /\ Cached(s) = Entries(sl.cache)
        <5>1. MemoryOK(s) /\ ~Comparing(s) /\ Active(s)
          BY <1>4, <1>5, <1>10 DEF Active
        <5>2. Cached(s) = mem[s] \cup Waiting(s)
          BY <3>1, <5>1 DEF MemoryOK
        <5> QED BY <2>2, <5>2, CachedIs
      <4>2. Cached(s)' = Entries(q)
        BY <2>7, <2>14, CachedIs
      <4>3. Waiting(s)' = Waiting(s) \cup Left(c, 1, s)
        <5>1. Rest \in 1 .. Len(batch) + 1
          BY <1>2, <1>4
        <5>2. Left(batch \o c, Rest, s) = Left(batch, Rest, s) \cup Left(c, 1, s)
          BY <1>2, <2>6, <5>1, LeftConcat
        <5> QED BY <1>4, <2>6, <5>2, WaitingIs
      <4>4. Left(c, 1, s) = {[pos |-> sl.n_past, tok |-> sl.sampled]}
        <5>1. {j \in 1 .. Len(c) : c[j].slot = s} = {1}
          BY <2>6
        <5>2. Left(c, 1, s) = {[pos |-> c[1].pos, tok |-> c[1].tok]}
          BY <5>1 DEF Left
        <5> QED BY <2>5, <2>6, <5>2
      <4> QED BY <1>1, <2>7, <2>13, <4>1, <4>2, <4>3, <4>4
    <3>3. batch'[slots'[s].i_batch + 1] =
             [slot |-> s, pos |-> slots'[s].n_past - 1, tok |-> slots'[s].cache[Len(slots'[s].cache)]]
      <4>1. slots'[s].n_past - 1 = sl.n_past
        BY <2>2, <2>14
      <4>2. slots'[s].cache[Len(slots'[s].cache)] = sl.sampled
        BY <2>7, <2>14
      <4> QED BY <2>14, <2>16, <4>1, <4>2 DEF token
    <3>4. \A k \in slots'[s].i_batch + 2 .. Len(batch') : batch'[k].slot # s
      BY <1>2, <2>14, <2>16
    <3>5. slots'[s].i_batch # -1
      BY <1>2, <2>14
    <3> QED BY <3>2, <3>3, <3>4, <3>5 DEF MemoryOK
  <2> QED BY <1>6, <2>10, <2>11, <2>12, <2>15, <2>17, <2>18, <2>19, <2>20 DEF IInv, SlotsOK
<1> QED BY <1>9, <1>10

\* The third loop has dealt with the slot at: the next one is visited, or the
\* batch decoded.
LEMMA NextPromptIs ==
    ASSUME Types, IInv, pc \in Filling, NEW b \in Seq(Token), NEW done, NextPrompt(b, done),
           view' = view, todo' = todo, Len(b) <= NBatch + Cardinality(Slot),
           \A k \in 1 .. Len(b) : b[k].slot < at + 1 \/ slots'[b[k].slot].state = "generating"
    PROVE  /\ PlaceOK' /\ BatchOK' /\ batch' = b
           /\ at \in Slot /\ view = NoView /\ todo.sample = {} /\ todo.spec = {}
           /\ Rest = 1 /\ Rest' = 1 /\ \A t \in Slot : ~Comparing(t)' /\ RoomOK(t)'
<1>1. at \in Slot /\ at \in Nat /\ view = NoView /\ todo.sample = {} /\ todo.spec = {} /\ pc \notin Decoding
  <2>1. at \in Slot
    BY DEF IInv, PlaceOK
  <2> QED BY <2>1, SlotsAre DEF IInv, PlaceOK, Filling, Decoding
<1>2. batch' = b
  BY DEF NextPrompt
<1>3. \/ at' = 0 /\ pc' = "idle" /\ batch' = <<>>
      \/ at' = 0 /\ pc' = "decode" /\ batch' # <<>>
      \/ at' = at + 1 /\ at' \in Slot /\ pc' = "prompt"
  BY DEF NextPrompt
<1>4. Rest = 1 /\ Rest' = 1 /\ \A t \in Slot : ~Comparing(t)' /\ RoomOK(t)'
  BY <1>1, <1>3 DEF Rest, NoView, Comparing, RoomOK, Decoding
<1>5. PlaceOK'
  <2>1. batch' # <<>> => 0 < Len(batch')
    BY <1>2
  <2> QED BY <1>1, <1>2, <1>3, <2>1 DEF PlaceOK, Filling, Decoding, NoView
<1>6. BatchOK'
  <2>1. ASSUME NEW k \in 1 .. Len(batch'), pc' \in Filling
        PROVE  batch'[k].slot < at' \/ slots'[batch'[k].slot].state = "generating"
    BY <1>2, <1>3, <2>1 DEF Filling
  <2> QED BY <1>3, <2>1 DEF BatchOK
<1> QED BY <1>1, <1>2, <1>4, <1>5, <1>6

LEMMA PassOverKeeps ==
    ASSUME Types, IInv, PassOver
    PROVE  Types' /\ IInv'
<1>1. /\ pc = "prompt" /\ slots' = slots /\ mem' = mem /\ file' = file /\ heads' = heads /\ view' = view
      /\ todo' = todo /\ lost' = lost
  BY DEF PassOver
<1>2. /\ batch \in Seq(Token) /\ Len(batch) <= NBatch + Cardinality(Slot) /\ at \in Slot /\ at \in Nat
      /\ \A k \in 1 .. Len(batch) : batch[k].slot < at \/ slots[batch[k].slot].state = "generating"
  <2>1. at \in Slot
    BY <1>1 DEF IInv, PlaceOK, Filling
  <2> QED BY <1>1, <2>1, SlotsAre DEF IInv, PlaceOK, BatchOK, Filling, Types
<1>3. ASSUME NEW k \in 1 .. Len(batch)
      PROVE  batch[k].slot < at + 1 \/ slots'[batch[k].slot].state = "generating"
  <2>1. batch[k] \in Token
    BY <1>2
  <2>2. batch[k].slot \in Nat
    BY <2>1, SlotsAre DEF Token
  <2> QED BY <1>1, <1>2, <2>2
<1>4. NextPrompt(batch, (Processing(at) => CanBatch(at)) /\ Len(batch) >= NBatch)
  BY DEF PassOver
<1> DEFINE done == (Processing(at) => CanBatch(at)) /\ Len(batch) >= NBatch
<1> HIDE DEF done
<1>5. /\ PlaceOK' /\ BatchOK' /\ batch' = batch
      /\ at \in Slot /\ view = NoView /\ todo.sample = {} /\ todo.spec = {}
      /\ Rest = 1 /\ Rest' = 1 /\ \A t \in Slot : ~Comparing(t)' /\ RoomOK(t)'
  <2>1. NextPrompt(batch, done) /\ pc \in Filling
    BY <1>1, <1>4 DEF done, Filling
  <2> QED BY <1>1, <1>2, <1>3, <2>1, NextPromptIs
<1>6. Types' /\ FileOK'
  BY <1>1, <1>5 DEF Types, IInv, FileOK
<1>7. ASSUME NEW t \in Slot
      PROVE  SlotOK(t)' /\ OutputOK(t)' /\ ReuseOK(t)' /\ MemoryOK(t)'
  <2>1. ~Comparing(t)
    BY <1>1 DEF Comparing
  <2> QED BY <1>1, <1>5, <2>1, FrameSame DEF IInv, SlotsOK
<1> QED BY <1>5, <1>6, <1>7 DEF IInv, SlotsOK

\* While the third loop visits a slot that has not begun its prompt, or that goes
\* on with it, no token of this slot is in the batch.
LEMMA FillingIs ==
    ASSUME Types, IInv, pc \in Filling, NEW s \in Slot, s = at
    PROVE  /\ s \in Nat /\ batch \in Seq(Token) /\ Len(batch) \in Nat
           /\ Len(batch) <= NBatch + Cardinality(Slot)
           /\ view = NoView /\ todo.sample = {} /\ todo.spec = {} /\ Rest = 1
           /\ \A k \in 1 .. Len(batch) : /\ batch[k] \in Token /\ batch[k].slot \in Slot /\ batch[k].slot \in Nat
                                         /\ batch[k].slot < s \/ slots[batch[k].slot].state = "generating"
           /\ slots[s].state # "generating" => NoneWaits(s) /\ Waiting(s) = {}
           /\ \A t \in Slot : t # s => ~Comparing(t)
<1>1. s \in Nat /\ batch \in Seq(Token) /\ Len(batch) \in Nat
  BY SlotsAre DEF Types
<1>2. view = NoView /\ todo.sample = {} /\ todo.spec = {} /\ Len(batch) <= NBatch + Cardinality(Slot)
  BY DEF IInv, PlaceOK, Filling, Decoding
<1>3. Rest = 1
  BY SizeIs DEF IInv, Filling, Decoding
<1>4. ASSUME NEW k \in 1 .. Len(batch)
      PROVE  /\ batch[k] \in Token /\ batch[k].slot \in Slot /\ batch[k].slot \in Nat
             /\ batch[k].slot < s \/ slots[batch[k].slot].state = "generating"
  <2>1. batch[k] \in Token
    BY <1>1
  <2>2. batch[k].slot \in Slot
    BY <2>1 DEF Token
  <2> QED BY <2>1, <2>2, SlotsAre DEF IInv, BatchOK
<1>5. slots[s].state # "generating" => NoneWaits(s) /\ Waiting(s) = {}
  <2>1. SUFFICES ASSUME slots[s].state # "generating"
                 PROVE  NoneWaits(s) /\ Waiting(s) = {}
    OBVIOUS
  <2>2. \A k \in 1 .. Len(batch) : batch[k].slot # s
    BY <1>1, <1>4, <2>1
  <2> QED BY <1>3, <2>2 DEF NoneWaits, Waiting
<1> QED BY <1>1, <1>2, <1>3, <1>4, <1>5 DEF Comparing

LEMMA RefusePromptKeeps ==
    ASSUME Types, IInv, RefusePrompt
    PROVE  Types' /\ IInv'
<1>0. PICK s \in Slot : s = at
  <2>1. at \in Slot
    BY DEF RefusePrompt, IInv, PlaceOK, Filling
  <2> QED BY <2>1
<1>1. /\ pc = "prompt" /\ mem' = mem /\ file' = file /\ heads' = heads /\ view' = view
      /\ todo' = todo /\ lost' = lost /\ NextPrompt(batch, FALSE)
      /\ slots' = [slots EXCEPT ![s] = Released(slots[s])] /\ slots[s].state = "started"
  BY <1>0 DEF RefusePrompt
<1>2. pc \in Filling
  BY <1>1 DEF Filling
<1>3. /\ s \in Nat /\ batch \in Seq(Token) /\ Len(batch) <= NBatch + Cardinality(Slot)
      /\ Waiting(s) = {} /\ todo.sample = {} /\ todo.spec = {}
      /\ \A k \in 1 .. Len(batch) : /\ batch[k].slot \in Slot /\ batch[k].slot \in Nat
                                    /\ batch[k].slot < s \/ slots[batch[k].slot].state = "generating"
  BY <1>0, <1>1, <1>2, FillingIs
<1>4. /\ Released(slots[s]) \in SlotType /\ Released(slots[s]).state = "idle"
      /\ Released(slots[s]).n_past = 0 /\ Released(slots[s]).cache = slots[s].cache
  BY SlotIs, ReleasedIs
<1>5. /\ slots'[s] = Released(slots[s]) /\ slots' \in [Slot -> SlotType]
      /\ \A t \in Slot : t # s => slots'[t] = slots[t]
  BY <1>1, <1>4 DEF Types
<1>6. ASSUME NEW k \in 1 .. Len(batch)
      PROVE  batch[k].slot < at + 1 \/ slots'[batch[k].slot].state = "generating"
  <2>1. CASE batch[k].slot < s
    BY <1>0, <1>3, <2>1
  <2>2. CASE slots[batch[k].slot].state = "generating"
    BY <1>1, <1>3, <1>5, <2>2
  <2> QED BY <1>3, <2>1, <2>2
<1>7. /\ PlaceOK' /\ BatchOK' /\ batch' = batch
      /\ Rest = 1 /\ Rest' = 1 /\ \A t \in Slot : ~Comparing(t)' /\ RoomOK(t)'
  BY <1>1, <1>2, <1>3, <1>6, NextPromptIs
<1>8. Types' /\ FileOK'
  BY <1>1, <1>5, <1>7 DEF Types, IInv, FileOK
<1>9. ASSUME NEW t \in Slot, t # s
      PROVE  SlotOK(t)' /\ OutputOK(t)' /\ ReuseOK(t)' /\ MemoryOK(t)'
  <2>1. ~Comparing(t)
    BY <1>1 DEF Comparing
  <2> QED BY <1>1, <1>3, <1>5, <1>7, <1>9, <2>1, FrameSame DEF IInv, SlotsOK
<1>10. SlotOK(s)' /\ OutputOK(s)' /\ ReuseOK(s)' /\ MemoryOK(s)'
  <2>1. SlotOK(s) /\ MemoryOK(s) /\ ~Comparing(s)
    BY <1>1 DEF IInv, SlotsOK, Comparing
  <2>2. Len(slots[s].cache) < NCtx
    BY <2>1 DEF SlotOK
  <2>3. s \notin lost /\ slots[s].cache # <<>> => Cached(s) = mem[s] \cup Waiting(s)
    BY <2>1 DEF MemoryOK
  <2>4. Cached(s)' = Cached(s)
    BY <1>4, <1>5 DEF Cached
  <2>5. Waiting(s)' = Waiting(s)
    BY <1>7, WaitingIs
  <2> QED BY <1>1, <1>3, <1>4, <1>5, <1>7, <2>2, <2>3, <2>4, <2>5, Inactive
<1> QED BY <1>7, <1>8, <1>9, <1>10 DEF IInv, SlotsOK

\* The step is one of comparing the cache of the slot s with its prompt.
LEMMA ComparingFrame ==
    ASSUME Types, IInv, pc \in {"prompt", "reuse"}, NEW s \in Slot, s = at, at' = at,
           pc' \in {"reuse", "fill", "aborted"}, UNCHANGED <<file, batch, view, todo, lost>>,
           slots' \in [Slot -> SlotType], mem' \in [Slot -> SUBSET Entry], heads' \in [c : Nat, p : Nat],
           slots[s].state # "generating",
           \A t \in Slot : t # s => slots'[t] = slots[t] /\ mem'[t] = mem[t]
    PROVE  /\ Types' /\ PlaceOK' /\ BatchOK' /\ FileOK' /\ Comparing(s)' /\ Rest' = 1
           /\ \A t \in Slot : t # s => SlotOK(t)' /\ RoomOK(t)' /\ OutputOK(t)' /\ ReuseOK(t)' /\ MemoryOK(t)'
<1>1. pc \in Filling /\ pc' \in Filling
  BY DEF Filling
<1>2. /\ s \in Nat /\ batch \in Seq(Token) /\ view = NoView /\ todo.sample = {} /\ todo.spec = {} /\ Rest = 1
      /\ \A k \in 1 .. Len(batch) : /\ batch[k].slot \in Slot
                                    /\ batch[k].slot < s \/ slots[batch[k].slot].state = "generating"
      /\ \A t \in Slot : t # s => ~Comparing(t)
  BY <1>1, FillingIs
<1>3. Types' /\ FileOK'
  BY DEF Types, IInv, FileOK
<1>4. PlaceOK' /\ Rest' = 1
  BY <1>1, <1>2 DEF IInv, PlaceOK, Filling, Decoding, Rest, NoView
<1>5. BatchOK'
  <2>1. ASSUME NEW k \in 1 .. Len(batch)
        PROVE  batch[k].slot < at \/ slots'[batch[k].slot].state = "generating"
    BY <1>2
  <2> QED BY <2>1 DEF BatchOK
<1>6. Comparing(s)' /\ \A t \in Slot : t # s => ~Comparing(t)'
  BY DEF Comparing
<1>7. ASSUME NEW t \in Slot, t # s
      PROVE  SlotOK(t)' /\ RoomOK(t)' /\ OutputOK(t)' /\ ReuseOK(t)' /\ MemoryOK(t)'
  <2>1. SlotOK(t)' /\ OutputOK(t)' /\ ReuseOK(t)' /\ MemoryOK(t)'
    BY <1>2, <1>4, <1>6, <1>7, FrameSame DEF IInv, SlotsOK
  <2>2. RoomOK(t)'
    BY DEF RoomOK
  <2> QED BY <2>1, <2>2
<1> QED BY <1>3, <1>4, <1>5, <1>6, <1>7

\* The slot whose cache is compared with its prompt has nothing to be sampled.
LEMMA ComparingKeeps ==
    ASSUME NEW s \in Slot, slots'[s].state = "prompt", s \notin todo'.sample, s \notin todo'.spec, Comparing(s)',
           slots'[s].n_past < NCtx, Len(slots'[s].cache) < NCtx, slots'[s].n_keep \in 0 .. NCtx - 4,
           Len(slots'[s].prompt) \in 1 .. NCtx - 1
    PROVE  SlotOK(s)' /\ RoomOK(s)' /\ OutputOK(s)' /\ MemoryOK(s)'
<1>1. ~HasOutput(s)'
  BY DEF HasOutput
<1>2. SlotOK(s)'
  BY DEF SlotOK
<1>3. RoomOK(s)' /\ OutputOK(s)'
  BY <1>1 DEF RoomOK, OutputOK
<1>4. MemoryOK(s)'
  BY <1>1 DEF MemoryOK
<1> QED BY <1>2, <1>3, <1>4

LEMMA AgreeEntries ==
    ASSUME NEW q \in Seq(Nat), NEW n \in Nat
    PROVE  AgreeBelow(Entries(q), q, n) /\ AgreeFrom(Entries(q), q, n)
<1>1. \A e \in Entries(q) : e.pos < Len(q) /\ e.tok = q[e.pos + 1]
  BY EntriesAre
<1>2. \A k \in 1 .. Len(q) : [pos |-> k - 1, tok |-> q[k]] \in Entries(q)
  BY EntriesAre
<1>3. /\ \A k \in 1 .. n : k <= Len(q) => k \in 1 .. Len(q)
      /\ \A k \in n + 1 .. Len(q) : k \in 1 .. Len(q)
  OBVIOUS
<1> QED BY <1>1, <1>2, <1>3 DEF AgreeBelow, AgreeFrom

LEMMA StartPromptKeeps ==
    ASSUME Types, IInv, StartPrompt
    PROVE  Types' /\ IInv'
<1>0. PICK s \in Slot : s = at
  <2>1. at \in Slot
    BY DEF StartPrompt, IInv, PlaceOK, Filling
  <2> QED BY <2>1
<1> DEFINE sl     == slots[s]
           asked  == IF sl.n_keep < 0 THEN Len(sl.prompt) ELSE sl.n_keep
           keep   == Least(NCtx - 4, asked)
           prompt == Truncated(sl.prompt, keep)
           past   == IF sl.cache_prompt THEN Common(sl.cache, prompt) ELSE 0
           new    == [sl EXCEPT !.state = "prompt", !.n_keep = keep, !.prompt = prompt, !.n_past = past]
<1>1. /\ pc = "prompt" /\ sl.state = "started" /\ ~Refused(sl)
      /\ mem' = mem /\ at' = at /\ pc' = "reuse"
      /\ UNCHANGED <<file, batch, view, todo, lost>>
  BY <1>0 DEF StartPrompt
<1>2. slots' = [slots EXCEPT ![s] = new]
  BY <1>0 DEF StartPrompt
<1>3. heads' = [c |-> past, p |-> past]
  BY <1>0 DEF StartPrompt
<1>4. /\ sl \in SlotType /\ sl.cache \in Seq(Nat) /\ sl.prompt \in Seq(Nat) /\ sl.n_keep \in Int
      /\ Len(sl.prompt) \in Nat /\ Len(sl.cache) \in Nat /\ sl.cache_prompt \in BOOLEAN
  BY SlotIs
<1>5. keep \in 0 .. NCtx - 4
  <2> HIDE DEF sl
  <2> QED BY <1>4, SlotCacheAssumption DEF Least
<1>6. prompt \in Seq(Nat) /\ Len(prompt) \in 1 .. NCtx - 1
  <2>1. sl.prompt # <<>>
    BY <1>1 DEF Refused
  <2> HIDE DEF keep, sl
  <2>2. prompt \in Seq(Nat) /\ Len(prompt) < NCtx /\ Len(prompt) > 0
    BY <1>4, <1>5, <2>1, TruncatedIs
  <2> HIDE DEF prompt
  <2>3. Len(prompt) \in Nat
    BY <2>2
  <2> QED BY <2>2, <2>3, SlotCacheAssumption
<1> HIDE DEF prompt, keep
<1>7. /\ past \in 0 .. Len(sl.cache) /\ past <= Len(prompt) /\ past \in Nat
      /\ \A k \in 1 .. past : sl.cache[k] = prompt[k]
  <2> HIDE DEF sl
  <2>1. /\ Common(sl.cache, prompt) \in 0 .. Len(sl.cache) /\ Common(sl.cache, prompt) <= Len(prompt)
        /\ \A k \in 1 .. Common(sl.cache, prompt) : sl.cache[k] = prompt[k]
    BY <1>4, <1>6, CommonIs
  <2> QED BY <1>4, <1>6, <2>1
<1> HIDE DEF past
<1>8. new \in SlotType /\ new.cache = sl.cache /\ new.state = "prompt" /\ new.n_keep = keep /\ new.prompt = prompt /\ new.n_past = past
  <2>1. keep \in Int
    BY <1>5, SlotCacheAssumption
  <2> HIDE DEF sl
  <2>2. new \in SlotType
    BY <1>4, <2>1, <1>6, <1>7 DEF SlotType, SlotState
  <2>3. /\ new.cache = sl.cache /\ new.state = "prompt" /\ new.n_keep = keep
        /\ new.prompt = prompt /\ new.n_past = past
    BY <1>4 DEF SlotType
  <2> QED BY <2>2, <2>3
<1> HIDE DEF new
<1>9. /\ slots'[s] = new /\ slots' \in [Slot -> SlotType] /\ mem' \in [Slot -> SUBSET Entry]
      /\ \A t \in Slot : t # s => slots'[t] = slots[t] /\ mem'[t] = mem[t]
  BY <1>1, <1>2, <1>8 DEF Types
<1>10. /\ pc \in Filling /\ Waiting(s) = {} /\ todo.sample = {} /\ todo.spec = {}
  <2>1. pc \in Filling
    BY <1>1 DEF Filling
  <2> QED BY <1>0, <1>1, <2>1, FillingIs
<1>11. /\ Types' /\ PlaceOK' /\ BatchOK' /\ FileOK' /\ Comparing(s)'
       /\ \A t \in Slot : t # s => SlotOK(t)' /\ RoomOK(t)' /\ OutputOK(t)' /\ ReuseOK(t)' /\ MemoryOK(t)'
  <2>1. heads' \in [c : Nat, p : Nat]
    BY <1>3, <1>7
  <2>2. slots[s].state # "generating"
    BY <1>1
  <2> QED BY <1>0, <1>1, <1>9, <2>1, <2>2, ComparingFrame
<1>12. SlotOK(s) /\ MemoryOK(s) /\ ~Comparing(s)
  BY <1>1 DEF IInv, SlotsOK, Comparing
<1>13. Len(sl.cache) < NCtx
  BY <1>12 DEF SlotOK
<1>14. SlotOK(s)' /\ RoomOK(s)' /\ OutputOK(s)' /\ MemoryOK(s)'
  <2>1. past < NCtx
    <3> HIDE DEF sl
    <3> QED BY <1>4, <1>7, <1>13, SlotCacheAssumption
  <2>2. /\ slots'[s].state = "prompt" /\ slots'[s].n_past = past /\ slots'[s].cache = sl.cache
        /\ slots'[s].n_keep = keep /\ slots'[s].prompt = prompt
    BY <1>8, <1>9
  <2> QED BY <1>1, <1>5, <1>6, <1>10, <1>11, <1>13, <2>1, <2>2, ComparingKeeps
<1>15. ReuseOK(s)'
  <2>1. s \notin lost /\ sl.cache # <<>> => mem[s] = Entries(sl.cache)
    <3>1. Cached(s) = Entries(sl.cache)
      BY <1>4, CachedIs
    <3> QED BY <1>10, <1>12, <3>1 DEF MemoryOK
  <2>2. s \notin lost => AgreeBelow(mem'[s], sl.cache, past)
    <3>1. CASE sl.cache = <<>>
      <4>1. past = 0
        <5>1. Len(sl.cache) = 0
          BY <3>1
        <5> HIDE DEF sl
        <5> QED BY <1>7, <5>1
      <4>2. \A e \in mem[s] : ~(e.pos < 0)
        <5>1. mem[s] \in SUBSET Entry
          BY SlotIs
        <5> QED BY <5>1 DEF Entry
      <4> QED BY <1>1, <4>1, <4>2 DEF AgreeBelow
    <3>2. CASE sl.cache # <<>>
      <4> HIDE DEF sl
      <4> QED BY <1>1, <1>4, <1>7, <2>1, <3>2, AgreeEntries
    <3> QED BY <3>1, <3>2
  <2>3. s \notin lost /\ sl.cache # <<>> => AgreeFrom(mem'[s], sl.cache, past)
    <3> HIDE DEF sl
    <3> QED BY <1>1, <1>4, <1>7, <2>1, AgreeEntries
  <2>4. /\ slots'[s].n_past = past /\ slots'[s].cache = sl.cache /\ slots'[s].prompt = prompt
        /\ heads'.c = past /\ heads'.p = past /\ lost' = lost
    BY <1>1, <1>3, <1>8, <1>9
  <2>5. past <= past /\ past <= Len(sl.cache)
    BY <1>4, <1>7
  <2> HIDE DEF sl
  <2> QED BY <1>1, <1>7, <2>2, <2>3, <2>4, <2>5 DEF ReuseOK
<1> QED BY <1>11, <1>14, <1>15 DEF IInv, SlotsOK

\* What is known of the slot whose cache is compared with its prompt.
LEMMA ReuseIs ==
    ASSUME Types, IInv, pc = "reuse", NEW s \in Slot, s = at
    PROVE  LET sl == slots[s]
           IN  /\ Comparing(s) /\ sl.state = "prompt" /\ todo.sample = {} /\ todo.spec = {}
               /\ sl \in SlotType /\ sl.cache \in Seq(Nat) /\ sl.prompt \in Seq(Nat) /\ sl.n_past \in Nat
               /\ heads.c \in Nat /\ heads.p \in Nat /\ mem[s] \in SUBSET Entry
               /\ Len(sl.cache) \in Nat /\ Len(sl.cache) < NCtx /\ Len(sl.prompt) \in 1 .. NCtx - 1
               /\ sl.n_past <= Len(sl.cache) /\ sl.n_past <= Len(sl.prompt) /\ sl.n_past < NCtx
               /\ sl.n_keep \in 0 .. NCtx - 4
               /\ \A k \in 1 .. sl.n_past : sl.cache[k] = sl.prompt[k]
               /\ s \notin lost => AgreeBelow(mem[s], sl.cache, sl.n_past)
               /\ heads.p = sl.n_past /\ heads.p <= heads.c /\ heads.c <= Len(sl.cache)
               /\ s \notin lost /\ sl.cache # <<>> => AgreeFrom(mem[s], sl.cache, heads.c)
<1> DEFINE sl == slots[s]
<1>1. Comparing(s) /\ SlotOK(s) /\ ReuseOK(s)
  BY DEF Comparing, IInv, SlotsOK
<1>2. todo.sample = {} /\ todo.spec = {}
  BY DEF IInv, PlaceOK
<1>3. sl.state = "prompt"
  BY <1>1 DEF SlotOK
<1>4. /\ sl \in SlotType /\ sl.cache \in Seq(Nat) /\ sl.prompt \in Seq(Nat) /\ sl.n_past \in Nat
      /\ mem[s] \in SUBSET Entry /\ Len(sl.cache) \in Nat
  BY SlotIs
<1>5. heads.c \in Nat /\ heads.p \in Nat
  BY DEF Types
<1>6. /\ Len(sl.cache) < NCtx /\ Len(sl.prompt) \in 1 .. NCtx - 1 /\ sl.n_past < NCtx /\ sl.n_keep \in 0 .. NCtx - 4
  BY <1>1, <1>3 DEF SlotOK, Active
<1>7. /\ sl.n_past <= Len(sl.cache) /\ sl.n_past <= Len(sl.prompt)
      /\ \A k \in 1 .. sl.n_past : sl.cache[k] = sl.prompt[k]
      /\ s \notin lost => AgreeBelow(mem[s], sl.cache, sl.n_past)
      /\ heads.p = sl.n_past /\ heads.p <= heads.c /\ heads.c <= Len(sl.cache)
      /\ s \notin lost /\ sl.cache # <<>> => AgreeFrom(mem[s], sl.cache, heads.c)
  BY <1>1 DEF ReuseOK
<1> QED BY <1>1, <1>2, <1>3, <1>4, <1>5, <1>6, <1>7

LEMMA SkipCachedKeeps ==
    ASSUME Types, IInv, SkipCached
    PROVE  Types' /\ IInv'
<1>0. PICK s \in Slot : s = at
  <2>1. at \in Slot
    BY DEF SkipCached, IInv, PlaceOK, Filling
  <2> QED BY <2>1
<1> DEFINE sl == slots[s]
<1>1. /\ pc = "reuse" /\ pc' = pc /\ heads' = [heads EXCEPT !.c = heads.c + 1] /\ heads.c < Len(sl.cache)
      /\ slots' = slots /\ mem' = mem /\ at' = at /\ UNCHANGED <<file, batch, view, todo, lost>>
  BY <1>0 DEF SkipCached, MayReuse
<1>2. /\ sl.state = "prompt" /\ todo.sample = {} /\ todo.spec = {}
      /\ sl.cache \in Seq(Nat) /\ sl.n_past \in Nat
      /\ heads.c \in Nat /\ heads.p \in Nat
      /\ Len(sl.cache) \in Nat /\ Len(sl.cache) < NCtx /\ Len(sl.prompt) \in 1 .. NCtx - 1
      /\ sl.n_past <= Len(sl.cache) /\ sl.n_past <= Len(sl.prompt) /\ sl.n_past < NCtx
      /\ sl.n_keep \in 0 .. NCtx - 4
      /\ \A k \in 1 .. sl.n_past : sl.cache[k] = sl.prompt[k]
      /\ s \notin lost => AgreeBelow(mem[s], sl.cache, sl.n_past)
      /\ heads.p = sl.n_past /\ heads.p <= heads.c /\ heads.c <= Len(sl.cache)
      /\ s \notin lost /\ sl.cache # <<>> => AgreeFrom(mem[s], sl.cache, heads.c)
  BY <1>0, <1>1, ReuseIs
<1>3. heads' \in [c : Nat, p : Nat] /\ heads'.c = heads.c + 1 /\ heads'.p = heads.p
  <2>1. heads \in [c : Nat, p : Nat] /\ heads' = [heads EXCEPT !.c = heads.c + 1]
    BY <1>1 DEF Types
  <2> QED BY <2>1
<1>4. /\ Types' /\ PlaceOK' /\ BatchOK' /\ FileOK' /\ Comparing(s)'
      /\ \A t \in Slot : t # s => SlotOK(t)' /\ RoomOK(t)' /\ OutputOK(t)' /\ ReuseOK(t)' /\ MemoryOK(t)'
  <2>1. slots' \in [Slot -> SlotType] /\ mem' \in [Slot -> SUBSET Entry]
    BY <1>1 DEF Types
  <2>2. slots[s].state # "generating" /\ \A t \in Slot : t # s => slots'[t] = slots[t] /\ mem'[t] = mem[t]
    BY <1>1, <1>2
  <2> QED BY <1>0, <1>1, <1>3, <2>1, <2>2, ComparingFrame
<1>5. SlotOK(s)' /\ RoomOK(s)' /\ OutputOK(s)' /\ MemoryOK(s)'
  BY <1>1, <1>2, <1>4, ComparingKeeps
<1>6. ReuseOK(s)'
  <2>1. s \notin lost /\ sl.cache # <<>> => AgreeFrom(mem[s], sl.cache, heads.c + 1)
    <3>1. SUFFICES ASSUME AgreeFrom(mem[s], sl.cache, heads.c)
                   PROVE  AgreeFrom(mem[s], sl.cache, heads.c + 1)
      BY <1>2
    <3>2. ASSUME NEW e \in mem[s], heads.c + 1 <= e.pos
          PROVE  heads.c <= e.pos
      <4>1. e \in Entry
        BY SlotIs
      <4> QED BY <1>2, <3>2, <4>1 DEF Entry
    <3>3. ASSUME NEW k \in (heads.c + 1) + 1 .. Len(sl.cache)
          PROVE  k \in heads.c + 1 .. Len(sl.cache)
      BY <1>2
    <3> QED BY <3>1, <3>2, <3>3 DEF AgreeFrom
  <2>2. heads'.p <= heads'.c /\ heads'.c <= Len(sl.cache)
    BY <1>1, <1>2, <1>3
  <2> QED BY <1>1, <1>2, <1>3, <2>1, <2>2 DEF ReuseOK
<1> QED BY <1>4, <1>5, <1>6 DEF IInv, SlotsOK

LEMMA SuffixIs ==
    ASSUME NEW x \in Seq(Nat), NEW h \in Nat, h < Len(x)
    PROVE  /\ SubSeq(x, h + 1, Len(x)) \in Seq(Nat) /\ Len(SubSeq(x, h + 1, Len(x))) = Len(x) - h
           /\ \A k \in 1 .. Len(x) - h : SubSeq(x, h + 1, Len(x))[k] = x[h + k]
OBVIOUS

LEMMA MoveChunkKeeps ==
    ASSUME Types, IInv, MoveChunk
    PROVE  Types' /\ IInv'
<1>0. PICK s \in Slot : s = at
  <2>1. at \in Slot
    BY DEF MoveChunk, IInv, PlaceOK, Filling
  <2> QED BY <2>1
<1> DEFINE sl == slots[s]
           hc == heads.c
           hp == heads.p
           n  == Match
           m  == SeqAdd(SeqRm(mem[s], hp, hc), hc, hc + n, hp - hc)
           q  == [k \in DOMAIN sl.cache |-> IF hp < k /\ k <= hp + n THEN sl.cache[k + hc - hp] ELSE sl.cache[k]]
           new == [sl EXCEPT !.n_past = sl.n_past + n, !.cache = q]
<1>1. /\ pc = "reuse" /\ pc' = pc /\ heads' = [c |-> hc + n, p |-> hp + n]
      /\ hc < Len(sl.cache) /\ hp < Len(sl.prompt)
      /\ mem' = [mem EXCEPT ![s] = m] /\ at' = at /\ UNCHANGED <<file, batch, view, todo, lost>>
  BY <1>0 DEF MoveChunk, MayReuse
<1>2. /\ sl.state = "prompt" /\ todo.sample = {} /\ todo.spec = {}
      /\ sl \in SlotType /\ sl.cache \in Seq(Nat) /\ sl.prompt \in Seq(Nat) /\ sl.n_past \in Nat
      /\ hc \in Nat /\ hp \in Nat /\ mem[s] \in SUBSET Entry
      /\ Len(sl.cache) \in Nat /\ Len(sl.cache) < NCtx /\ Len(sl.prompt) \in 1 .. NCtx - 1
      /\ sl.n_keep \in 0 .. NCtx - 4
      /\ \A k \in 1 .. sl.n_past : sl.cache[k] = sl.prompt[k]
      /\ s \notin lost => AgreeBelow(mem[s], sl.cache, sl.n_past)
      /\ hp = sl.n_past /\ hp <= hc /\ hc <= Len(sl.cache)
      /\ s \notin lost /\ sl.cache # <<>> => AgreeFrom(mem[s], sl.cache, hc)
  BY <1>0, <1>1, ReuseIs
<1>3. slots' = [slots EXCEPT ![s] = new]
  <2>1. slots' = [slots EXCEPT ![s].n_past = @ + n,
                               ![s].cache = [k \in DOMAIN @ |->
                                     IF hp < k /\ k <= hp + n THEN @[k + hc - hp] ELSE @[k]]]
    BY <1>0 DEF MoveChunk
  <2> QED BY <2>1 DEF Types
<1>4. /\ n \in Nat /\ hc + n <= Len(sl.cache) /\ hp + n <= Len(sl.prompt)
      /\ \A k \in 1 .. n : sl.cache[hc + k] = sl.prompt[hp + k]
  <2> DEFINE a == SubSeq(sl.cache, hc + 1, Len(sl.cache))
             b == SubSeq(sl.prompt, hp + 1, Len(sl.prompt))
  <2>1. n = Common(a, b)
    BY <1>0 DEF Match
  <2> HIDE DEF n, sl, hc, hp
  <2>3. /\ a \in Seq(Nat) /\ Len(a) = Len(sl.cache) - hc
        /\ \A k \in 1 .. Len(sl.cache) - hc : a[k] = sl.cache[hc + k]
    BY <1>1, <1>2, SuffixIs
  <2>4. /\ b \in Seq(Nat) /\ Len(b) = Len(sl.prompt) - hp
        /\ \A k \in 1 .. Len(sl.prompt) - hp : b[k] = sl.prompt[hp + k]
    BY <1>1, <1>2, SuffixIs
  <2> HIDE DEF a, b
  <2>5. n \in 0 .. Len(a) /\ n <= Len(b) /\ \A k \in 1 .. n : a[k] = b[k]
    BY <2>1, <2>3, <2>4, CommonIs
  <2>6. Len(sl.prompt) \in Nat /\ Len(sl.cache) \in Nat /\ hc \in Nat /\ hp \in Nat
    BY <1>2
  <2>7. n \in Nat /\ n <= Len(sl.cache) - hc /\ n <= Len(sl.prompt) - hp
    BY <2>3, <2>4, <2>5, <2>6
  <2>8. ASSUME NEW k \in 1 .. n
        PROVE  sl.cache[hc + k] = sl.prompt[hp + k]
    <3>1. k \in 1 .. Len(sl.cache) - hc /\ k \in 1 .. Len(sl.prompt) - hp
      BY <2>6, <2>7
    <3> QED BY <2>3, <2>4, <2>5, <3>1
  <2>9. hc + n <= Len(sl.cache) /\ hp + n <= Len(sl.prompt)
    BY <2>6, <2>7
  <2> QED BY <2>7, <2>8, <2>9
<1> HIDE DEF n
<1>a. /\ n \in Nat /\ hc \in Nat /\ hp \in Nat /\ Len(sl.cache) \in Nat /\ hp <= hc
       /\ hc + n <= Len(sl.cache)
  BY <1>2, <1>4
<1>5. /\ q \in Seq(Nat) /\ Len(q) = Len(sl.cache)
      /\ \A k \in 1 .. Len(sl.cache) :
            q[k] = IF hp < k /\ k <= hp + n THEN sl.cache[k + hc - hp] ELSE sl.cache[k]
  <2> HIDE DEF sl, hc, hp
  <2>1. DOMAIN sl.cache = 1 .. Len(sl.cache)
    BY <1>2
  <2>2. \A k \in 1 .. Len(sl.cache) : sl.cache[k] \in Nat
    BY <1>2, SlotIs DEF sl
  <2>3. ASSUME NEW k \in 1 .. Len(sl.cache), hp < k, k <= hp + n
        PROVE  k + hc - hp \in 1 .. Len(sl.cache)
    BY <1>a, <2>3
  <2>4. q \in [1 .. Len(sl.cache) -> Nat]
    BY <2>1, <2>2, <2>3
  <2>5. q \in Seq(Nat) /\ Len(q) = Len(sl.cache)
    <3> HIDE DEF q
    <3>1. ASSUME NEW l \in Nat, NEW x \in [1 .. l -> Nat]
          PROVE  x \in Seq(Nat) /\ Len(x) = l
      OBVIOUS
    <3> QED BY <1>a, <2>4, <3>1
  <2>6. \A k \in 1 .. Len(sl.cache) :
            q[k] = IF hp < k /\ k <= hp + n THEN sl.cache[k + hc - hp] ELSE sl.cache[k]
    BY <2>1
  <2> QED BY <2>5, <2>6
<1> HIDE DEF q
<1>6. m \in SUBSET Entry
  <2>1. hp - hc \in Int /\ hc + (hp - hc) >= 0 /\ hc + n \in Nat
    BY SMTT(30), <1>2, <1>4
  <2> HIDE DEF hp, hc
  <2> QED BY <1>2, <2>1, MemoryTypes
<1>7. s \notin lost => AgreeBelow(m, q, hp + n) /\ AgreeFrom(m, q, hc + n)
  <2>1. sl.cache # <<>>
    <3>1. Len(sl.cache) > 0
      BY <1>1, <1>2
    <3> QED BY <3>1
  <2> HIDE DEF sl, hp, hc
  <2> QED BY ZenonT(30), <1>2, <1>4, <1>5, <2>1, ChunkMoved
<1> HIDE DEF m
<1>8. /\ new \in SlotType /\ new.n_past = sl.n_past + n /\ new.cache = q
      /\ new.state = sl.state /\ new.prompt = sl.prompt /\ new.n_keep = sl.n_keep
  <2> HIDE DEF sl
  <2>1. sl.n_past + n \in Nat
    BY <1>2, <1>4
  <2>2. new \in SlotType
    BY <1>2, <1>5, <2>1 DEF SlotType
  <2>3. /\ new.n_past = sl.n_past + n /\ new.cache = q
        /\ new.state = sl.state /\ new.prompt = sl.prompt /\ new.n_keep = sl.n_keep
    BY <1>2 DEF SlotType
  <2> QED BY <2>2, <2>3
<1> HIDE DEF new
<1>9. /\ slots'[s] = new /\ slots' \in [Slot -> SlotType] /\ mem'[s] = m /\ mem' \in [Slot -> SUBSET Entry]
      /\ \A t \in Slot : t # s => slots'[t] = slots[t] /\ mem'[t] = mem[t]
  BY <1>1, <1>3, <1>6, <1>8 DEF Types
<1>10. heads' \in [c : Nat, p : Nat] /\ heads'.c = hc + n /\ heads'.p = hp + n
  <2>1. hc + n \in Nat /\ hp + n \in Nat
    BY SMTT(30), <1>2, <1>4
  <2> HIDE DEF hc, hp
  <2> QED BY <1>1, <2>1
<1>11. /\ Types' /\ PlaceOK' /\ BatchOK' /\ FileOK' /\ Comparing(s)'
       /\ \A t \in Slot : t # s => SlotOK(t)' /\ RoomOK(t)' /\ OutputOK(t)' /\ ReuseOK(t)' /\ MemoryOK(t)'
  <2>1. slots[s].state # "generating"
    BY <1>2
  <2> QED BY <1>0, <1>1, <1>9, <1>10, <2>1, ComparingFrame
<1>12. sl.n_past + n <= Len(sl.cache) /\ sl.n_past + n < NCtx /\ sl.n_past + n <= Len(sl.prompt)
  <2> HIDE DEF sl, hc, hp
  <2> QED BY SMTT(30), <1>2, <1>4, SlotCacheAssumption
<1>13. SlotOK(s)' /\ RoomOK(s)' /\ OutputOK(s)' /\ MemoryOK(s)'
  BY <1>1, <1>2, <1>5, <1>8, <1>9, <1>11, <1>12, ComparingKeeps
<1>14. ASSUME NEW k \in 1 .. hp + n
       PROVE  q[k] = sl.prompt[k]
  <2> HIDE DEF sl, hc, hp
  <2>1. k \in 1 .. Len(sl.cache)
    BY <1>2, <1>4, <1>12
  <2>2. CASE k <= hp
    <3>1. k \in 1 .. sl.n_past
      BY <1>2, <2>2
    <3> QED BY <1>2, <1>5, <2>1, <2>2, <3>1
  <2>3. CASE ~(k <= hp)
    <3>1. PICK j \in 1 .. n : k = hp + j
      <4>1. k - hp \in 1 .. n /\ k = hp + (k - hp)
        BY <1>a, <2>3
      <4> QED BY <4>1
    <3>2. q[k] = sl.cache[k + hc - hp]
      <4>1. hp < k /\ k <= hp + n
        BY <1>a, <2>3
      <4> QED BY <1>5, <2>1, <4>1
    <3>3. k + hc - hp = hc + j
      BY <1>a, <3>1
    <3> QED BY <1>4, <3>1, <3>2, <3>3
  <2> QED BY <2>2, <2>3
<1>15. ReuseOK(s)'
  <2>1. /\ slots'[s].n_past = hp + n /\ slots'[s].cache = q /\ slots'[s].prompt = sl.prompt /\ lost' = lost
        /\ mem'[s] = m /\ pc' = "reuse"
    BY <1>1, <1>2, <1>8, <1>9
  <2>2. hp + n <= hc + n /\ hc + n <= Len(q) /\ hp + n <= Len(q) /\ hp + n <= Len(sl.prompt)
    BY <1>2, <1>4, <1>5, <1>12
  <2> HIDE DEF sl, hc, hp
  <2> QED BY <1>7, <1>10, <1>14, <2>1, <2>2 DEF ReuseOK
<1> QED BY <1>11, <1>13, <1>15 DEF IInv, SlotsOK

LEMMA EndReuseKeeps ==
    ASSUME Types, IInv, EndReuse
    PROVE  Types' /\ IInv'
<1>0. PICK s \in Slot : s = at
  <2>1. at \in Slot
    BY DEF EndReuse, IInv, PlaceOK, Filling
  <2> QED BY <2>1
<1> DEFINE sl == slots[s]
           n  == IF sl.n_past = Len(sl.prompt) THEN sl.n_past - 1 ELSE sl.n_past
           new == [sl EXCEPT !.n_past = n]
<1>1. /\ pc = "reuse" /\ heads' = NoHeads /\ mem' = mem /\ at' = at /\ UNCHANGED <<file, batch, view, todo, lost>>
  BY DEF EndReuse
<1>2. \/ pc' = "aborted" /\ slots' = slots
      \/ pc' = "fill" /\ slots' = [slots EXCEPT ![s] = new]
  <2>1. \/ pc' = "aborted" /\ slots' = slots
        \/ pc' = "fill" /\ slots' = [slots EXCEPT ![s].n_past = IF @ = Len(sl.prompt) THEN @ - 1 ELSE @]
    BY <1>0 DEF EndReuse
  <2> QED BY <2>1 DEF Types
<1>3. /\ sl.state = "prompt" /\ todo.sample = {} /\ todo.spec = {}
      /\ sl \in SlotType /\ sl.cache \in Seq(Nat) /\ sl.prompt \in Seq(Nat) /\ sl.n_past \in Nat
      /\ mem[s] \in SUBSET Entry
      /\ Len(sl.cache) \in Nat /\ Len(sl.cache) < NCtx /\ Len(sl.prompt) \in 1 .. NCtx - 1
      /\ sl.n_past <= Len(sl.cache) /\ sl.n_past <= Len(sl.prompt) /\ sl.n_past < NCtx
      /\ sl.n_keep \in 0 .. NCtx - 4
      /\ \A k \in 1 .. sl.n_past : sl.cache[k] = sl.prompt[k]
      /\ s \notin lost => AgreeBelow(mem[s], sl.cache, sl.n_past)
  BY <1>0, <1>1, ReuseIs
<1>4. n \in Nat /\ n <= sl.n_past /\ n < Len(sl.prompt)
  <2> HIDE DEF sl
  <2> QED BY SMTT(30), <1>3, SlotCacheAssumption
<1> HIDE DEF n
<1>5. /\ new \in SlotType /\ new.n_past = n /\ new.cache = sl.cache /\ new.state = sl.state
      /\ new.prompt = sl.prompt /\ new.n_keep = sl.n_keep
  <2> HIDE DEF sl
  <2> QED BY <1>3, <1>4 DEF SlotType
<1> HIDE DEF new
<1>6. /\ slots' \in [Slot -> SlotType] /\ mem' \in [Slot -> SUBSET Entry] /\ mem'[s] = mem[s]
      /\ \A t \in Slot : t # s => slots'[t] = slots[t] /\ mem'[t] = mem[t]
      /\ slots'[s].state = sl.state /\ slots'[s].cache = sl.cache /\ slots'[s].prompt = sl.prompt
      /\ slots'[s].n_keep = sl.n_keep
      /\ \/ pc' = "aborted" /\ slots'[s].n_past = sl.n_past
         \/ pc' = "fill" /\ slots'[s].n_past = n
  <2>1. CASE pc' = "aborted" /\ slots' = slots
    BY <1>1, <2>1 DEF Types
  <2>2. CASE pc' = "fill" /\ slots' = [slots EXCEPT ![s] = new]
    <3>1. slots'[s] = new /\ slots' \in [Slot -> SlotType] /\ \A t \in Slot : t # s => slots'[t] = slots[t]
      BY <1>5, <2>2 DEF Types
    <3> QED BY <1>1, <1>5, <2>2, <3>1 DEF Types
  <2> QED BY <1>2, <2>1, <2>2
<1>7. /\ Types' /\ PlaceOK' /\ BatchOK' /\ FileOK' /\ Comparing(s)'
      /\ \A t \in Slot : t # s => SlotOK(t)' /\ RoomOK(t)' /\ OutputOK(t)' /\ ReuseOK(t)' /\ MemoryOK(t)'
  <2>1. heads' \in [c : Nat, p : Nat] /\ slots[s].state # "generating" /\ pc' \in {"reuse", "fill", "aborted"}
    BY <1>1, <1>3, <1>6 DEF NoHeads
  <2> QED BY <1>0, <1>1, <1>6, <2>1, ComparingFrame
<1>8. PICK x \in Nat : x = slots'[s].n_past
  BY <1>3, <1>4, <1>6
<1>9. x <= sl.n_past /\ x < NCtx /\ x <= Len(sl.cache) /\ x <= Len(sl.prompt)
  <2>1. x <= sl.n_past
    BY <1>3, <1>4, <1>6, <1>8
  <2>2. Len(sl.prompt) \in Nat
    BY <1>3
  <2> HIDE DEF sl
  <2> QED BY <1>3, <1>8, <2>1, <2>2, SlotCacheAssumption
<1>10. SlotOK(s)' /\ RoomOK(s)' /\ OutputOK(s)' /\ MemoryOK(s)'
  BY <1>1, <1>3, <1>6, <1>7, <1>8, <1>9, ComparingKeeps
<1>11. ReuseOK(s)'
  <2>1. s \notin lost => AgreeBelow(mem[s], sl.cache, x)
    <3>1. SUFFICES ASSUME AgreeBelow(mem[s], sl.cache, sl.n_past)
                   PROVE  AgreeBelow(mem[s], sl.cache, x)
      BY <1>3
    <3>2. ASSUME NEW e \in mem[s], e.pos < x
          PROVE  e.pos < sl.n_past
      <4>1. e \in Entry
        BY <1>3
      <4> QED BY <1>3, <1>8, <1>9, <3>2, <4>1 DEF Entry
    <3>3. ASSUME NEW k \in 1 .. x
          PROVE  k \in 1 .. sl.n_past
      BY <1>3, <1>8, <1>9
    <3> QED BY <3>1, <3>2, <3>3 DEF AgreeBelow
  <2>2. \A k \in 1 .. x : sl.cache[k] = sl.prompt[k]
    <3>1. ASSUME NEW k \in 1 .. x
          PROVE  k \in 1 .. sl.n_past
      BY <1>3, <1>8, <1>9
    <3> QED BY <1>3, <3>1
  <2>3. pc' = "fill" => x < Len(sl.prompt)
    BY <1>4, <1>6, <1>8
  <2>4. pc' # "reuse"
    BY <1>6
  <2> QED BY <1>1, <1>6, <1>8, <1>9, <2>1, <2>2, <2>3, <2>4 DEF ReuseOK
<1> QED BY <1>7, <1>10, <1>11 DEF IInv, SlotsOK

LEMMA SequencesEqual ==
    ASSUME NEW p \in Seq(Nat), NEW q \in Seq(Nat), Len(p) = Len(q), \A k \in 1 .. Len(p) : p[k] = q[k]
    PROVE  p = q
OBVIOUS

\* A sequence that agrees with a longer one is a strict prefix of it.
LEMMA PrefixIs ==
    ASSUME NEW p \in Seq(Nat), NEW q \in Seq(Nat), Len(p) < Len(q), \A k \in 1 .. Len(p) : p[k] = q[k]
    PROVE  IsStrictPrefix(p, q)
<1>1. p # q
  OBVIOUS
<1>2. SubSeq(p, 1, Len(p)) = SubSeq(q, 1, Len(p))
  OBVIOUS
<1>3. Len(p) <= Len(q)
  OBVIOUS
<1> QED BY <1>1, <1>2, <1>3 DEF IsStrictPrefix, IsPrefix

LEMMA StrictPrefixIs ==
    ASSUME NEW p \in Seq(Nat), NEW q \in Seq(Nat), IsStrictPrefix(p, q)
    PROVE  Len(p) < Len(q) /\ \A k \in 1 .. Len(p) : p[k] = q[k]
<1>1. /\ p # q /\ Len(p) <= Len(q) /\ SubSeq(p, 1, Len(p)) = SubSeq(q, 1, Len(p))
  BY DEF IsStrictPrefix, IsPrefix
<1>2. \A x \in Seq(Nat) : SubSeq(x, 1, Len(x)) = x
  OBVIOUS
<1>3. Len(p) # Len(q)
  BY <1>1, <1>2
<1>4. ASSUME NEW k \in 1 .. Len(p)
      PROVE  p[k] = q[k]
  <2>1. SubSeq(p, 1, Len(p))[k] = p[k]
    OBVIOUS
  <2>2. SubSeq(q, 1, Len(p))[k] = q[k]
    BY <1>1
  <2> QED BY <1>1, <2>1, <2>2
<1> QED BY <1>1, <1>3, <1>4

\* The part of a prompt from which the memory has the first n tokens.
LEMMA MiddleIs ==
    ASSUME NEW x \in Seq(Nat), NEW n \in Nat, NEW r \in Nat, n + r <= Len(x)
    PROVE  /\ SubSeq(x, n + 1, n + r) \in Seq(Nat) /\ Len(SubSeq(x, n + 1, n + r)) = r
           /\ \A k \in 1 .. r : SubSeq(x, n + 1, n + r)[k] = x[n + k]
<1> DEFINE y == SubSeq(x, n + 1, n + r)
<1>1. y = [k \in 1 .. (n + r) - (n + 1) + 1 |-> x[k + (n + 1) - 1]]
  OBVIOUS
<1>2. (n + r) - (n + 1) + 1 = r /\ \A k \in 1 .. r : k + (n + 1) - 1 = n + k
  OBVIOUS
<1>3. \A k \in 1 .. r : n + k \in 1 .. Len(x)
  OBVIOUS
<1> HIDE DEF y
<1>4. y = [k \in 1 .. r |-> x[n + k]]
  BY <1>1, <1>2
<1>5. y \in [1 .. r -> Nat]
  BY <1>3, <1>4
<1>6. y \in Seq(Nat) /\ Len(y) = r
  BY <1>5
<1> QED BY <1>4, <1>6 DEF y

LEMMA TokensConcat ==
    ASSUME NEW x \in Seq(Token), NEW y \in Seq(Token)
    PROVE  /\ x \o y \in Seq(Token) /\ Len(x \o y) = Len(x) + Len(y) /\ Len(x) \in Nat /\ Len(y) \in Nat
           /\ \A k \in 1 .. Len(x) : (x \o y)[k] = x[k]
           /\ \A k \in 1 .. Len(y) : (x \o y)[Len(x) + k] = y[k]
OBVIOUS

\* Before the memory is filled: the first n_past tokens of the cache are those of
\* the prompt, and the memory has them.
LEMMA FillIs ==
    ASSUME Types, IInv, NEW s \in Slot, s = at, HasPrompt(s)
    PROVE  LET sl == slots[s]
           IN  /\ pc \in {"prompt", "fill"} /\ sl.state = "prompt" /\ sl.n_past < Len(sl.prompt)
               /\ sl.n_past <= Len(sl.cache) /\ sl.n_past < NCtx /\ sl.n_keep \in 0 .. NCtx - 4
               /\ Len(sl.prompt) \in 1 .. NCtx - 1
               /\ \A k \in 1 .. sl.n_past : sl.cache[k] = sl.prompt[k]
               /\ s \notin lost => {e \in mem[s] : e.pos < sl.n_past} = Entries(SubSeq(sl.cache, 1, sl.n_past))
               /\ NoneWaits(s) /\ Waiting(s) = {}
<1> DEFINE sl == slots[s]
           q == SubSeq(sl.cache, 1, sl.n_past)
<1>1. SlotOK(s) /\ ReuseOK(s) /\ MemoryOK(s) /\ s \in Nat
  BY SlotsAre DEF IInv, SlotsOK
<1>2. pc \in {"prompt", "fill"} /\ sl.state = "prompt" /\ (pc = "fill" <=> Comparing(s))
  BY <1>1 DEF HasPrompt, Comparing, SlotOK
<1>3. NoneWaits(s) /\ Waiting(s) = {}
  <2>1. pc \in Filling
    BY <1>2 DEF Filling
  <2>2. slots[s].state # "generating"
    BY <1>2
  <2> QED BY <2>1, <2>2, FillingIs
<1>4. /\ sl.cache \in Seq(Nat) /\ sl.prompt \in Seq(Nat) /\ sl.n_past \in Nat /\ mem[s] \in SUBSET Entry
      /\ Len(sl.cache) \in Nat
  BY SlotIs
<1>5. sl.n_past < NCtx /\ sl.n_keep \in 0 .. NCtx - 4 /\ Len(sl.prompt) \in 1 .. NCtx - 1
  BY <1>1, <1>2 DEF SlotOK, Active
<1>6. CASE pc = "fill"
  <2>1. /\ sl.n_past <= Len(sl.cache) /\ sl.n_past < Len(sl.prompt)
        /\ \A k \in 1 .. sl.n_past : sl.cache[k] = sl.prompt[k]
        /\ s \notin lost => AgreeBelow(mem[s], sl.cache, sl.n_past)
    BY <1>1, <1>2, <1>6 DEF ReuseOK
  <2>2. ASSUME s \notin lost
        PROVE  {e \in mem[s] : e.pos < sl.n_past} = Entries(q)
    <3> DEFINE m == {e \in mem[s] : e.pos < sl.n_past}
    <3>0. sl.n_past \in 0 .. Len(sl.cache)
      BY <1>4, <2>1
    <3>1. q \in Seq(Nat) /\ Len(q) = sl.n_past /\ \A k \in 1 .. sl.n_past : q[k] = sl.cache[k]
      <4> HIDE DEF sl
      <4> QED BY <1>4, <3>0, EntriesCut
    <3>2. AgreeBelow(mem[s], sl.cache, sl.n_past)
      BY <2>1, <2>2
    <3> HIDE DEF q
    <3>3. ASSUME NEW e \in m
          PROVE  e \in Entry /\ e.pos < Len(q) /\ e.tok = q[e.pos + 1]
      <4>1. e \in Entry /\ e.pos < sl.n_past /\ e.pos \in Nat
        BY <1>4 DEF Entry
      <4>2. e.tok = sl.cache[e.pos + 1]
        BY <3>2, <4>1 DEF AgreeBelow
      <4>3. e.pos + 1 \in 1 .. sl.n_past
        BY <1>4, <4>1
      <4> QED BY <3>1, <4>1, <4>2, <4>3
    <3>4. ASSUME NEW k \in 1 .. Len(q)
          PROVE  [pos |-> k - 1, tok |-> q[k]] \in m
      <4>1. k \in 1 .. sl.n_past /\ k <= Len(sl.cache) /\ k - 1 < sl.n_past
        BY <1>4, <2>1, <3>1
      <4>2. [pos |-> k - 1, tok |-> sl.cache[k]] \in mem[s]
        BY <3>2, <4>1 DEF AgreeBelow
      <4> QED BY <3>1, <4>1, <4>2
    <3>5. m \in SUBSET Entry
      BY <1>4
    <3> HIDE DEF m
    <3>6. m = Entries(q)
      BY <3>1, <3>3, <3>4, <3>5, EntriesEqual
    <3> QED BY <3>6 DEF m
  <2> QED BY <1>2, <1>3, <1>5, <2>1, <2>2
<1>7. CASE pc = "prompt"
  <2>1. sl.n_past = Len(sl.cache) /\ IsStrictPrefix(sl.cache, sl.prompt)
    BY <1>1, <1>2, <1>7 DEF SlotOK, Active
  <2>2. Len(sl.cache) < Len(sl.prompt) /\ \A k \in 1 .. Len(sl.cache) : sl.cache[k] = sl.prompt[k]
    <3> HIDE DEF sl
    <3> QED BY <1>4, <2>1, StrictPrefixIs
  <2>3. ASSUME s \notin lost
        PROVE  {e \in mem[s] : e.pos < sl.n_past} = Entries(q)
    <3>1. mem[s] = Entries(sl.cache)
      <4>1. Cached(s) = Entries(sl.cache)
        BY <1>4, CachedIs
      <4>2. Active(s) /\ ~Comparing(s)
        BY <1>2, <1>7 DEF Active
      <4> QED BY <1>1, <1>3, <2>3, <4>1, <4>2 DEF MemoryOK
    <3>2. sl.n_past \in 0 .. Len(sl.cache)
      BY <1>4, <2>1
    <3> HIDE DEF sl
    <3> QED BY <1>4, <3>1, <3>2, EntriesCut
  <2> QED BY <1>2, <1>3, <1>4, <1>5, <2>1, <2>2, <2>3
<1> QED BY <1>2, <1>6, <1>7

LEMMA FillPromptKeeps ==
    ASSUME Types, IInv, FillPrompt
    PROVE  Types' /\ IInv'
<1>0. PICK s \in Slot : s = at
  <2>1. at \in Slot
    BY DEF FillPrompt, HasPrompt, IInv, PlaceOK, Filling
  <2> QED BY <2>1
<1> DEFINE sl == slots[s]
           n == sl.n_past
           r == Room(s)
           c == NextTokens(s, r)
           full == batch \o c
           a == SubSeq(sl.cache, 1, n)
           b == SubSeq(sl.prompt, n + 1, n + r)
           q == a \o b
           done == n + r = Len(sl.prompt)
           new == Filled(sl, r, full)
           m == {e \in mem[s] : e.pos < n}
<1>1. /\ HasPrompt(s) /\ file' = file /\ heads' = heads /\ view' = view /\ todo' = todo
      /\ mem' = [mem EXCEPT ![s] = SeqRm(mem[s], n, -1)]
      /\ slots' = [slots EXCEPT ![s] = new]
      /\ lost' = IF n = 0 THEN lost \ {s} ELSE lost
      /\ NextPrompt(full, Len(full) >= NBatch)
  BY <1>0 DEF FillPrompt
<1>2. /\ pc \in {"prompt", "fill"} /\ sl.state = "prompt" /\ n < Len(sl.prompt)
      /\ n <= Len(sl.cache) /\ n < NCtx /\ sl.n_keep \in 0 .. NCtx - 4
      /\ Len(sl.prompt) \in 1 .. NCtx - 1
      /\ \A k \in 1 .. n : sl.cache[k] = sl.prompt[k]
      /\ s \notin lost => m = Entries(a)
      /\ NoneWaits(s) /\ Waiting(s) = {}
  BY <1>0, <1>1, FillIs
<1>3. pc \in Filling
  BY <1>2 DEF Filling
<1>4. /\ s \in Nat /\ batch \in Seq(Token) /\ Len(batch) \in Nat
      /\ Len(batch) <= NBatch + Cardinality(Slot)
      /\ view = NoView /\ todo.sample = {} /\ todo.spec = {} /\ Rest = 1
      /\ \A k \in 1 .. Len(batch) : /\ batch[k].slot \in Slot /\ batch[k].slot \in Nat
                                    /\ batch[k].slot < s \/ slots[batch[k].slot].state = "generating"
      /\ \A t \in Slot : t # s => ~Comparing(t)
  BY <1>0, <1>3, FillingIs
<1>5. /\ sl \in SlotType /\ sl.cache \in Seq(Nat) /\ sl.prompt \in Seq(Nat) /\ n \in Nat /\ mem[s] \in SUBSET Entry
      /\ Len(sl.cache) \in Nat /\ Len(sl.prompt) \in Nat
  BY SlotIs
<1>6. r \in Nat /\ n + r <= Len(sl.prompt) /\ (r > 0 => Len(batch) + r <= NBatch)
  <2>1. r = LET x == Least(Len(sl.prompt) - n, NBatch - Len(batch)) IN IF x < 0 THEN 0 ELSE x
    BY DEF Room
  <2>2. NBatch \in Nat
    BY SlotCacheAssumption
  <2> HIDE DEF sl, n, r
  <2> QED BY SMTT(30), <1>2, <1>4, <1>5, <2>1, <2>2 DEF Least
<1>7. c = [k \in 1 .. r |-> [slot |-> s, pos |-> n + k - 1, tok |-> sl.prompt[n + k]]]
  BY DEF NextTokens
<1>8. /\ new = [sl EXCEPT !.n_past = n + r, !.cache = q,
                          !.state = IF done THEN "done_prompt" ELSE sl.state,
                          !.i_batch = IF done THEN Len(full) - 1 ELSE sl.i_batch]
  BY DEF Filled
<1> HIDE DEF r, c, new
<1>9. /\ a \in Seq(Nat) /\ Len(a) = n /\ \A k \in 1 .. n : a[k] = sl.cache[k]
  <2>1. n \in 0 .. Len(sl.cache)
    BY <1>2, <1>5
  <2> HIDE DEF sl, n
  <2> QED BY <1>5, <2>1, EntriesCut
<1>10. b \in Seq(Nat) /\ Len(b) = r /\ \A k \in 1 .. r : b[k] = sl.prompt[n + k]
  <2> HIDE DEF sl, n
  <2> QED BY <1>5, <1>6, MiddleIs
<1> HIDE DEF a, b
<1>11. /\ q \in Seq(Nat) /\ Len(q) = n + r
       /\ \A k \in 1 .. n : q[k] = a[k]
       /\ \A k \in 1 .. r : q[n + k] = b[k]
       /\ Entries(q) = Entries(a) \cup {[pos |-> n + k - 1, tok |-> b[k]] : k \in 1 .. r}
  <2> HIDE DEF sl, n
  <2>1. /\ q \in Seq(Nat) /\ Len(q) = Len(a) + Len(b)
        /\ \A k \in 1 .. Len(a) : q[k] = a[k]
        /\ \A k \in 1 .. Len(b) : q[Len(a) + k] = b[k]
    BY <1>9, <1>10, ConcatIs
  <2>2. Entries(q) = Entries(a) \cup {[pos |-> Len(a) + k - 1, tok |-> b[k]] : k \in 1 .. Len(b)}
    BY <1>9, <1>10, EntriesConcat
  <2> HIDE DEF q
  <2> QED BY <1>9, <1>10, <2>1, <2>2
<1> HIDE DEF q
<1>12. ASSUME NEW k \in 1 .. Len(q)
       PROVE  q[k] = sl.prompt[k]
  <2> HIDE DEF sl, n
  <2>1. CASE k <= n
    <3>1. k \in 1 .. n
      BY <1>5, <2>1
    <3> QED BY <1>2, <1>9, <1>11, <3>1
  <2>2. CASE ~(k <= n)
    <3>1. PICK j \in 1 .. r : k = n + j
      <4>1. k - n \in 1 .. r /\ k = n + (k - n)
        BY <1>5, <1>6, <1>11, <2>2
      <4> QED BY <4>1
    <3> QED BY <1>10, <1>11, <3>1
  <2> QED BY <2>1, <2>2
<1>13. ~done => IsStrictPrefix(q, sl.prompt)
  <2> HIDE DEF sl, n
  <2>1. ~done => Len(q) < Len(sl.prompt)
    BY <1>5, <1>6, <1>11
  <2> QED BY <1>5, <1>11, <1>12, <2>1, PrefixIs
<1>14. done => q = sl.prompt
  <2> HIDE DEF sl, n
  <2> QED BY <1>5, <1>11, <1>12, SequencesEqual
<1>15. /\ c \in Seq(Token) /\ Len(c) = r
       /\ \A k \in 1 .. r : c[k] = [slot |-> s, pos |-> n + k - 1, tok |-> b[k]]
  <2> HIDE DEF sl, n
  <2>1. ASSUME NEW k \in 1 .. r
        PROVE  [slot |-> s, pos |-> n + k - 1, tok |-> sl.prompt[n + k]] \in Token
    <3>1. n + k - 1 \in Nat
      BY <1>5, <1>6
    <3>2. b[k] \in Nat /\ b[k] = sl.prompt[n + k]
      BY <1>10
    <3> QED BY <3>1, <3>2 DEF Token
  <2>2. c \in [1 .. r -> Token]
    BY <1>7, <2>1
  <2>3. ASSUME NEW l \in Nat, NEW x \in [1 .. l -> Token]
        PROVE  x \in Seq(Token) /\ Len(x) = l
    OBVIOUS
  <2> QED BY <1>6, <1>7, <1>10, <2>2, <2>3
<1>16. /\ full \in Seq(Token) /\ Len(full) = Len(batch) + r
       /\ \A k \in 1 .. Len(batch) : full[k] = batch[k]
       /\ \A k \in 1 .. r : full[Len(batch) + k] = c[k]
  <2>1. batch \in Seq(Token) /\ c \in Seq(Token) /\ Len(c) = r
    BY <1>4, <1>15
  <2> QED BY <2>1, TokensConcat
<1> HIDE DEF full
<1>17. /\ new \in SlotType /\ new.n_past = n + r /\ new.cache = q /\ new.prompt = sl.prompt /\ new.n_keep = sl.n_keep
       /\ new.state = (IF done THEN "done_prompt" ELSE "prompt")
       /\ new.i_batch = (IF done THEN Len(full) - 1 ELSE sl.i_batch)
  <2> DEFINE i == IF done THEN Len(full) - 1 ELSE sl.i_batch
             st == IF done THEN "done_prompt" ELSE "prompt"
  <2>1. i \in Int
    <3>1. Len(full) - 1 \in Int /\ sl.i_batch \in Int
      BY <1>4, <1>6, <1>16, SlotIs
    <3> QED BY <3>1
  <2>2. st \in SlotState
    BY DEF SlotState
  <2>3. new = [sl EXCEPT !.n_past = n + r, !.cache = q, !.state = st, !.i_batch = i]
    BY <1>2, <1>8
  <2>4. n + r \in Nat
    BY <1>5, <1>6
  <2> HIDE DEF sl, n, i, st
  <2>5. new \in SlotType
    BY <1>5, <1>11, <2>1, <2>2, <2>3, <2>4 DEF SlotType
  <2>6. /\ new.n_past = n + r /\ new.cache = q /\ new.prompt = sl.prompt /\ new.n_keep = sl.n_keep
        /\ new.state = st /\ new.i_batch = i
    BY <1>5, <2>3 DEF SlotType
  <2> QED BY <2>5, <2>6 DEF i, st
<1>18. m \in SUBSET Entry /\ SeqRm(mem[s], n, -1) = m
  BY <1>5 DEF SeqRm
<1>19. /\ slots'[s] = new /\ slots' \in [Slot -> SlotType] /\ mem'[s] = m /\ mem' \in [Slot -> SUBSET Entry]
       /\ \A t \in Slot : t # s => slots'[t] = slots[t] /\ mem'[t] = mem[t]
  <2> HIDE DEF m
  <2> QED BY <1>1, <1>17, <1>18 DEF Types
<1>20. /\ PlaceOK' /\ BatchOK' /\ batch' = full /\ Rest' = 1
       /\ \A t \in Slot : ~Comparing(t)' /\ RoomOK(t)'
  <2>1. Len(full) <= NBatch + Cardinality(Slot)
    <3>1. NBatch \in Nat /\ Cardinality(Slot) \in Nat
      BY SlotsAre, SlotCacheAssumption
    <3> QED BY <1>4, <1>6, <1>16, <3>1
  <2>2. ASSUME NEW k \in 1 .. Len(full)
        PROVE  full[k].slot < at + 1 \/ slots'[full[k].slot].state = "generating"
    <3>1. CASE k <= Len(batch)
      <4>1. k \in 1 .. Len(batch) /\ full[k] = batch[k]
        BY <1>4, <1>16, <3>1
      <4>2. CASE batch[k].slot < s
        BY <1>0, <1>4, <4>1, <4>2
      <4>3. CASE slots[batch[k].slot].state = "generating"
        <5>1. batch[k].slot \in Slot /\ batch[k].slot # s
          BY <1>2, <1>4, <4>1, <4>3
        <5> QED BY <1>19, <4>1, <4>3, <5>1
      <4> QED BY <1>4, <4>1, <4>2, <4>3
    <3>2. CASE ~(k <= Len(batch))
      <4>1. PICK j \in 1 .. r : k = Len(batch) + j
        <5>1. k - Len(batch) \in 1 .. r /\ k = Len(batch) + (k - Len(batch))
          BY <1>4, <1>6, <1>16, <3>2
        <5> QED BY <5>1
      <4>2. full[k].slot = s
        BY <1>15, <1>16, <4>1
      <4> QED BY <1>0, <1>4, <4>2
    <3> QED BY <3>1, <3>2
  <2> DEFINE full_enough == Len(full) >= NBatch
  <2> HIDE DEF full_enough
  <2>3. NextPrompt(full, full_enough)
    BY <1>1 DEF full_enough
  <2> QED BY <1>1, <1>3, <1>16, <2>1, <2>2, <2>3, NextPromptIs
<1>21. Types' /\ FileOK'
  BY <1>1, <1>16, <1>19, <1>20 DEF Types, IInv, FileOK
<1>22. ASSUME NEW t \in Slot, t # s
       PROVE  SlotOK(t)' /\ OutputOK(t)' /\ ReuseOK(t)' /\ MemoryOK(t)'
  <2>1. batch' = batch \o c /\ \A k \in 1 .. Len(c) : c[k].slot # t
    <3>1. \A k \in 1 .. Len(c) : c[k].slot = s
      BY <1>15
    <3> QED BY <1>20, <1>22, <3>1 DEF full
  <2>2. t \in lost' <=> t \in lost
    BY <1>1, <1>22
  <2> QED BY <1>1, <1>4, <1>15, <1>19, <1>20, <1>22, <2>1, <2>2, Frame DEF IInv, SlotsOK
<1>23. /\ slots'[s].n_past = n + r /\ slots'[s].cache = q /\ slots'[s].prompt = sl.prompt /\ slots'[s].n_keep = sl.n_keep
       /\ done => slots'[s].state = "done_prompt" /\ slots'[s].i_batch = Len(full) - 1
       /\ ~done => slots'[s].state = "prompt"
  BY <1>17, <1>19
<1>24. n + r < NCtx /\ Len(q) = n + r
  <2> HIDE DEF sl, n
  <2> QED BY <1>2, <1>5, <1>6, <1>11, SlotCacheAssumption
<1>25. SlotOK(s)'
  BY <1>2, <1>13, <1>14, <1>20, <1>23, <1>24 DEF SlotOK, Active
<1>26. done => r > 0 /\ Len(full) \in 1 .. Len(full) /\ Len(full) = Len(batch) + r
  <2> HIDE DEF sl, n
  <2>1. done => r > 0
    BY <1>2, <1>5, <1>6
  <2> QED BY <1>4, <1>6, <1>16, <2>1
<1>27. OutputOK(s)'
  <2>1. HasOutput(s)' => done
    BY <1>23 DEF HasOutput
  <2>2. done => slots'[s].i_batch + 1 = Len(full)
    BY <1>16, <1>23
  <2>3. s \notin todo'.sample /\ s \notin todo'.spec
    BY <1>1, <1>4
  <2> QED BY <1>20, <1>26, <2>1, <2>2, <2>3 DEF OutputOK
<1>28. ReuseOK(s)'
  BY <1>20 DEF ReuseOK
<1>29. MemoryOK(s)'
  <2>1. SUFFICES ASSUME s \notin lost'
                 PROVE  MemoryOK(s)'
    BY DEF MemoryOK
  <2>2. m = Entries(a)
    <3>1. CASE n = 0
      <4>1. Entries(a) = {}
        BY <1>9, <3>1, EntriesAre
      <4>2. \A e \in mem[s] : ~(e.pos < 0)
        BY <1>5 DEF Entry
      <4>3. m = {}
        BY <3>1, <4>2
      <4> QED BY <4>1, <4>3
    <3>2. CASE n # 0
      BY <1>1, <1>2, <2>1, <3>2
    <3> QED BY <3>1, <3>2
  <2>3. Waiting(s)' = {[pos |-> n + k - 1, tok |-> b[k]] : k \in 1 .. r}
    <3>1. Waiting(s)' = Left(batch, 1, s) \cup Left(c, 1, s)
      <4>1. 1 \in 1 .. Len(batch) + 1
        BY <1>4
      <4>2. Left(batch \o c, 1, s) = Left(batch, 1, s) \cup Left(c, 1, s)
        BY <1>4, <1>15, <4>1, LeftConcat
      <4>3. Waiting(s)' = Left(batch', Rest', s)
        BY WaitingIs
      <4> QED BY <1>20, <4>2, <4>3 DEF full
    <3>2. Left(batch, 1, s) = {}
      BY <1>2, <1>4, WaitingIs
    <3>3. {j \in 1 .. Len(c) : c[j].slot = s} = 1 .. r
      BY <1>15
    <3>4. Left(c, 1, s) = {[pos |-> c[k].pos, tok |-> c[k].tok] : k \in 1 .. r}
      BY <3>3 DEF Left
    <3>5. \A k \in 1 .. r : c[k].pos = n + k - 1 /\ c[k].tok = b[k]
      BY <1>15
    <3> HIDE DEF n
    <3> QED BY <3>1, <3>2, <3>4, <3>5
  <2>4. Cached(s)' = mem'[s] \cup Waiting(s)'
    <3>1. Cached(s)' = Entries(q)
      BY <1>11, <1>23, CachedIs
    <3> HIDE DEF m, n
    <3> QED BY <1>11, <1>19, <2>2, <2>3, <3>1
  <2>5. ASSUME done
        PROVE  /\ batch'[slots'[s].i_batch + 1] =
                     [slot |-> s, pos |-> slots'[s].n_past - 1, tok |-> slots'[s].cache[Len(slots'[s].cache)]]
               /\ \A k \in slots'[s].i_batch + 2 .. Len(batch') : batch'[k].slot # s
    <3>1. r \in 1 .. r /\ Len(full) = Len(batch) + r
      BY <1>6, <1>26, <2>5
    <3>2. full[Len(full)] = [slot |-> s, pos |-> n + r - 1, tok |-> b[r]]
      BY <1>15, <1>16, <3>1
    <3>3. q[Len(q)] = b[r]
      BY <1>11, <3>1
    <3>4. slots'[s].i_batch + 1 = Len(full) /\ slots'[s].i_batch + 2 > Len(full)
      BY <1>16, <1>23, <2>5
    <3>5. \A k \in slots'[s].i_batch + 2 .. Len(batch') : FALSE
      BY <1>16, <1>20, <1>23, <2>5
    <3>6. slots'[s].n_past - 1 = n + r - 1 /\ slots'[s].cache = q /\ batch' = full
      <4>1. slots'[s].n_past = n + r /\ slots'[s].cache = q
        BY <1>23
      <4> HIDE DEF n
      <4>2. slots'[s].n_past - 1 = n + r - 1
        BY <1>5, <1>6, <4>1
      <4> QED BY <1>20, <4>1, <4>2
    <3> QED BY <3>2, <3>3, <3>4, <3>5, <3>6
  <2>6. HasOutput(s)' => done
    BY <1>23 DEF HasOutput
  <2>7. slots'[s].state # "generating"
    BY <1>23
  <2> QED BY <2>4, <2>5, <2>6, <2>7 DEF MemoryOK
<1> QED BY <1>20, <1>21, <1>22, <1>25, <1>27, <1>28, <1>29 DEF IInv, SlotsOK

-----------------------------------------------------------------------------
(* Decoding the batch.                                                     *)

LEMMA SliceIs ==
    ASSUME NEW x \in Seq(Token), NEW n \in Nat, NEW r \in Nat, n + r <= Len(x)
    PROVE  /\ SubSeq(x, n + 1, n + r) \in Seq(Token) /\ Len(SubSeq(x, n + 1, n + r)) = r
           /\ \A k \in 1 .. r : SubSeq(x, n + 1, n + r)[k] = x[n + k]
<1> DEFINE y == SubSeq(x, n + 1, n + r)
<1>1. y = [k \in 1 .. (n + r) - (n + 1) + 1 |-> x[k + (n + 1) - 1]]
  OBVIOUS
<1>2. (n + r) - (n + 1) + 1 = r /\ \A k \in 1 .. r : k + (n + 1) - 1 = n + k
  OBVIOUS
<1>3. \A k \in 1 .. r : n + k \in 1 .. Len(x)
  OBVIOUS
<1> HIDE DEF y
<1>4. y = [k \in 1 .. r |-> x[n + k]]
  BY <1>1, <1>2
<1>5. y \in [1 .. r -> Token]
  BY <1>3, <1>4
<1>6. y \in Seq(Token) /\ Len(y) = r
  BY <1>5
<1> QED BY <1>4, <1>6 DEF y

\* The next n tokens of the batch, and the ones after them.
LEMMA LeftSplit ==
    ASSUME NEW b \in Seq(Token), NEW i \in Nat, NEW n \in Nat, i + n <= Len(b), NEW s
    PROVE  /\ Left(b, i + 1, s) = Left(SubSeq(b, i + 1, i + n), 1, s) \cup Left(b, i + n + 1, s)
           /\ (\A k \in i + 1 .. Len(b) : b[k].slot # s) =>
                 \A k \in 1 .. n : SubSeq(b, i + 1, i + n)[k].slot # s
<1> DEFINE v == SubSeq(b, i + 1, i + n)
<1>1. v \in Seq(Token) /\ Len(v) = n /\ \A k \in 1 .. n : v[k] = b[i + k]
  BY SliceIs
<1> HIDE DEF v
<1>2. Len(b) \in Nat
  OBVIOUS
<1>3. ASSUME NEW k \in i + 1 .. Len(b), b[k].slot = s
      PROVE  [pos |-> b[k].pos, tok |-> b[k].tok] \in Left(v, 1, s) \cup Left(b, i + n + 1, s)
  <2>1. CASE k <= i + n
    <3>1. PICK j \in 1 .. n : k = i + j
      <4>1. k - i \in 1 .. n /\ k = i + (k - i)
        BY <2>1
      <4> QED BY <4>1
    <3>2. v[j] = b[k]
      BY <1>1, <3>1
    <3>3. [pos |-> v[j].pos, tok |-> v[j].tok] \in Left(v, 1, s)
      BY <1>1, <1>3, <3>2 DEF Left
    <3> QED BY <3>2, <3>3
  <2>2. CASE ~(k <= i + n)
    <3>1. k \in i + n + 1 .. Len(b)
      BY <1>2, <2>2
    <3> QED BY <1>3, <3>1 DEF Left
  <2> QED BY <2>1, <2>2
<1>4. Left(b, i + 1, s) \subseteq Left(v, 1, s) \cup Left(b, i + n + 1, s)
  <2> DEFINE y == Left(v, 1, s) \cup Left(b, i + n + 1, s)
  <2> HIDE DEF y
  <2>1. \A k \in i + 1 .. Len(b) : b[k].slot = s => [pos |-> b[k].pos, tok |-> b[k].tok] \in y
    BY <1>3 DEF y
  <2>2. Left(b, i + 1, s) \subseteq y
    BY <2>1 DEF Left
  <2> QED BY <2>2 DEF y
<1>5. Left(v, 1, s) \subseteq Left(b, i + 1, s)
  <2> DEFINE y == Left(b, i + 1, s)
  <2>1. ASSUME NEW k \in 1 .. n, v[k].slot = s
        PROVE  [pos |-> v[k].pos, tok |-> v[k].tok] \in y
    <3>1. i + k \in i + 1 .. Len(b)
      BY <1>2
    <3>2. v[k] = b[i + k]
      BY <1>1
    <3> QED BY <2>1, <3>1, <3>2 DEF Left
  <2> HIDE DEF y
  <2>2. Left(v, 1, s) \subseteq y
    BY <1>1, <2>1 DEF Left
  <2> QED BY <2>2 DEF y
<1>6. Left(b, i + n + 1, s) \subseteq Left(b, i + 1, s)
  <2>1. \A k \in i + n + 1 .. Len(b) : k \in i + 1 .. Len(b)
    BY <1>2
  <2> QED BY <2>1 DEF Left
<1>7. ASSUME \A k \in i + 1 .. Len(b) : b[k].slot # s, NEW k \in 1 .. n
      PROVE  v[k].slot # s
  <2>1. i + k \in i + 1 .. Len(b)
    BY <1>2
  <2> QED BY <1>1, <1>7, <2>1
<1>8. Left(b, i + 1, s) = Left(v, 1, s) \cup Left(b, i + n + 1, s)
  BY <1>4, <1>5, <1>6
<1> QED BY <1>7, <1>8 DEF v

LEMMA DecodedIs ==
    ASSUME Types, NEW toks \in Seq(Token)
    PROVE  /\ Decoded(mem, toks) \in [Slot -> SUBSET Entry]
           /\ \A t \in Slot : Decoded(mem, toks)[t] = mem[t] \cup Left(toks, 1, t)
<1>1. \A t \in Slot : Decoded(mem, toks)[t] = mem[t] \cup Left(toks, 1, t)
  <2> TAKE t \in Slot
  <2>1. Range(toks) = {toks[k] : k \in 1 .. Len(toks)}
    BY DEF Range
  <2>2. {[pos |-> x.pos, tok |-> x.tok] : x \in {y \in Range(toks) : y.slot = t}} = Left(toks, 1, t)
    BY <2>1 DEF Left
  <2>3. Decoded(mem, toks)[t] = mem[t] \cup {[pos |-> x.pos, tok |-> x.tok] : x \in {y \in Range(toks) : y.slot = t}}
    BY DEF Decoded
  <2> QED BY <2>2, <2>3
<1>2. \A t \in Slot : mem[t] \cup Left(toks, 1, t) \in SUBSET Entry
  <2> TAKE t \in Slot
  <2>1. Left(toks, 1, t) \in SUBSET Entry /\ mem[t] \in SUBSET Entry
    BY LeftIs DEF Types
  <2> QED BY <2>1
<1>3. Decoded(mem, toks) = [t \in Slot |-> Decoded(mem, toks)[t]]
  BY DEF Decoded
<1> QED BY <1>1, <1>2, <1>3

LEMMA DecodingIs ==
    ASSUME Types, IInv, pc \in Decoding
    PROVE  /\ batch \in Seq(Token) /\ Len(batch) \in Nat /\ at = 0
           /\ view \in [i : Nat, n_batch : 1 .. NBatch]
           /\ view.i \in Nat /\ view.i < Len(batch) /\ Size \in Nat /\ Size > 0 /\ view.i + Size <= Len(batch)
           /\ InView \in Seq(Token) /\ Len(InView) = Size /\ \A k \in 1 .. Size : InView[k] = batch[view.i + k]
           /\ pc # "sample" => todo.sample = {}
           /\ pc # "speculate" => todo.spec = {}
           /\ \A t \in Slot : ~Comparing(t)
<1>1. batch \in Seq(Token) /\ Len(batch) \in Nat /\ view.i \in Nat /\ view \in [i : Nat, n_batch : 1 .. NBatch]
  BY DEF Types
<1>2. view.i < Len(batch) /\ at = 0 /\ (pc # "sample" => todo.sample = {}) /\ (pc # "speculate" => todo.spec = {})
  BY DEF IInv, PlaceOK, Decoding, Filling
<1>3. Size \in 1 .. Len(batch) /\ view.i + Size <= Len(batch)
  BY SizeIs DEF IInv
<1>4. Size \in Nat /\ Size > 0
  BY <1>1, <1>3
<1>5. InView \in Seq(Token) /\ Len(InView) = Size /\ \A k \in 1 .. Size : InView[k] = batch[view.i + k]
  BY <1>1, <1>3, <1>4, SliceIs DEF InView
<1> QED BY <1>1, <1>2, <1>3, <1>4, <1>5 DEF Comparing, Decoding

LEMMA DecodeSucceedsKeeps ==
    ASSUME Types, IInv, DecodeSucceeds
    PROVE  Types' /\ IInv'
<1> DEFINE i == view.i
           n == Size
<1>1. /\ pc = "decode" /\ pc' = "sample" /\ mem' = Decoded(mem, InView)
      /\ UNCHANGED <<slots, file, at, heads, batch, view, lost>>
      /\ todo' = [sample |-> {s \in Slot : /\ slots[s].i_batch \in i .. i + n - 1
                                           /\ slots[s].state \in {"done_prompt", "generating"}},
                  spec |-> {}]
  BY DEF DecodeSucceeds, building, NoTodo
<1>2. /\ batch \in Seq(Token) /\ Len(batch) \in Nat /\ at = 0
      /\ i \in Nat /\ i < Len(batch) /\ n \in Nat /\ n > 0 /\ i + n <= Len(batch)
      /\ InView \in Seq(Token)
      /\ todo.sample = {} /\ todo.spec = {} /\ \A t \in Slot : ~Comparing(t)
  BY <1>1, DecodingIs DEF Decoding
<1>3. Rest = i + 1 /\ Rest' = i + n + 1 /\ Size' = n
  BY <1>1 DEF Rest, Size
<1>4. Types'
  <2>1. mem' \in [Slot -> SUBSET Entry]
    BY <1>1, <1>2, DecodedIs
  <2>2. todo' \in [sample : SUBSET Slot, spec : SUBSET Slot]
    <3> HIDE DEF i, n
    <3> QED BY <1>1
  <2> QED BY <1>1, <2>1, <2>2 DEF Types
<1>5. PlaceOK' /\ BatchOK' /\ FileOK'
  BY <1>1, <1>2 DEF IInv, PlaceOK, BatchOK, FileOK, Filling, Decoding
<1>6. ASSUME NEW s \in Slot
      PROVE  SlotOK(s)' /\ RoomOK(s)' /\ OutputOK(s)' /\ ReuseOK(s)' /\ MemoryOK(s)'
  <2>1. SlotOK(s) /\ OutputOK(s) /\ MemoryOK(s) /\ ~Comparing(s)
    BY <1>2 DEF IInv, SlotsOK
  <2>2. ~Comparing(s)' /\ (HasOutput(s)' <=> HasOutput(s)) /\ (Active(s)' <=> Active(s))
    BY <1>1 DEF Comparing, HasOutput, Active
  <2>3. SlotOK(s)'
    BY <1>1, <2>1, <2>2 DEF SlotOK
  <2>4. RoomOK(s)' /\ ReuseOK(s)'
    BY <1>1, <2>2 DEF RoomOK, ReuseOK
  <2>5. slots[s].i_batch \in Int
    BY SlotIs
  <2>6. s \in todo'.sample <=> slots[s].i_batch \in i .. i + n - 1 /\ slots[s].state \in {"done_prompt", "generating"}
    <3> HIDE DEF i, n
    <3> QED BY <1>1
  <2>7. HasOutput(s) => slots[s].i_batch + 1 \in i + 1 .. Len(batch)
    BY <1>2, <1>3, <2>1 DEF OutputOK
  <2>8. s \in todo'.sample => HasOutput(s) /\ slots[s].i_batch + 1 <= i + n
    <3>1. SUFFICES ASSUME s \in todo'.sample
                   PROVE  HasOutput(s) /\ slots[s].i_batch + 1 <= i + n
      OBVIOUS
    <3>2. slots[s].i_batch \in i .. i + n - 1
      BY <2>6, <3>1
    <3> HIDE DEF i, n
    <3>3. slots[s].i_batch # -1 /\ slots[s].i_batch + 1 <= i + n
      BY <1>2, <2>5, <3>2
    <3> QED BY <2>6, <3>1, <3>3 DEF HasOutput
  <2>9. HasOutput(s) /\ s \notin todo'.sample => slots[s].i_batch + 1 \in i + n + 1 .. Len(batch)
    <3>1. SUFFICES ASSUME HasOutput(s), s \notin todo'.sample
                   PROVE  slots[s].i_batch + 1 \in i + n + 1 .. Len(batch)
      OBVIOUS
    <3>2. slots[s].i_batch \notin i .. i + n - 1
      BY <2>6, <3>1 DEF HasOutput
    <3>3. slots[s].i_batch + 1 \in i + 1 .. Len(batch)
      BY <2>7, <3>1
    <3> HIDE DEF i, n
    <3> QED BY SMTT(30), <1>2, <2>5, <3>2, <3>3
  <2>10. OutputOK(s)'
    <3>1. s \notin todo'.spec
      BY <1>1
    <3> QED BY <1>1, <1>3, <2>2, <2>7, <2>8, <2>9, <3>1 DEF OutputOK
  <2>11. MemoryOK(s)'
    <3>1. SUFFICES ASSUME s \notin lost
                   PROVE  MemoryOK(s)'
      BY <1>1 DEF MemoryOK
    <3>2. mem'[s] \cup Waiting(s)' = mem[s] \cup Waiting(s)
      <4>1. mem'[s] = mem[s] \cup Left(InView, 1, s)
        BY <1>1, <1>2, DecodedIs
      <4>2. Waiting(s) = Left(batch, i + 1, s) /\ Waiting(s)' = Left(batch, i + n + 1, s)
        BY <1>1, <1>3, WaitingIs
      <4>3. Left(batch, i + 1, s) = Left(InView, 1, s) \cup Left(batch, i + n + 1, s)
        BY <1>2, LeftSplit DEF InView
      <4> QED BY <4>1, <4>2, <4>3
    <3>3. Cached(s)' = Cached(s)
      BY <1>1 DEF Cached
    <3>4. NoneWaits(s) => NoneWaits(s)'
      <4>1. \A k \in i + n + 1 .. Len(batch) : k \in i + 1 .. Len(batch)
        BY <1>2
      <4> QED BY <1>1, <1>3, <4>1 DEF NoneWaits
    <3>5. MemoryOK(s)
      BY <2>1
    <3> HIDE DEF i, n
    <3> QED BY <1>1, <2>1, <2>2, <3>1, <3>2, <3>3, <3>4, <3>5 DEF MemoryOK
  <2> QED BY <2>3, <2>4, <2>10, <2>11
<1> QED BY <1>4, <1>5, <1>6 DEF IInv, SlotsOK

LEMMA DecodeHalfKeeps ==
    ASSUME Types, IInv, DecodeHalf
    PROVE  Types' /\ IInv'
<1>1. /\ pc = "decode" /\ pc' = pc /\ view' = [view EXCEPT !.n_batch = view.n_batch \div 2] /\ view.n_batch > 1
      /\ UNCHANGED <<slots, mem, file, at, heads, batch, todo, lost>>
  BY DEF DecodeHalf, building
<1>2. /\ batch \in Seq(Token) /\ at = 0 /\ view \in [i : Nat, n_batch : 1 .. NBatch] /\ view.i < Len(batch)
      /\ todo.sample = {} /\ todo.spec = {} /\ \A t \in Slot : ~Comparing(t)
  BY <1>1, DecodingIs DEF Decoding
<1>3. view' \in [i : Nat, n_batch : 1 .. NBatch] /\ view'.i = view.i
  <2>1. view.n_batch \div 2 \in 1 .. NBatch
    <3>1. view.n_batch \in 1 .. NBatch /\ NBatch \in Nat
      BY <1>2, SlotCacheAssumption
    <3> QED BY <1>1, <3>1
  <2> QED BY <1>1, <1>2, <2>1
<1>4. Types'
  BY <1>1, <1>3 DEF Types
<1>5. Rest' = Rest /\ \A t \in Slot : ~Comparing(t)' /\ RoomOK(t)'
  BY <1>1, <1>2, <1>3 DEF Rest, Comparing, RoomOK
<1>6. PlaceOK' /\ BatchOK' /\ FileOK'
  BY <1>1, <1>2, <1>3 DEF IInv, PlaceOK, BatchOK, FileOK, Filling, Decoding
<1>7. ASSUME NEW t \in Slot
      PROVE  SlotOK(t)' /\ OutputOK(t)' /\ ReuseOK(t)' /\ MemoryOK(t)'
  BY <1>1, <1>2, <1>5, FrameSame DEF IInv, SlotsOK
<1> QED BY <1>4, <1>5, <1>6, <1>7 DEF IInv, SlotsOK

LEMMA DecodeFailsKeeps ==
    ASSUME Types, IInv, DecodeFails
    PROVE  Types' /\ IInv'
<1> DEFINE i == view.i
           rest == SubSeq(batch, i + 1, Len(batch))
<1>1. /\ pc = "decode" /\ pc' = "idle" /\ batch' = <<>> /\ view' = NoView /\ todo' = NoTodo
      /\ slots' = [s \in Slot |-> Released(slots[s])]
      /\ lost' = lost \cup {t.slot : t \in Range(rest)}
      /\ UNCHANGED <<file, at, heads>>
  BY DEF DecodeFails, Finish, building
<1>2. PICK n \in 0 .. Size - 1 : mem' = Decoded(mem, SubSeq(InView, 1, n))
  BY DEF DecodeFails
<1>3. /\ batch \in Seq(Token) /\ Len(batch) \in Nat /\ at = 0
      /\ i \in Nat /\ i < Len(batch) /\ Size \in Nat /\ Size > 0 /\ i + Size <= Len(batch)
      /\ InView \in Seq(Token) /\ Len(InView) = Size /\ \A k \in 1 .. Size : InView[k] = batch[i + k]
      /\ \A t \in Slot : ~Comparing(t)
  BY <1>1, DecodingIs DEF Decoding
<1>4. rest \in Seq(Token) /\ Len(rest) = Len(batch) - i /\ \A k \in 1 .. Len(batch) - i : rest[k] = batch[i + k]
  <2> DEFINE l == Len(batch) - i
  <2>1. l \in Nat /\ i + l = Len(batch) /\ i + l <= Len(batch)
    BY <1>3
  <2> HIDE DEF l, i
  <2>2. /\ SubSeq(batch, i + 1, i + l) \in Seq(Token) /\ Len(SubSeq(batch, i + 1, i + l)) = l
        /\ \A k \in 1 .. l : SubSeq(batch, i + 1, i + l)[k] = batch[i + k]
    BY SMTT(30), <1>3, <2>1, SliceIs
  <2>3. rest = SubSeq(batch, i + 1, i + l)
    BY <2>1 DEF rest
  <2> HIDE DEF rest
  <2> QED BY <2>2, <2>3 DEF l
<1> HIDE DEF rest
<1>5. Range(rest) = {rest[k] : k \in 1 .. Len(batch) - i}
  BY <1>4 DEF Range
<1>6. lost' \subseteq Slot
  <2>1. \A t \in Range(rest) : t \in Token
    BY <1>4, <1>5
  <2>2. \A t \in Range(rest) : t.slot \in Slot
    BY <2>1 DEF Token
  <2> QED BY <1>1, <2>2 DEF Types
<1>7. ASSUME NEW s \in Slot, s \notin lost', NEW k \in i + 1 .. Len(batch)
      PROVE  batch[k].slot # s
  <2>1. PICK j \in 1 .. Len(batch) - i : k = i + j
    <3>1. k - i \in 1 .. Len(batch) - i /\ k = i + (k - i)
      BY <1>3
    <3> QED BY <3>1
  <2>2. rest[j] = batch[k] /\ rest[j] \in Range(rest)
    BY <1>4, <1>5, <2>1
  <2> QED BY <1>1, <1>7, <2>2
<1>8. SubSeq(InView, 1, n) \in Seq(Token) /\ Len(SubSeq(InView, 1, n)) = n
      /\ \A k \in 1 .. n : SubSeq(InView, 1, n)[k] = InView[k]
  <2>1. n \in Nat /\ n <= Size
    BY <1>3
  <2>2. 0 + n <= Len(InView) /\ 0 + 1 = 1 /\ 0 + n = n /\ 0 \in Nat /\ \A k \in 1 .. n : 0 + k = k
    BY <1>3, <2>1
  <2>3. /\ SubSeq(InView, 0 + 1, 0 + n) \in Seq(Token) /\ Len(SubSeq(InView, 0 + 1, 0 + n)) = n
        /\ \A k \in 1 .. n : SubSeq(InView, 0 + 1, 0 + n)[k] = InView[0 + k]
    BY <1>3, <2>1, <2>2, SliceIs
  <2> QED BY <2>2, <2>3
<1>9. Types'
  <2>1. mem' \in [Slot -> SUBSET Entry]
    BY <1>2, <1>8, DecodedIs
  <2>2. slots' \in [Slot -> SlotType]
    BY <1>1, SlotIs, ReleasedIs
  <2>3. view' \in [i : Nat, n_batch : 1 .. NBatch] /\ todo' \in [sample : SUBSET Slot, spec : SUBSET Slot]
    BY <1>1, SlotCacheAssumption DEF NoView, NoTodo
  <2>4. batch' \in Seq(Token)
    BY <1>1
  <2> QED BY <1>1, <1>6, <2>1, <2>2, <2>3, <2>4 DEF Types
<1>10. PlaceOK' /\ BatchOK' /\ FileOK'
  <2>1. Len(batch') = 0 /\ 0 <= NBatch + Cardinality(Slot)
    BY <1>1, SlotCacheAssumption, SlotsAre
  <2> QED BY <1>1, <1>3, <2>1 DEF IInv, PlaceOK, BatchOK, FileOK, Filling, Decoding, NoTodo
<1>11. ASSUME NEW s \in Slot
       PROVE  SlotOK(s)' /\ RoomOK(s)' /\ OutputOK(s)' /\ ReuseOK(s)' /\ MemoryOK(s)'
  <2>1. SlotOK(s) /\ MemoryOK(s) /\ ~Comparing(s)
    BY <1>3 DEF IInv, SlotsOK
  <2>2. slots'[s].state = "idle" /\ slots'[s].n_past = 0 /\ slots'[s].cache = slots[s].cache
    BY <1>1, SlotIs, ReleasedIs
  <2>3. Len(slots[s].cache) < NCtx /\ ~Comparing(s)'
    BY <1>1, <2>1 DEF SlotOK, Comparing
  <2>4. ASSUME s \notin lost', slots[s].cache # <<>>
        PROVE  Cached(s)' = mem'[s] \cup Waiting(s)'
    <3>1. Cached(s)' = Cached(s)
      BY <2>2 DEF Cached
    <3>2. Cached(s) = mem[s] \cup Waiting(s)
      BY <1>1, <2>1, <2>4 DEF MemoryOK
    <3>3. Rest = i + 1
      BY <1>1 DEF Rest
    <3>4. Waiting(s) = {}
      BY <1>7, <2>4, <3>3 DEF Waiting
    <3>5. Waiting(s)' = {}
      <4>1. Len(batch') = 0 /\ Rest' = 1
        BY <1>1 DEF Rest, NoView
      <4> QED BY <4>1 DEF Waiting
    <3>6. Left(SubSeq(InView, 1, n), 1, s) = {}
      <4>1. ASSUME NEW k \in 1 .. n
            PROVE  SubSeq(InView, 1, n)[k].slot # s
        <5>1. k \in 1 .. Size /\ i + k \in i + 1 .. Len(batch)
          BY <1>3
        <5> QED BY <1>3, <1>7, <1>8, <2>4, <5>1
      <4> DEFINE x == SubSeq(InView, 1, n)
      <4>2. x \in Seq(Token) /\ \A k \in 1 .. Len(x) : x[k].slot # s
        BY <1>8, <4>1
      <4> HIDE DEF x
      <4>3. Left(x, 1, s) = {}
        BY <4>2, LeftIs
      <4> QED BY <4>3 DEF x
    <3>7. mem'[s] = mem[s]
      BY <1>2, <1>8, <3>6, DecodedIs
    <3> QED BY <3>1, <3>2, <3>4, <3>5, <3>7
  <2>5. s \notin todo'.sample /\ s \notin todo'.spec
    BY <1>1 DEF NoTodo
  <2> QED BY <2>2, <2>3, <2>4, <2>5, Inactive
<1> QED BY <1>9, <1>10, <1>11 DEF IInv, SlotsOK

\* A step that samples or speculates for the slot s.
LEMMA SamplingFrame ==
    ASSUME Types, IInv, pc \in {"sample", "speculate"}, NEW s \in Slot,
           UNCHANGED <<file, pc, at, heads, batch, view>>,
           slots' \in [Slot -> SlotType], mem' \in [Slot -> SUBSET Entry], lost' \subseteq Slot,
           \A t \in Slot : t # s => slots'[t] = slots[t] /\ mem'[t] = mem[t] /\ (t \in lost' <=> t \in lost),
           todo' = [todo EXCEPT !.sample = todo.sample \ {s}] \/ todo' = [todo EXCEPT !.spec = todo.spec \ {s}],
           pc = "sample" => s \notin todo'.sample,
           pc = "speculate" => s \notin todo'.spec
    PROVE  /\ Types' /\ PlaceOK' /\ BatchOK' /\ FileOK' /\ Rest' = Rest
           /\ s \notin todo'.sample /\ s \notin todo'.spec
           /\ \A t \in Slot : ~Comparing(t) /\ ~Comparing(t)' /\ RoomOK(t)'
           /\ \A t \in Slot : t # s => SlotOK(t)' /\ OutputOK(t)' /\ ReuseOK(t)' /\ MemoryOK(t)'
<1>1. todo \in [sample : SUBSET Slot, spec : SUBSET Slot]
  BY DEF Types
<1>2. /\ todo' \in [sample : SUBSET Slot, spec : SUBSET Slot]
      /\ todo'.sample \subseteq todo.sample /\ todo'.spec \subseteq todo.spec
      /\ \A t \in Slot : t # s => (t \in todo'.sample <=> t \in todo.sample)
  BY <1>1
<1>3. /\ pc # "sample" => todo.sample = {}
      /\ pc # "speculate" => todo.spec = {}
      /\ \A t \in Slot : ~Comparing(t)
  BY DecodingIs DEF Decoding
<1>4. s \notin todo'.sample /\ s \notin todo'.spec
  BY <1>2, <1>3
<1>5. Types'
  BY <1>2 DEF Types
<1>6. PlaceOK' /\ BatchOK' /\ FileOK'
  BY <1>2, <1>3 DEF IInv, PlaceOK, BatchOK, FileOK, Filling, Decoding
<1>7. Rest' = Rest /\ \A t \in Slot : ~Comparing(t)' /\ RoomOK(t)'
  BY DEF Rest, Size, Comparing, RoomOK
<1>8. ASSUME NEW t \in Slot, t # s
      PROVE  SlotOK(t)' /\ OutputOK(t)' /\ ReuseOK(t)' /\ MemoryOK(t)'
  <2>1. SlotOK(t) /\ OutputOK(t) /\ ReuseOK(t) /\ MemoryOK(t)
    BY DEF IInv, SlotsOK
  <2>2. t \in todo'.spec => slots[t].state = "generating" /\ slots[t].n_past + 2 <= NCtx
    BY <1>2, <2>1 DEF OutputOK
  <2>3. t \in todo'.sample <=> t \in todo.sample
    BY <1>2, <1>8
  <2> QED BY <1>3, <1>7, <1>8, <2>1, <2>2, <2>3, FrameSame DEF IInv
<1> QED BY <1>3, <1>4, <1>5, <1>6, <1>7, <1>8

\* A slot to be sampled: its last token is in the part of the batch that has been
\* decoded, and no other token of it is in the rest.
LEMMA SampledIs ==
    ASSUME Types, IInv, pc = "sample", NEW s \in Slot, s \in todo.sample
    PROVE  /\ HasOutput(s) /\ Active(s) /\ slots[s].i_batch \in Nat /\ slots[s].i_batch + 1 <= view.i + Size
           /\ s \notin lost =>
                 /\ batch[slots[s].i_batch + 1] =
                       [slot |-> s, pos |-> slots[s].n_past - 1, tok |-> slots[s].cache[Len(slots[s].cache)]]
                 /\ NoneWaits(s)
<1>1. SlotOK(s) /\ OutputOK(s) /\ MemoryOK(s)
  BY DEF IInv, SlotsOK
<1>2. /\ batch \in Seq(Token) /\ Len(batch) \in Nat /\ view.i \in Nat /\ Size \in Nat /\ view.i + Size <= Len(batch)
      /\ Rest = view.i + Size + 1
  BY DecodingIs DEF Decoding, Rest
<1>3. HasOutput(s) /\ slots[s].i_batch + 1 <= view.i + Size /\ slots[s].i_batch + 1 \in view.i + 1 .. Len(batch)
  BY <1>1 DEF OutputOK
<1>4. Active(s)
  BY <1>3 DEF HasOutput, Active
<1>5. slots[s].i_batch \in Int
  BY SlotIs
<1>6. slots[s].i_batch \in Nat
  BY <1>2, <1>3, <1>5
<1>7. ASSUME s \notin lost
      PROVE  /\ batch[slots[s].i_batch + 1] =
                   [slot |-> s, pos |-> slots[s].n_past - 1, tok |-> slots[s].cache[Len(slots[s].cache)]]
             /\ NoneWaits(s)
  <2>1. /\ batch[slots[s].i_batch + 1] =
              [slot |-> s, pos |-> slots[s].n_past - 1, tok |-> slots[s].cache[Len(slots[s].cache)]]
        /\ \A k \in slots[s].i_batch + 2 .. Len(batch) : batch[k].slot # s
    BY <1>1, <1>3, <1>7 DEF MemoryOK
  <2>2. \A k \in Rest .. Len(batch) : k \in slots[s].i_batch + 2 .. Len(batch)
    <3> DEFINE r == Rest
               j == slots[s].i_batch
    <3>1. r \in Nat /\ j \in Nat /\ j + 2 <= r
      <4> DEFINE i == view.i
                 z == Size
      <4>1. i \in Nat /\ z \in Nat /\ r = i + z + 1 /\ j \in Nat /\ j + 1 <= i + z
        BY <1>2, <1>3, <1>6
      <4> HIDE DEF i, z, r, j
      <4> QED BY <4>1
    <3> HIDE DEF r, j
    <3>2. \A k \in r .. Len(batch) : k \in j + 2 .. Len(batch)
      BY <1>2, <3>1
    <3> QED BY <3>2 DEF r, j
  <2> QED BY <2>1, <2>2 DEF NoneWaits
<1> QED BY <1>3, <1>4, <1>6, <1>7

LEMMA SampleKeeps ==
    ASSUME Types, IInv, NEW s \in todo.sample, NEW tok \in Tokens, NEW goes_on \in BOOLEAN, Sample(s, tok, goes_on)
    PROVE  Types' /\ IInv'
<1> DEFINE sl == slots[s]
           go == [sl EXCEPT !.sampled = tok, !.i_batch = -1, !.state = "generating"]
           new == IF goes_on THEN go ELSE Released(go)
<1>1. s \in Slot
  BY DEF Types
<1>2. /\ pc = "sample" /\ slots' = [slots EXCEPT ![s] = new]
      /\ todo' = [todo EXCEPT !.sample = todo.sample \ {s}]
      /\ UNCHANGED <<mem, file, pc, at, heads, batch, view, lost>>
  BY DEF Sample, building
<1>3. SlotOK(s) /\ MemoryOK(s) /\ HasOutput(s) /\ Active(s)
  BY <1>1, <1>2, SampledIs DEF IInv, SlotsOK
<1>4. sl \in SlotType /\ sl.cache \in Seq(Nat)
  BY <1>1, SlotIs
<1>5. /\ go \in SlotType /\ go.sampled = tok /\ go.i_batch = -1 /\ go.state = "generating" /\ go.cache = sl.cache
      /\ go.n_past = sl.n_past /\ go.n_keep = sl.n_keep /\ go.prompt = sl.prompt
  <2>1. tok \in Nat /\ -1 \in Int /\ "generating" \in SlotState
    BY SlotCacheAssumption DEF SlotState
  <2> HIDE DEF sl
  <2>2. go \in SlotType
    BY <1>4, <2>1 DEF SlotType
  <2>3. /\ go.sampled = tok /\ go.i_batch = -1 /\ go.state = "generating" /\ go.cache = sl.cache
        /\ go.n_past = sl.n_past /\ go.n_keep = sl.n_keep /\ go.prompt = sl.prompt
    BY <1>4 DEF SlotType
  <2> QED BY <2>2, <2>3
<1> HIDE DEF go
<1>6. new \in SlotType /\ new.cache = sl.cache
  BY <1>5, ReleasedIs
<1>7. /\ slots'[s] = new /\ slots' \in [Slot -> SlotType]
      /\ \A t \in Slot : t # s => slots'[t] = slots[t]
  <2> HIDE DEF new
  <2> QED BY <1>1, <1>2, <1>6 DEF Types
<1>8. /\ Types' /\ PlaceOK' /\ BatchOK' /\ FileOK' /\ Rest' = Rest
      /\ s \notin todo'.sample /\ s \notin todo'.spec
      /\ \A t \in Slot : ~Comparing(t) /\ ~Comparing(t)' /\ RoomOK(t)'
      /\ \A t \in Slot : t # s => SlotOK(t)' /\ OutputOK(t)' /\ ReuseOK(t)' /\ MemoryOK(t)'
  <2>1. mem' \in [Slot -> SUBSET Entry] /\ lost' \subseteq Slot
    BY <1>2 DEF Types
  <2>2. s \notin todo'.sample
    BY <1>2 DEF Types
  <2>3. \A t \in Slot : t # s => slots'[t] = slots[t] /\ mem'[t] = mem[t] /\ (t \in lost' <=> t \in lost)
    BY <1>2, <1>7
  <2> QED BY <1>1, <1>2, <1>7, <2>1, <2>2, <2>3, SamplingFrame
<1>9. Cached(s)' = Cached(s) /\ Waiting(s)' = Waiting(s) /\ slots'[s].cache = sl.cache
  <2>1. slots'[s].cache = sl.cache
    BY <1>6, <1>7
  <2> QED BY <1>1, <1>2, <1>8, <2>1, WaitingIs DEF Cached
<1>10. s \notin lost => Cached(s) = mem[s] \cup Waiting(s)
  BY <1>3, <1>8, <1>1 DEF MemoryOK
<1>11. Len(sl.cache) < NCtx
  BY <1>3 DEF SlotOK
<1>12. CASE goes_on
  <2>1. /\ slots'[s].state = "generating" /\ slots'[s].i_batch = -1 /\ slots'[s].cache = sl.cache
        /\ slots'[s].n_past = sl.n_past /\ slots'[s].n_keep = sl.n_keep /\ slots'[s].sampled = tok
    BY <1>5, <1>7, <1>12
  <2>2. ~HasOutput(s)' /\ ~Comparing(s)'
    BY <1>1, <1>8, <2>1 DEF HasOutput
  <2>3. SlotOK(s)'
    <3>1. sl.n_past = Len(sl.cache) /\ sl.n_past < NCtx /\ sl.n_keep \in 0 .. NCtx - 4
      BY <1>1, <1>3, <1>8 DEF SlotOK
    <3> QED BY <1>11, <2>1, <2>2, <3>1 DEF SlotOK, Active
  <2>4. OutputOK(s)' /\ ReuseOK(s)'
    BY <1>8, <2>2 DEF OutputOK, ReuseOK
  <2>5. MemoryOK(s)'
    <3>1. s \notin lost => NoneWaits(s)
      BY <1>1, <1>2, SampledIs
    <3>2. NoneWaits(s)' <=> NoneWaits(s)
      BY <1>2, <1>8 DEF NoneWaits
    <3> QED BY <1>2, <1>9, <1>10, <2>2, <3>1, <3>2 DEF MemoryOK
  <2> QED BY <1>1, <1>8, <2>3, <2>4, <2>5 DEF IInv, SlotsOK
<1>13. CASE ~goes_on
  <2>1. slots'[s].state = "idle" /\ slots'[s].n_past = 0
    BY <1>5, <1>7, <1>13, ReleasedIs
  <2>2. SlotOK(s)' /\ OutputOK(s)' /\ ReuseOK(s)' /\ MemoryOK(s)' /\ RoomOK(s)'
    BY <1>1, <1>2, <1>8, <1>9, <1>10, <1>11, <2>1, Inactive
  <2> QED BY <1>1, <1>8, <2>2 DEF IInv, SlotsOK
<1> QED BY <1>12, <1>13

LEMMA BeginSpeculationKeeps ==
    ASSUME Types, IInv, BeginSpeculation
    PROVE  Types' /\ IInv'
<1>1. /\ pc = "sample" /\ pc' = "speculate" /\ todo.sample = {}
      /\ todo' = [todo EXCEPT !.spec = {s \in Slot : CanSpeculate(s)}]
      /\ UNCHANGED <<slots, mem, file, at, heads, batch, view, lost>>
  BY DEF BeginSpeculation, building
<1>2. /\ todo' \in [sample : SUBSET Slot, spec : SUBSET Slot] /\ todo'.sample = {}
      /\ todo'.spec = {s \in Slot : CanSpeculate(s)}
  BY <1>1 DEF Types
<1>3. /\ at = 0 /\ view.i < Len(batch) /\ \A t \in Slot : ~Comparing(t)
  BY <1>1, DecodingIs DEF Decoding
<1>4. Types'
  BY <1>1, <1>2 DEF Types
<1>5. PlaceOK' /\ BatchOK' /\ FileOK'
  BY <1>1, <1>2, <1>3 DEF IInv, PlaceOK, BatchOK, FileOK, Filling, Decoding
<1>6. Rest' = Rest /\ \A t \in Slot : ~Comparing(t)' /\ RoomOK(t)'
  BY <1>1 DEF Rest, Size, Comparing, RoomOK
<1>7. ASSUME NEW t \in Slot
      PROVE  SlotOK(t)' /\ OutputOK(t)' /\ ReuseOK(t)' /\ MemoryOK(t)'
  <2>1. t \in todo'.spec => slots[t].state = "generating" /\ slots[t].n_past + 2 <= NCtx
    <3>1. slots[t].n_past \in Nat /\ NCtx \in Nat
      BY SlotIs, SlotCacheAssumption
    <3> QED BY <1>2, <3>1 DEF CanSpeculate
  <2> QED BY <1>1, <1>2, <1>3, <1>6, <2>1, FrameSame DEF IInv, SlotsOK
<1> QED BY <1>4, <1>5, <1>6, <1>7 DEF IInv, SlotsOK

LEMMA SkipDraftKeeps ==
    ASSUME Types, IInv, NEW s \in todo.spec, SkipDraft(s)
    PROVE  Types' /\ IInv'
<1>1. s \in Slot
  BY DEF Types
<1>2. /\ pc = "speculate" /\ todo' = [todo EXCEPT !.spec = todo.spec \ {s}]
      /\ UNCHANGED <<slots, mem, file, pc, at, heads, batch, view, lost>>
  BY DEF SkipDraft, building
<1>3. s \notin todo'.spec
  BY <1>2 DEF Types
<1>4. /\ Types' /\ PlaceOK' /\ BatchOK' /\ FileOK' /\ Rest' = Rest
      /\ s \notin todo'.sample /\ s \notin todo'.spec
      /\ \A t \in Slot : ~Comparing(t) /\ ~Comparing(t)' /\ RoomOK(t)'
      /\ \A t \in Slot : t # s => SlotOK(t)' /\ OutputOK(t)' /\ ReuseOK(t)' /\ MemoryOK(t)'
  <2>1. mem' \in [Slot -> SUBSET Entry] /\ lost' \subseteq Slot /\ slots' \in [Slot -> SlotType]
    BY <1>2 DEF Types
  <2>2. \A t \in Slot : t # s => slots'[t] = slots[t] /\ mem'[t] = mem[t] /\ (t \in lost' <=> t \in lost)
    BY <1>2
  <2> QED BY <1>1, <1>2, <1>3, <2>1, <2>2, SamplingFrame
<1>5. SlotOK(s)' /\ OutputOK(s)' /\ ReuseOK(s)' /\ MemoryOK(s)'
  <2>1. todo.sample = {}
    BY <1>2, DecodingIs DEF Decoding
  <2>2. s \notin todo.sample /\ s \notin todo'.sample
    BY <1>4, <2>1
  <2> QED BY <1>1, <1>2, <1>4, <2>2, FrameSame DEF IInv, SlotsOK
<1> QED BY <1>1, <1>4, <1>5 DEF IInv, SlotsOK

LEMMA NextViewKeeps ==
    ASSUME Types, IInv, NextView
    PROVE  Types' /\ IInv'
<1> DEFINE i == view.i + Size
<1>1. /\ pc = "speculate" /\ todo.spec = {}
      /\ UNCHANGED <<slots, mem, file, at, heads, lost>>
  BY DEF NextView, building
<1>2. /\ batch \in Seq(Token) /\ Len(batch) \in Nat /\ at = 0 /\ i \in Nat /\ i <= Len(batch)
      /\ todo.sample = {} /\ \A t \in Slot : ~Comparing(t) /\ Rest = i + 1
  <2>1. Rest = i + 1
    BY <1>1 DEF Rest
  <2> QED BY <1>1, <2>1, DecodingIs DEF Decoding
<1>3. CASE i < Len(batch)
  <2>1. view' = [NoView EXCEPT !.i = i] /\ pc' = "decode" /\ UNCHANGED <<batch, todo>>
    BY <1>3 DEF NextView
  <2>2. view' \in [i : Nat, n_batch : 1 .. NBatch] /\ view'.i = i
    <3>1. NBatch \in 1 .. NBatch
      BY SlotCacheAssumption
    <3> HIDE DEF i
    <3> QED BY <1>2, <2>1, <3>1 DEF NoView
  <2>3. Types'
    BY <1>1, <2>1, <2>2 DEF Types
  <2>4. Rest' = Rest /\ \A t \in Slot : ~Comparing(t)' /\ RoomOK(t)'
    BY <1>1, <1>2, <2>1, <2>2 DEF Rest, Comparing, RoomOK
  <2>5. PlaceOK' /\ BatchOK' /\ FileOK'
    BY <1>1, <1>2, <1>3, <2>1, <2>2 DEF IInv, PlaceOK, BatchOK, FileOK, Filling, Decoding
  <2>6. ASSUME NEW t \in Slot
        PROVE  SlotOK(t)' /\ OutputOK(t)' /\ ReuseOK(t)' /\ MemoryOK(t)'
    BY <1>1, <1>2, <2>1, <2>4, FrameSame DEF IInv, SlotsOK
  <2> QED BY <2>3, <2>4, <2>5, <2>6 DEF IInv, SlotsOK
<1>4. CASE ~(i < Len(batch))
  <2>1. pc' = "idle" /\ batch' = <<>> /\ view' = NoView /\ todo' = NoTodo
    BY <1>4 DEF NextView, Finish
  <2>2. Types'
    <3>1. view' \in [i : Nat, n_batch : 1 .. NBatch] /\ todo' \in [sample : SUBSET Slot, spec : SUBSET Slot]
      BY <2>1, SlotCacheAssumption DEF NoView, NoTodo
    <3>2. batch' \in Seq(Token)
      BY <2>1
    <3> QED BY <1>1, <3>1, <3>2 DEF Types
  <2>3. PlaceOK' /\ BatchOK' /\ FileOK'
    <3>1. Len(batch') = 0 /\ 0 <= NBatch + Cardinality(Slot)
      BY <2>1, SlotCacheAssumption, SlotsAre
    <3> QED BY <1>1, <1>2, <2>1, <3>1 DEF IInv, PlaceOK, BatchOK, FileOK, Filling, Decoding, NoTodo
  <2>4. ASSUME NEW t \in Slot
        PROVE  SlotOK(t)' /\ RoomOK(t)' /\ OutputOK(t)' /\ ReuseOK(t)' /\ MemoryOK(t)'
    <3>1. SlotOK(t) /\ OutputOK(t) /\ MemoryOK(t) /\ ~Comparing(t)
      BY <1>2 DEF IInv, SlotsOK
    <3>2. ~Comparing(t)' /\ (HasOutput(t)' <=> HasOutput(t)) /\ (Active(t)' <=> Active(t))
      BY <1>1, <2>1 DEF Comparing, HasOutput, Active
    <3>3. ~HasOutput(t)
      <4>1. HasOutput(t) => slots[t].i_batch + 1 \in i + 1 .. Len(batch)
        BY <1>2, <3>1 DEF OutputOK
      <4>2. ~(i + 1 <= Len(batch)) /\ slots[t].i_batch \in Int
        BY <1>2, <1>4, SlotIs
      <4> HIDE DEF i
      <4> QED BY <1>2, <4>1, <4>2
    <3>4. SlotOK(t)'
      BY <1>1, <3>1, <3>2 DEF SlotOK
    <3>5. t \notin todo'.sample /\ t \notin todo'.spec
      BY <2>1 DEF NoTodo
    <3>6. RoomOK(t)' /\ ReuseOK(t)' /\ OutputOK(t)'
      BY <2>1, <3>2, <3>3, <3>5 DEF RoomOK, ReuseOK, OutputOK
    <3>7. Waiting(t) = {} /\ Waiting(t)' = {} /\ NoneWaits(t)'
      <4>1. Len(batch') = 0 /\ Rest' = 1 /\ \A k \in Rest .. Len(batch) : FALSE
        BY <1>2, <1>4, <2>1 DEF Rest, NoView
      <4>2. \A k \in Rest' .. Len(batch') : FALSE
        BY <4>1
      <4>3. Waiting(t) = {}
        BY <4>1 DEF Waiting
      <4> QED BY <4>2, <4>3 DEF Waiting, NoneWaits
    <3>8. Cached(t)' = Cached(t)
      BY <1>1 DEF Cached
    <3>9. MemoryOK(t)'
      BY <1>1, <3>1, <3>2, <3>3, <3>7, <3>8 DEF MemoryOK
    <3> QED BY <3>4, <3>6, <3>9
  <2> QED BY <2>2, <2>3, <2>4 DEF IInv, SlotsOK
<1> QED BY <1>3, <1>4

\* The draft of a slot, after its last token.
LEMMA DraftIs ==
    ASSUME Types, NEW s \in Slot, slots[s].n_past + 2 <= NCtx, NEW draft \in Drafts(s)
    PROVE  /\ draft \in Seq(Nat) /\ Len(draft) \in Nat /\ slots[s].n_past + Len(draft) + 2 <= NCtx
           /\ <<slots[s].sampled>> \o draft \in Seq(Nat)
           /\ Len(<<slots[s].sampled>> \o draft) = Len(draft) + 1
<1>1. slots[s].n_past \in Nat /\ slots[s].sampled \in Nat /\ NCtx \in Nat /\ MaxDraft \in Nat /\ Tokens \subseteq Nat
  BY SlotIs, SlotCacheAssumption
<1>2. PICK l \in 0 .. Least(MaxDraft, NCtx - slots[s].n_past - 2) : draft \in [1 .. l -> Tokens]
  BY DEF Drafts
<1>3. l \in Nat /\ slots[s].n_past + l + 2 <= NCtx
  BY SMTT(30), <1>1, <1>2 DEF Least
<1>4. draft \in [1 .. l -> Nat]
  BY <1>1, <1>2
<1>5. draft \in Seq(Nat) /\ Len(draft) = l
  BY <1>3, <1>4
<1> DEFINE x == <<slots[s].sampled>>
<1>6. x \in Seq(Nat) /\ Len(x) = 1
  BY <1>1
<1> HIDE DEF x
<1>7. x \o draft \in Seq(Nat) /\ Len(x \o draft) = Len(draft) + 1
  <2>1. x \o draft \in Seq(Nat) /\ Len(x \o draft) = Len(x) + Len(draft)
    BY <1>5, <1>6, EntriesConcat
  <2>2. 1 + l = l + 1
    BY <1>3
  <2> QED BY <1>5, <1>6, <2>1, <2>2
<1> QED BY <1>3, <1>5, <1>7 DEF x

LEMMA SpeculateKeeps ==
    ASSUME Types, IInv, NEW s \in todo.spec, NEW draft \in Drafts(s), NEW tok \in Tokens, NEW goes_on \in BOOLEAN,
           NEW n \in 0 .. Len(draft), NEW ok \in BOOLEAN, Speculate(s, draft, n, tok, goes_on, ok)
    PROVE  Types' /\ IInv'
<1> DEFINE sl == slots[s]
           p == sl.n_past
           all == <<sl.sampled>> \o draft
           ids == Append(SubSeq(draft, 1, n), tok)
           toks == [k \in DOMAIN all |-> [slot |-> s, pos |-> p + k - 1, tok |-> all[k]]]
           added == IF ok THEN toks ELSE <<>>
           dec == Decoded(mem, added)
           m == SeqRm(dec[s], p + Len(ids), -1)
           c == SubSeq(all, 1, n + 1)
           q == sl.cache \o c
           go == [sl EXCEPT !.n_past = p + Len(ids), !.sampled = tok, !.cache = q]
           new == IF goes_on THEN go ELSE Released(go)
<1>1. s \in Slot
  BY DEF Types
<1>2. /\ pc = "speculate" /\ mem' = [dec EXCEPT ![s] = m]
      /\ todo' = [todo EXCEPT !.spec = todo.spec \ {s}]
      /\ lost' = IF ok /\ sl.i_batch = -1 THEN lost ELSE lost \cup {s}
      /\ UNCHANGED <<file, pc, at, heads, batch, view>>
  BY DEF Speculate, building
<1>3. slots' = [slots EXCEPT ![s] = new]
  BY DEF Speculate
<1>4. SlotOK(s) /\ OutputOK(s) /\ MemoryOK(s) /\ sl.state = "generating" /\ p + 2 <= NCtx
  BY <1>1 DEF IInv, SlotsOK, OutputOK
<1>5. /\ sl \in SlotType /\ sl.cache \in Seq(Nat) /\ p \in Nat /\ sl.sampled \in Nat /\ mem[s] \in SUBSET Entry
      /\ Len(sl.cache) \in Nat
  BY <1>1, SlotIs
<1>6. ~Comparing(s) /\ p = Len(sl.cache) /\ sl.n_keep \in 0 .. NCtx - 4
  <2>1. ~Comparing(s)
    BY <1>1, <1>2, DecodingIs DEF Decoding
  <2> QED BY <1>4, <2>1 DEF SlotOK, Active
<1>7. /\ draft \in Seq(Nat) /\ Len(draft) \in Nat /\ p + Len(draft) + 2 <= NCtx
      /\ all \in Seq(Nat) /\ Len(all) = Len(draft) + 1
  BY <1>1, <1>4, DraftIs
<1>8. n \in Nat /\ n <= Len(draft) /\ n + 1 \in 0 .. Len(all)
  BY <1>7
<1>9. Len(ids) = n + 1 /\ tok \in Nat
  <2>1. tok \in Nat
    BY SlotCacheAssumption
  <2>2. SubSeq(draft, 1, n) \in Seq(Nat) /\ Len(SubSeq(draft, 1, n)) = n
    BY <1>7, <1>8, EntriesCut
  <2> QED BY <2>1, <2>2, EntriesAppend
<1> HIDE DEF ids
<1>10. c \in Seq(Nat) /\ Len(c) = n + 1 /\ \A k \in 1 .. n + 1 : c[k] = all[k]
  <2> HIDE DEF all
  <2> QED BY <1>7, <1>8, EntriesCut
<1>11. /\ toks \in Seq(Token) /\ Len(toks) = Len(all)
       /\ \A k \in 1 .. Len(all) : toks[k] = [slot |-> s, pos |-> p + k - 1, tok |-> all[k]]
  <2> HIDE DEF all, sl, p
  <2>1. DOMAIN all = 1 .. Len(all) /\ Len(all) \in Nat
    BY <1>7
  <2>2. ASSUME NEW k \in 1 .. Len(all)
        PROVE  [slot |-> s, pos |-> p + k - 1, tok |-> all[k]] \in Token
    <3>1. p + k - 1 \in Nat /\ all[k] \in Nat
      BY SMTT(30), <1>5, <1>7, <2>1
    <3> QED BY <1>1, <3>1 DEF Token
  <2>3. toks \in [1 .. Len(all) -> Token]
    BY <2>1, <2>2
  <2>4. ASSUME NEW l \in Nat, NEW x \in [1 .. l -> Token]
        PROVE  x \in Seq(Token) /\ Len(x) = l
    OBVIOUS
  <2>5. toks \in Seq(Token) /\ Len(toks) = Len(all)
    <3> HIDE DEF toks
    <3> QED BY <2>1, <2>3, <2>4
  <2> QED BY <2>1, <2>5
<1> HIDE DEF toks
<1>12. added \in Seq(Token) /\ \A k \in 1 .. Len(added) : added[k].slot = s
  BY <1>11
<1>13. /\ dec \in [Slot -> SUBSET Entry] /\ \A t \in Slot : dec[t] = mem[t] \cup Left(added, 1, t)
  <2> HIDE DEF added
  <2> QED BY <1>12, DecodedIs
<1>14. \A t \in Slot : t # s => dec[t] = mem[t]
  <2> SUFFICES ASSUME NEW t \in Slot, t # s
               PROVE  dec[t] = mem[t]
    OBVIOUS
  <2> HIDE DEF added, dec
  <2>1. \A k \in 1 .. Len(added) : added[k].slot # t
    BY <1>12
  <2>2. Left(added, 1, t) = {}
    BY <1>12, <2>1, LeftIs
  <2> QED BY <1>13, <2>2
<1> HIDE DEF added, dec
<1>15. m = {e \in dec[s] : e.pos < p + n + 1} /\ m \in SUBSET Entry
  <2>1. m = {e \in dec[s] : e.pos < p + Len(ids)}
    BY DEF SeqRm
  <2>2. p + Len(ids) = p + n + 1
    <3> HIDE DEF p
    <3> QED BY <1>5, <1>8, <1>9
  <2> QED BY <1>1, <1>13, <2>1, <2>2
<1> HIDE DEF m
<1>16. /\ q \in Seq(Nat) /\ Len(q) = p + n + 1
       /\ Entries(q) = Entries(sl.cache) \cup {[pos |-> p + k - 1, tok |-> c[k]] : k \in 1 .. n + 1}
  <2> HIDE DEF c, sl, p
  <2>1. /\ q \in Seq(Nat) /\ Len(q) = Len(sl.cache) + Len(c)
        /\ Entries(q) = Entries(sl.cache) \cup {[pos |-> Len(sl.cache) + k - 1, tok |-> c[k]] : k \in 1 .. Len(c)}
    BY <1>5, <1>10, EntriesConcat
  <2> HIDE DEF q
  <2>2. Len(q) = p + n + 1
    <3>1. Len(q) = p + (n + 1) /\ p \in Nat /\ n \in Nat
      BY <1>5, <1>6, <1>8, <1>10, <2>1
    <3> QED BY <3>1
  <2> QED BY <1>6, <1>10, <2>1, <2>2
<1> HIDE DEF c, q
<1>17. p + n + 1 \in Nat /\ p + n + 1 < NCtx /\ p + Len(ids) = p + n + 1
  <2> HIDE DEF sl, p
  <2> QED BY SMTT(30), <1>5, <1>7, <1>8, <1>9, SlotCacheAssumption
<1>18. /\ go \in SlotType /\ go.sampled = tok /\ go.i_batch = sl.i_batch /\ go.state = "generating" /\ go.cache = q
       /\ go.n_past = p + n + 1 /\ go.n_keep = sl.n_keep
  <2> DEFINE l == p + Len(ids)
  <2>1. l \in Nat /\ l = p + n + 1
    BY <1>17
  <2> HIDE DEF sl, l
  <2>2. go \in SlotType
    BY <1>5, <1>9, <1>16, <2>1 DEF SlotType, l
  <2>3. /\ go.sampled = tok /\ go.i_batch = sl.i_batch /\ go.state = "generating" /\ go.cache = q
        /\ go.n_past = l /\ go.n_keep = sl.n_keep
    BY <1>4, <1>5 DEF SlotType, l
  <2> QED BY <2>1, <2>2, <2>3
<1> HIDE DEF go
<1>19. new \in SlotType /\ new.cache = q
  BY <1>18, ReleasedIs
<1>20. /\ slots'[s] = new /\ slots' \in [Slot -> SlotType]
       /\ \A t \in Slot : t # s => slots'[t] = slots[t]
  <2> HIDE DEF new
  <2> QED BY <1>1, <1>3, <1>19 DEF Types
<1>21. /\ mem' \in [Slot -> SUBSET Entry] /\ mem'[s] = m
       /\ \A t \in Slot : t # s => mem'[t] = mem[t]
  BY <1>1, <1>2, <1>13, <1>14, <1>15
<1>22. /\ Types' /\ PlaceOK' /\ BatchOK' /\ FileOK' /\ Rest' = Rest
       /\ s \notin todo'.sample /\ s \notin todo'.spec
       /\ \A t \in Slot : ~Comparing(t) /\ ~Comparing(t)' /\ RoomOK(t)'
       /\ \A t \in Slot : t # s => SlotOK(t)' /\ OutputOK(t)' /\ ReuseOK(t)' /\ MemoryOK(t)'
  <2>1. lost' \subseteq Slot
    BY <1>1, <1>2 DEF Types
  <2>2. s \notin todo'.spec
    BY <1>2 DEF Types
  <2>3. \A t \in Slot : t # s => slots'[t] = slots[t] /\ mem'[t] = mem[t] /\ (t \in lost' <=> t \in lost)
    BY <1>2, <1>20, <1>21
  <2> QED BY <1>1, <1>2, <1>20, <1>21, <2>1, <2>2, <2>3, SamplingFrame
<1>23. slots'[s].cache = q /\ Len(q) < NCtx
  BY <1>16, <1>17, <1>19, <1>20
<1>24. ASSUME s \notin lost'
       PROVE  s \notin lost /\ NoneWaits(s)' /\ Waiting(s)' = {} /\ Cached(s)' = mem'[s] \cup Waiting(s)'
  <2>1. ok /\ sl.i_batch = -1 /\ s \notin lost
    BY <1>2, <1>24
  <2>2. NoneWaits(s)
    BY <1>4, <2>1 DEF MemoryOK
  <2>3. NoneWaits(s)'
    BY <1>2, <1>22, <2>2 DEF NoneWaits
  <2>4. Waiting(s) = {} /\ Waiting(s)' = {}
    BY <2>2, <2>3 DEF NoneWaits, Waiting
  <2>5. mem[s] = Entries(sl.cache)
    <3>1. Cached(s) = Entries(sl.cache) /\ Active(s)
      BY <1>1, <1>4, <1>5, CachedIs DEF Active
    <3> QED BY <1>4, <1>6, <2>1, <2>4, <3>1 DEF MemoryOK
  <2>6. dec[s] = Entries(sl.cache) \cup {[pos |-> p + k - 1, tok |-> all[k]] : k \in 1 .. Len(all)}
    <3>1. added = toks
      BY <2>1 DEF added
    <3>2. Left(toks, 1, s) = {[pos |-> toks[k].pos, tok |-> toks[k].tok] : k \in 1 .. Len(all)}
      <4>1. {j \in 1 .. Len(toks) : toks[j].slot = s} = 1 .. Len(all)
        BY <1>11
      <4> QED BY <4>1 DEF Left
    <3>3. \A k \in 1 .. Len(all) : toks[k].pos = p + k - 1 /\ toks[k].tok = all[k]
      BY <1>11
    <3> DEFINE T == {[pos |-> toks[k].pos, tok |-> toks[k].tok] : k \in 1 .. Len(all)}
               A == {[pos |-> p + k - 1, tok |-> all[k]] : k \in 1 .. Len(all)}
    <3>4. T = A
      <4> HIDE DEF p, all
      <4> QED BY <3>3
    <3> HIDE DEF T, A
    <3>5. Left(toks, 1, s) = T
      BY <3>2 DEF T
    <3>6. dec[s] = Entries(sl.cache) \cup A
      BY <1>1, <1>13, <2>5, <3>1, <3>4, <3>5
    <3> QED BY <3>6 DEF A
  <2>7. m = Entries(q)
    <3> HIDE DEF p, all, sl
    <3>1. ASSUME NEW e \in m
          PROVE  e \in Entries(q)
      <4>1. e \in dec[s] /\ e.pos < p + n + 1
        BY <1>15
      <4>2. CASE e \in Entries(sl.cache)
        BY <1>16, <4>2
      <4>3. ASSUME NEW k \in 1 .. Len(all), e = [pos |-> p + k - 1, tok |-> all[k]]
            PROVE  e \in Entries(q)
        <5>1. k \in 1 .. n + 1
          BY <1>5, <1>7, <1>8, <4>1, <4>3
        <5> QED BY <1>10, <1>16, <4>3, <5>1
      <4> QED BY <2>6, <4>1, <4>2, <4>3
    <3>2. ASSUME NEW e \in Entries(q)
          PROVE  e \in m
      <4>1. e.pos < p + n + 1
        BY <1>16, EntriesAre
      <4>2. CASE e \in Entries(sl.cache)
        BY <1>15, <2>6, <4>1, <4>2
      <4>3. ASSUME NEW k \in 1 .. n + 1, e = [pos |-> p + k - 1, tok |-> c[k]]
            PROVE  e \in m
        <5>1. k \in 1 .. Len(all) /\ c[k] = all[k]
          BY <1>7, <1>8, <1>10
        <5>2. e \in dec[s]
          BY <2>6, <4>3, <5>1
        <5> QED BY <1>15, <4>1, <5>2
      <4> QED BY <1>16, <4>2, <4>3
    <3> QED BY <3>1, <3>2
  <2>8. Cached(s)' = Entries(q)
    BY <1>1, <1>16, <1>23, CachedIs
  <2> QED BY <1>21, <2>1, <2>3, <2>4, <2>7, <2>8
<1>25. CASE goes_on
  <2>1. /\ slots'[s].state = "generating" /\ slots'[s].i_batch = sl.i_batch
        /\ slots'[s].n_past = p + n + 1 /\ slots'[s].n_keep = sl.n_keep /\ slots'[s].sampled = tok
    BY <1>18, <1>20, <1>25
  <2>2. SlotOK(s)'
    <3>1. slots'[s].n_past < NCtx /\ slots'[s].n_past = Len(slots'[s].cache)
      BY <1>16, <1>17, <1>23, <2>1
    <3> QED BY <1>1, <1>6, <1>22, <1>23, <2>1, <3>1 DEF SlotOK, Active
  <2>3. HasOutput(s)' => HasOutput(s)
    BY <1>4, <2>1 DEF HasOutput
  <2>4. OutputOK(s)'
    <3>1. todo.sample = {}
      BY <1>2, DecodingIs DEF Decoding
    <3>2. HasOutput(s) => sl.i_batch + 1 \in Rest .. Len(batch)
      BY <1>4, <3>1 DEF OutputOK
    <3> QED BY <1>2, <1>22, <2>1, <2>3, <3>2 DEF OutputOK
  <2>5. ReuseOK(s)'
    BY <1>1, <1>22 DEF ReuseOK
  <2>6. MemoryOK(s)'
    <3>1. SUFFICES ASSUME s \notin lost'
                   PROVE  MemoryOK(s)'
      BY DEF MemoryOK
    <3>2. ~HasOutput(s)'
      BY <1>2, <2>1, <3>1 DEF HasOutput
    <3> QED BY <1>24, <3>1, <3>2 DEF MemoryOK
  <2> QED BY <1>1, <1>22, <2>2, <2>4, <2>5, <2>6 DEF IInv, SlotsOK
<1>26. CASE ~goes_on
  <2>1. slots'[s].state = "idle" /\ slots'[s].n_past = 0
    BY <1>18, <1>20, <1>26, ReleasedIs
  <2>2. SlotOK(s)' /\ OutputOK(s)' /\ ReuseOK(s)' /\ MemoryOK(s)' /\ RoomOK(s)'
    BY <1>1, <1>22, <1>23, <1>24, <2>1, Inactive
  <2> QED BY <1>1, <1>22, <2>2 DEF IInv, SlotsOK
<1> QED BY <1>25, <1>26

-----------------------------------------------------------------------------
(* The invariant, and what follows from it.                                *)

LEMMA InitKeeps == Init => Types /\ IInv
<1> SUFFICES ASSUME Init
             PROVE  Types /\ IInv
  OBVIOUS
<1> USE SlotCacheAssumption
<1>1. /\ slots = [s \in Slot |-> NewSlot] /\ mem = [s \in Slot |-> {}]
      /\ file = [cache |-> <<>>, mem |-> {}, lost |-> FALSE]
      /\ pc = "idle" /\ at = 0 /\ heads = NoHeads
      /\ batch = <<>> /\ view = NoView /\ todo = NoTodo /\ lost = {}
  BY DEF Init
<1>2. NewSlot \in SlotType /\ NewSlot.state = "idle" /\ NewSlot.n_past = 0 /\ NewSlot.cache = <<>>
  BY DEF NewSlot, SlotType, SlotState
<1>3. /\ view \in [i : Nat, n_batch : 1 .. NBatch] /\ todo.sample = {} /\ todo.spec = {} /\ Len(batch) = 0
      /\ heads \in [c : Nat, p : Nat] /\ todo \in [sample : SUBSET Slot, spec : SUBSET Slot]
      /\ file \in [cache : Seq(Nat), mem : SUBSET Entry, lost : BOOLEAN] /\ batch \in Seq(Token)
  BY <1>1 DEF NoView, NoTodo, NoHeads
<1>4. Types
  <2> HIDE SlotCacheAssumption
  <2>1. slots \in [Slot -> SlotType] /\ mem \in [Slot -> SUBSET Entry]
    BY <1>1, <1>2
  <2> QED BY <1>1, <1>3, <2>1 DEF Types
<1>5. PlaceOK /\ BatchOK
  <2>1. 0 <= NBatch + Cardinality(Slot)
    BY SlotsAre
  <2> QED BY <1>1, <1>3, <2>1 DEF PlaceOK, BatchOK, Filling, Decoding
<1>6. FileOK
  BY <1>1 DEF FileOK
<1>7. ASSUME NEW s \in Slot
      PROVE  SlotOK(s) /\ RoomOK(s) /\ OutputOK(s) /\ ReuseOK(s) /\ MemoryOK(s)
  <2>1. slots[s].state = "idle" /\ slots[s].n_past = 0 /\ slots[s].cache = <<>> /\ Len(slots[s].cache) = 0
    BY <1>1, <1>2
  <2>2. ~Active(s) /\ ~HasOutput(s) /\ ~Comparing(s)
    BY <1>1, <2>1 DEF Active, HasOutput, Comparing
  <2> QED BY <1>1, <1>3, <2>1, <2>2 DEF SlotOK, RoomOK, OutputOK, ReuseOK, MemoryOK
<1> QED BY <1>4, <1>5, <1>6, <1>7 DEF IInv, SlotsOK

LEMMA StutterKeeps ==
    ASSUME Types, IInv, UNCHANGED vars
    PROVE  Types' /\ IInv'
<1>1. UNCHANGED <<slots, mem, file, pc, at, heads, batch, view, todo, lost>>
  BY DEF vars, building
<1>2. Types'
  BY <1>1 DEF Types
<1>3. PlaceOK' /\ BatchOK' /\ FileOK'
  BY <1>1 DEF IInv, PlaceOK, BatchOK, FileOK
<1>4. Rest' = Rest /\ Size' = Size
  BY <1>1 DEF Rest, Size
<1>5. ASSUME NEW s \in Slot
      PROVE  SlotOK(s)' /\ RoomOK(s)' /\ OutputOK(s)' /\ ReuseOK(s)' /\ MemoryOK(s)'
  <2>1. SlotOK(s) /\ RoomOK(s) /\ OutputOK(s) /\ ReuseOK(s) /\ MemoryOK(s)
    BY DEF IInv, SlotsOK
  <2>2. /\ Active(s)' = Active(s) /\ HasOutput(s)' = HasOutput(s) /\ Comparing(s)' = Comparing(s)
        /\ NoneWaits(s)' = NoneWaits(s)
    BY <1>1, <1>4 DEF Active, HasOutput, Comparing, NoneWaits
  <2>3. Cached(s)' = Cached(s) /\ Waiting(s)' = Waiting(s)
    BY <1>1, <1>4 DEF Cached, Waiting
  <2>4. SlotOK(s)' /\ RoomOK(s)'
    BY <1>1, <2>1, <2>2 DEF SlotOK, RoomOK
  <2>5. OutputOK(s)'
    BY <1>1, <1>4, <2>1, <2>2 DEF OutputOK
  <2>6. ReuseOK(s)'
    BY <1>1, <2>1, <2>2 DEF ReuseOK, AgreeBelow, AgreeFrom
  <2>7. MemoryOK(s)'
    BY <1>1, <2>1, <2>2, <2>3 DEF MemoryOK
  <2> QED BY <2>4, <2>5, <2>6, <2>7
<1> QED BY <1>2, <1>3, <1>5 DEF IInv, SlotsOK

LEMMA TaskKeeps ==
    ASSUME Types, IInv, NEW s \in Slot, Task(s)
    PROVE  Types' /\ IInv'
<1>1. ASSUME NEW p \in Prompts, NEW lora \in Loras, NEW keep \in NKeep, NEW cached \in BOOLEAN, NEW ok \in BOOLEAN,
             Launch(s, p, lora, keep, cached, ok)
      PROVE  Types' /\ IInv'
  BY <1>1, LaunchKeeps
<1>2. CASE Cancel(s)
  BY <1>2, CancelKeeps
<1>3. CASE Save(s)
  BY <1>3, SaveKeeps
<1>4. ASSUME NEW how \in {"read", "no_room", "no_file"}, Restore(s, how)
      PROVE  Types' /\ IInv'
  BY <1>4, RestoreKeeps
<1>5. CASE Erase(s)
  BY <1>5, EraseKeeps
<1> QED BY <1>1, <1>2, <1>3, <1>4, <1>5 DEF Task

LEMMA ProceedKeeps ==
    ASSUME Types, IInv, Proceed
    PROVE  Types' /\ IInv'
<1>1. CASE ShiftContext \/ AddSampled
  BY <1>1, ShiftContextKeeps, AddSampledKeeps
<1>2. CASE PassOver \/ RefusePrompt \/ StartPrompt \/ FillPrompt
  BY <1>2, PassOverKeeps, RefusePromptKeeps, StartPromptKeeps, FillPromptKeeps
<1>3. CASE SkipCached \/ MoveChunk \/ EndReuse
  BY <1>3, SkipCachedKeeps, MoveChunkKeeps, EndReuseKeeps
<1>4. CASE DecodeSucceeds \/ DecodeHalf \/ DecodeFails
  BY <1>4, DecodeSucceedsKeeps, DecodeHalfKeeps, DecodeFailsKeeps
<1>5. ASSUME NEW s \in todo.sample, NEW tok \in Tokens, NEW goes_on \in BOOLEAN, Sample(s, tok, goes_on)
      PROVE  Types' /\ IInv'
  BY <1>5, SampleKeeps
<1>6. CASE BeginSpeculation
  BY <1>6, BeginSpeculationKeeps
<1>7. ASSUME NEW s \in todo.spec, NEW draft \in Drafts(s), NEW tok \in Tokens, NEW goes_on \in BOOLEAN,
             NEW n \in 0 .. Len(draft), NEW ok \in {TRUE, "compute" \notin Fails},
             Speculate(s, draft, n, tok, goes_on, ok)
      PROVE  Types' /\ IInv'
  <2>1. ok \in BOOLEAN
    OBVIOUS
  <2> QED BY <1>7, <2>1, SpeculateKeeps
<1>8. ASSUME NEW s \in todo.spec, SkipDraft(s)
      PROVE  Types' /\ IInv'
  BY <1>8, SkipDraftKeeps
<1>9. CASE NextView
  BY <1>9, NextViewKeeps
<1>10. (\E s \in todo.sample, tok \in Tokens, goes_on \in BOOLEAN : Sample(s, tok, goes_on)) => Types' /\ IInv'
  BY <1>5, Zenon
<1>11. ASSUME NEW s \in todo.spec,
              \E draft \in Drafts(s), tok \in Tokens, goes_on \in BOOLEAN :
                 \E n \in 0 .. Len(draft), ok \in {TRUE, "compute" \notin Fails} :
                    Speculate(s, draft, n, tok, goes_on, ok)
       PROVE  Types' /\ IInv'
  <2>1. PICK draft \in Drafts(s), tok \in Tokens, goes_on \in BOOLEAN :
                \E n \in 0 .. Len(draft), ok \in {TRUE, "compute" \notin Fails} :
                   Speculate(s, draft, n, tok, goes_on, ok)
    BY <1>11, Zenon
  <2>2. PICK n \in 0 .. Len(draft), ok \in {TRUE, "compute" \notin Fails} :
                Speculate(s, draft, n, tok, goes_on, ok)
    BY <2>1, Zenon
  <2> QED BY <1>7, <2>2, Zenon
<1>12. (\E s \in todo.spec : SkipDraft(s)) => Types' /\ IInv'
  BY <1>8
<1> QED BY <1>1, <1>2, <1>3, <1>4, <1>6, <1>9, <1>10, <1>11, <1>12 DEF Proceed

\* The inductive invariant: whatever update_slots() and the tasks between its calls
\* do, the cache of a slot, its sequence in the memory and the batch fit together.
THEOREM SlotInv == Spec => [](Types /\ IInv)
<1>1. Types /\ IInv /\ [Next]_vars => (Types /\ IInv)'
  <2> SUFFICES ASSUME Types, IInv, [Next]_vars
               PROVE  (Types /\ IInv)'
    OBVIOUS
  <2>1. ASSUME NEW s \in Slot, Task(s)
        PROVE  Types' /\ IInv'
    BY <2>1, TaskKeeps
  <2>2. CASE IdleUpdate
    BY <2>2, IdleUpdateKeeps
  <2>3. CASE Begin
    BY <2>3, BeginKeeps
  <2>4. CASE Proceed
    BY <2>4, ProceedKeeps
  <2>5. CASE UNCHANGED vars
    BY <2>5, StutterKeeps
  <2> QED BY <2>1, <2>2, <2>3, <2>4, <2>5 DEF Next
<1> QED BY <1>1, InitKeeps, PTL DEF Spec

\* Type correctness: in every state, and for every context and batch, no slot holds
\* more tokens than its context has room for, and the batch has no more than n_batch
\* tokens and one for each slot.
THEOREM SlotTypeOK == Spec => []TypeOK
<1>1. Types /\ IInv => TypeOK
  <2> SUFFICES ASSUME Types, IInv
               PROVE  TypeOK
    OBVIOUS
  <2>1. ASSUME NEW s \in Slot
        PROVE  /\ slots[s].state \in SlotState /\ slots[s].n_past \in 0 .. NCtx - 1
               /\ Len(slots[s].cache) < NCtx
               /\ slots[s].state = "generating" => slots[s].sampled \in Tokens
    <3>1. SlotOK(s) /\ slots[s].state \in SlotState /\ slots[s].n_past \in Nat /\ NCtx \in Nat
      BY SlotIs, SlotCacheAssumption DEF IInv, SlotsOK
    <3>2. slots[s].n_past < NCtx /\ Len(slots[s].cache) < NCtx
      BY <3>1 DEF SlotOK
    <3>3. slots[s].state = "generating" => slots[s].sampled \in Tokens
      BY <3>1 DEF SlotOK
    <3> QED BY <3>1, <3>2, <3>3
  <2>2. Len(batch) <= NBatch + Cardinality(Slot)
    BY DEF IInv, PlaceOK
  <2>3. view.i \in 0 .. Len(batch) /\ view.n_batch \in 1 .. NBatch
    <3>1. view.i \in Nat /\ view.n_batch \in 1 .. NBatch /\ Len(batch) \in Nat
      BY DEF Types
    <3>2. view.i < Len(batch) \/ view.i = 0
      BY DEF IInv, PlaceOK, NoView
    <3> QED BY <3>1, <3>2
  <2>4. pc \in {"idle", "shift", "sampled", "prompt", "reuse", "fill",
                "decode", "sample", "speculate", "aborted"}
    BY DEF IInv, PlaceOK, Filling, Decoding
  <2> QED BY <2>1, <2>2, <2>3, <2>4 DEF TypeOK
<1> QED BY <1>1, SlotInv, PTL

\* What a slot believes to be cached is in the memory, or on its way there: so what
\* update_slots() does not decode again because of the cache (n_past, and the chunks
\* that n_cache_reuse moves) is what decoding it again would give.
THEOREM CacheIsMemory == Spec => []CacheInMemory
<1>1. Types /\ IInv => CacheInMemory
  <2> SUFFICES ASSUME Types, IInv, NEW s \in Slot, ~Comparing(s)
               PROVE  /\ s \notin lost => Cached(s) \subseteq mem[s] \cup Waiting(s)
                      /\ Active(s) => /\ s \notin lost => Cached(s) = mem[s] \cup Waiting(s)
                                      /\ slots[s].n_past = Len(slots[s].cache)
                      /\ slots[s].state = "prompt" => IsStrictPrefix(slots[s].cache, slots[s].prompt)
                      /\ slots[s].state = "done_prompt" => slots[s].cache = slots[s].prompt
    BY Zenon DEF CacheInMemory, Active
  <2>1. SlotOK(s) /\ MemoryOK(s)
    BY DEF IInv, SlotsOK
  <2>2. s \notin lost /\ (Active(s) \/ slots[s].cache # <<>>) => Cached(s) = mem[s] \cup Waiting(s)
    BY <2>1 DEF MemoryOK
  <2>3. slots[s].cache = <<>> => Cached(s) = {}
    BY DEF Cached
  <2>4. /\ Active(s) => slots[s].n_past = Len(slots[s].cache)
        /\ slots[s].state = "prompt" => IsStrictPrefix(slots[s].cache, slots[s].prompt)
        /\ slots[s].state = "done_prompt" => slots[s].cache = slots[s].prompt
    BY <2>1 DEF SlotOK
  <2> QED BY <2>2, <2>3, <2>4
<1> QED BY <1>1, SlotInv, PTL

\* A slot is sampled from the output of its own last token, in the batch that is
\* there (i_batch), and once all its tokens have been decoded.
THEOREM SamplesFromOwnToken == Spec => []SamplesOwnToken
<1>1. Types /\ IInv => SamplesOwnToken
  <2> SUFFICES ASSUME Types, IInv, pc = "sample", NEW s \in todo.sample \ lost
               PROVE  /\ batch[slots[s].i_batch + 1] =
                            [slot |-> s, pos |-> slots[s].n_past - 1, tok |-> Last(slots[s].cache)]
                      /\ Waiting(s) = {}
    BY DEF SamplesOwnToken
  <2>1. s \in Slot
    BY DEF Types
  <2>2. /\ batch[slots[s].i_batch + 1] =
              [slot |-> s, pos |-> slots[s].n_past - 1, tok |-> slots[s].cache[Len(slots[s].cache)]]
        /\ NoneWaits(s)
    BY <2>1, SampledIs
  <2>3. Waiting(s) = {}
    BY <2>2 DEF NoneWaits, Waiting
  <2> QED BY <2>2, <2>3 DEF Last
<1> QED BY <1>1, SlotInv, PTL
=============================================================================
