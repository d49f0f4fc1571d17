-------------------------- MODULE GrspwSimLinkProofs --------------------------
(***************************************************************************)
(* Proofs about the link of GrspwSim: SPWCTR and SPWSTR, changed by a list *)
(* of operations of the vCPU thread and, in SPWSTR, by the rx thread.      *)
(***************************************************************************)
EXTENDS GrspwSimProofs

----------------------------------------------------------------------------
(* What a list of operations leaves of a bit.                              *)
NamedIn(ops, r, b) == \E i \in DOMAIN ops : Names(ops[i], r, b)

LEMMA NotNamed ==
  ASSUME NEW ops, NEW r, NEW b, NEW word, ~NamedIn(ops, r, b)
  PROVE  SetAfter(r, b, ops, word) <=> b \in word
BY DEF NamedIn, SetAfter

(* Only the bit itself matters in the word before the operations.          *)
LEMMA SameBit ==
  ASSUME NEW ops, NEW r, NEW b, NEW word, NEW other, b \in word <=> b \in other
  PROVE  SetAfter(r, b, ops, word) <=> SetAfter(r, b, ops, other)
BY DEF SetAfter

(* Doing the first operation leaves the same bit in the end.               *)
LEMMA FirstDone ==
  ASSUME NEW ops \in Seq(Op), ops # <<>>, NEW r, NEW b, NEW word,
         NEW other, other = IF Head(ops).reg = r THEN Modify(word, Head(ops)) ELSE word
  PROVE  SetAfter(r, b, ops, word) <=> SetAfter(r, b, Tail(ops), other)
<1> DEFINE n == Len(ops)
           t == Tail(ops)
<1>1. /\ n \in Nat /\ n > 0 /\ DOMAIN ops = 1..n /\ Head(ops) = ops[1]
      /\ DOMAIN t = 1..(n - 1) /\ \A i \in 1..(n - 1) : t[i] = ops[i + 1]
  OBVIOUS
<1> HIDE DEF n, t
<1>2. \A i \in DOMAIN ops : i = 1 \/ (i - 1 \in DOMAIN t /\ ops[i] = t[i - 1])
  BY <1>1
<1>3. \A i \in DOMAIN t : i + 1 \in DOMAIN ops /\ t[i] = ops[i + 1]
  BY <1>1
<1>4. NamedIn(ops, r, b) <=> Names(ops[1], r, b) \/ NamedIn(t, r, b)
  BY <1>1, <1>2, <1>3 DEF NamedIn
<1>5. CASE NamedIn(t, r, b)
  <2>1. ASSUME NEW i \in DOMAIN t, Names(t[i], r, b), b \in t[i].set,
               \A j \in DOMAIN t : Names(t[j], r, b) => j <= i
        PROVE  \A j \in DOMAIN ops : Names(ops[j], r, b) => j <= i + 1
    BY <1>1, <1>2, <2>1
  <2>2. ASSUME NEW i \in DOMAIN ops, Names(ops[i], r, b), b \in ops[i].set,
               \A j \in DOMAIN ops : Names(ops[j], r, b) => j <= i
        PROVE  /\ i - 1 \in DOMAIN t /\ Names(t[i - 1], r, b) /\ b \in t[i - 1].set
               /\ \A j \in DOMAIN t : Names(t[j], r, b) => j <= i - 1
    <3>1. PICK k \in DOMAIN t : Names(t[k], r, b)
      BY <1>5 DEF NamedIn
    <3>2. k + 1 <= i /\ k \in Nat /\ k > 0 /\ i \in Nat
      BY <1>1, <1>3, <2>2, <3>1
    <3>3. i - 1 \in DOMAIN t /\ ops[i] = t[i - 1]
      BY <1>2, <3>2
    <3>4. ASSUME NEW j \in DOMAIN t, Names(t[j], r, b) PROVE j <= i - 1
      <4>1. j + 1 <= i /\ j \in Nat
        BY <1>1, <1>3, <2>2, <3>4
      <4> QED
        BY <4>1, <3>2
    <3> QED
      BY <2>2, <3>3, <3>4
  <2>3. /\ SetAfter(r, b, ops, word) <=>
             \E i \in DOMAIN ops : /\ Names(ops[i], r, b) /\ b \in ops[i].set
                                   /\ \A j \in DOMAIN ops : Names(ops[j], r, b) => j <= i
        /\ SetAfter(r, b, t, other) <=>
             \E i \in DOMAIN t : /\ Names(t[i], r, b) /\ b \in t[i].set
                                 /\ \A j \in DOMAIN t : Names(t[j], r, b) => j <= i
    BY <1>4, <1>5 DEF SetAfter, NamedIn
  <2>4. SetAfter(r, b, t, other) => SetAfter(r, b, ops, word)
    BY <1>3, <2>1, <2>3
  <2>5. SetAfter(r, b, ops, word) => SetAfter(r, b, t, other)
    BY <2>2, <2>3
  <2> QED
    BY <2>4, <2>5 DEF t
<1>6. CASE ~NamedIn(t, r, b) /\ Names(ops[1], r, b)
  <2>1. SetAfter(r, b, t, other) <=> b \in other
    BY <1>6, NotNamed
  <2>2. b \in other <=> b \in ops[1].set
    BY <1>1, <1>6 DEF Names, Modify, setbit, clearbit
  <2>3. \A i \in DOMAIN ops : Names(ops[i], r, b) => i = 1
    BY <1>2, <1>6 DEF NamedIn
  <2>4. SetAfter(r, b, ops, word) <=> b \in ops[1].set
    BY <1>1, <1>6, <2>3 DEF SetAfter
  <2> QED
    BY <2>1, <2>2, <2>4 DEF t
<1>7. CASE ~NamedIn(t, r, b) /\ ~Names(ops[1], r, b)
  <2>1. b \in other <=> b \in word
    BY <1>1, <1>7 DEF Names, Modify, setbit, clearbit
  <2> QED
    BY <1>4, <1>7, <2>1, NotNamed DEF t
<1> QED
  BY <1>5, <1>6, <1>7

(* Of two lists one after the other the second decides, if it names the    *)
(* bit.                                                                    *)
LEMMA SecondDecides ==
  ASSUME NEW s \in Seq(Op), NEW t \in Seq(Op), NEW r, NEW b, NEW word
  PROVE  /\ NamedIn(t, r, b) =>
              (SetAfter(r, b, s \o t, word) <=> SetAfter(r, b, t, word))
         /\ ~NamedIn(t, r, b) =>
              (SetAfter(r, b, s \o t, word) <=> SetAfter(r, b, s, word))
<1> DEFINE m == Len(s)
           n == Len(t)
           u == s \o t
<1>1. /\ m \in Nat /\ n \in Nat /\ DOMAIN s = 1..m /\ DOMAIN t = 1..n /\ DOMAIN u = 1..(m + n)
      /\ \A i \in 1..m : u[i] = s[i]
      /\ \A i \in 1..n : u[m + i] = t[i]
  OBVIOUS
<1> HIDE DEF m, n, u
<1>2. \A i \in DOMAIN u : \/ i \in DOMAIN s /\ u[i] = s[i]
                          \/ i - m \in DOMAIN t /\ u[i] = t[i - m] /\ i > m
  <2> TAKE i \in DOMAIN u
  <2>1. CASE i <= m
    BY <1>1, <2>1
  <2>2. CASE i > m
    <3>1. i - m \in 1..n /\ m + (i - m) = i
      BY <1>1, <2>2
    <3> QED
      BY <1>1, <2>2, <3>1
  <2> QED
    BY <1>1, <2>1, <2>2
<1>3. CASE NamedIn(t, r, b)
  <2>1. PICK k \in DOMAIN t : Names(t[k], r, b)
    BY <1>3 DEF NamedIn
  <2>2. m + k \in DOMAIN u /\ Names(u[m + k], r, b)
    BY <1>1, <2>1
  <2>3. ASSUME NEW i \in DOMAIN t, \A j \in DOMAIN t : Names(t[j], r, b) => j <= i
        PROVE  \A j \in DOMAIN u : Names(u[j], r, b) => j <= m + i
    <3> TAKE j \in DOMAIN u
    <3> HAVE Names(u[j], r, b)
    <3>1. CASE j \in DOMAIN s
      BY <1>1, <3>1
    <3>2. CASE j - m \in DOMAIN t /\ u[j] = t[j - m]
      <4>1. j - m <= i
        BY <2>3, <3>2
      <4> QED
        BY <1>1, <4>1
    <3> QED
      BY <1>2, <3>1, <3>2
  <2>4. ASSUME NEW i \in DOMAIN u, \A j \in DOMAIN u : Names(u[j], r, b) => j <= i
        PROVE  /\ i - m \in DOMAIN t /\ u[i] = t[i - m]
               /\ \A j \in DOMAIN t : Names(t[j], r, b) => j <= i - m
    <3>1. m + k <= i
      BY <2>2, <2>4
    <3>2. i - m \in DOMAIN t /\ u[i] = t[i - m]
      BY <1>1, <1>2, <3>1
    <3>3. ASSUME NEW j \in DOMAIN t, Names(t[j], r, b) PROVE j <= i - m
      <4>1. m + j \in DOMAIN u /\ u[m + j] = t[j]
        BY <1>1
      <4>2. m + j <= i
        BY <2>4, <3>3, <4>1
      <4> QED
        BY <1>1, <4>2
    <3> QED
      BY <3>2, <3>3
  <2>5. /\ SetAfter(r, b, u, word) <=>
             \E i \in DOMAIN u : /\ Names(u[i], r, b) /\ b \in u[i].set
                                 /\ \A j \in DOMAIN u : Names(u[j], r, b) => j <= i
        /\ SetAfter(r, b, t, word) <=>
             \E i \in DOMAIN t : /\ Names(t[i], r, b) /\ b \in t[i].set
                                 /\ \A j \in DOMAIN t : Names(t[j], r, b) => j <= i
    BY <2>1, <2>2 DEF SetAfter
  <2>6. SetAfter(r, b, u, word) => SetAfter(r, b, t, word)
    BY <2>4, <2>5
  <2>7. SetAfter(r, b, t, word) => SetAfter(r, b, u, word)
    <3>1. \A i \in DOMAIN t : m + i \in DOMAIN u /\ u[m + i] = t[i]
      BY <1>1
    <3> QED
      BY <2>3, <2>5, <3>1
  <2> QED
    BY <1>3, <2>6, <2>7 DEF u
<1>4. CASE ~NamedIn(t, r, b)
  <2>1. \A i \in DOMAIN u : Names(u[i], r, b) => i \in DOMAIN s /\ u[i] = s[i]
    BY <1>2, <1>4 DEF NamedIn
  <2>2. \A i \in DOMAIN s : i \in DOMAIN u /\ u[i] = s[i]
    BY <1>1
  <2>3. SetAfter(r, b, u, word) <=> SetAfter(r, b, s, word)
    BY <2>1, <2>2 DEF SetAfter
  <2> QED
    BY <1>4, <2>3 DEF u
<1> QED
  BY <1>3, <1>4

----------------------------------------------------------------------------
(* LinkInStep of any list of operations and any two words.                 *)
InStepAfter(ops, c, t) ==
  /\ (\A b \in LinkRun : SetAfter("str", b, ops, t)) =>
       SetAfter("ctr", "LS", ops, c) /\ ~SetAfter("ctr", "LD", ops, c)
  /\ SetAfter("ctr", "LD", ops, c) => \A b \in LinkState : ~SetAfter("str", b, ops, t)

(* The word of SPWSTR that the vCPU thread goes on with.                   *)
StrWord(l) == IF Loaded(l) THEN vbits ELSE str[l]

LEMMA InStepIsAfter ==
  ASSUME NEW l
  PROVE  LinkInStep(l) <=> InStepAfter(Pending(l), ctr[l], StrWord(l))
BY DEF LinkInStep, InStepAfter, CtrAfter, StrAfter, StrWord

(* Only LS, LD and the link state matter.                                  *)
LEMMA SameLink ==
  ASSUME NEW ops, NEW c, NEW t, NEW d, NEW u, InStepAfter(ops, c, t),
         \A b \in {"LS", "LD"} : b \in c <=> b \in d,
         \A b \in LinkState : b \in t <=> b \in u
  PROVE  InStepAfter(ops, d, u)
<1>1. LinkRun \subseteq LinkState
  BY DEF LinkRun, LinkState
<1>2. \A b \in LinkState : SetAfter("str", b, ops, t) <=> SetAfter("str", b, ops, u)
  BY SameBit
<1>3. \A b \in {"LS", "LD"} : SetAfter("ctr", b, ops, c) <=> SetAfter("ctr", b, ops, d)
  BY SameBit
<1> QED
  BY <1>1, <1>2, <1>3 DEF InStepAfter

(* A list that names none of the bits leaves the link alone.               *)
LEMMA LinkUnnamed ==
  ASSUME NEW ops, NEW c, NEW t, InStepAfter(<<>>, c, t),
         \A b \in {"LS", "LD"} : ~NamedIn(ops, "ctr", b),
         \A b \in LinkState : ~NamedIn(ops, "str", b)
  PROVE  InStepAfter(ops, c, t)
<1>1. LinkRun \subseteq LinkState
  BY DEF LinkRun, LinkState
<1>2. \A r, b : ~NamedIn(<<>>, r, b)
  BY DEF NamedIn
<1>3. \A b \in LinkState : SetAfter("str", b, ops, t) <=> SetAfter("str", b, <<>>, t)
  BY <1>2, NotNamed
<1>4. \A b \in {"LS", "LD"} : SetAfter("ctr", b, ops, c) <=> SetAfter("ctr", b, <<>>, c)
  BY <1>2, NotNamed
<1> QED
  BY <1>1, <1>3, <1>4 DEF InStepAfter

(* The operations of Link Start and of Link Disable.                       *)
LEMMA LinkOps ==
  /\ StartOps \in Seq(Op) /\ DOMAIN StartOps = {1, 2}
  /\ StartOps[1] = Rmw("str", LinkState, LinkRun) /\ StartOps[2] = Rmw("ctr", {"LD"}, {})
  /\ DisableOps \in Seq(Op) /\ DOMAIN DisableOps = {1, 2}
  /\ DisableOps[1] = Rmw("str", LinkState, {}) /\ DisableOps[2] = Rmw("ctr", {"LS"}, {})
<1>1. Rmw("ctr", {"LD"}, {}) \in Op /\ Rmw("ctr", {"LS"}, {}) \in Op
  BY RmwType DEF Bits, CtrBits, CtrNotReset
<1>2. Rmw("str", LinkState, LinkRun) \in Op /\ Rmw("str", LinkState, {}) \in Op
  BY RmwType DEF Bits, StrBits, LinkState, LinkRun
<1> QED
  BY <1>1, <1>2 DEF StartOps, DisableOps

(* After Link Start the link runs and LD is 0; LS is as it was before.     *)
LEMMA Starts ==
  ASSUME NEW s \in Seq(Op), NEW c, NEW t, SetAfter("ctr", "LS", s, c)
  PROVE  InStepAfter(s \o StartOps, c, t)
<1>1. NamedIn(StartOps, "ctr", "LD") /\ ~NamedIn(StartOps, "ctr", "LS")
  BY LinkOps DEF NamedIn, Names, Rmw
<1>2. ~SetAfter("ctr", "LD", StartOps, c)
  BY <1>1, LinkOps DEF SetAfter, Names, Rmw, NamedIn
<1>3. ~SetAfter("ctr", "LD", s \o StartOps, c) /\ SetAfter("ctr", "LS", s \o StartOps, c)
  BY <1>1, <1>2, LinkOps, SecondDecides
<1> QED
  BY <1>3 DEF InStepAfter

(* After Link Disable the link is reset.                                   *)
LEMMA Disables ==
  ASSUME NEW s \in Seq(Op), NEW c, NEW t
  PROVE  InStepAfter(s \o DisableOps, c, t)
<1>1. ASSUME NEW b \in LinkState
      PROVE  ~SetAfter("str", b, s \o DisableOps, t)
  <2>1. NamedIn(DisableOps, "str", b)
    BY LinkOps DEF NamedIn, Names, Rmw
  <2>2. ~SetAfter("str", b, DisableOps, t)
    BY <2>1, LinkOps DEF SetAfter, Names, Rmw, NamedIn
  <2> QED
    BY <2>1, <2>2, LinkOps, SecondDecides
<1>2. "LS2" \in LinkRun /\ "LS2" \in LinkState
  BY DEF LinkRun, LinkState
<1> QED
  BY <1>1, <1>2 DEF InStepAfter

----------------------------------------------------------------------------
(* A write of SPWCTR: the first operations, and what starts or disables.   *)
CtrFirst(v) ==
  <<Rmw("ctr", {}, v \cap (CtrClearSet \cup CtrNotReset \cup CtrSelfClear))>>
  \o When("TI" \in v, <<Store("tick", 0), Store("timecode", 0), Rmw("ctr", {"TI"}, {})>>)

(* They are operations, and set LS and LD where they are written.          *)
LEMMA CtrFirstOps ==
  ASSUME NEW v \in SUBSET Bits
  PROVE  /\ CtrFirst(v) \in Seq(Op)
         /\ "LS" \in v => \A c : SetAfter("ctr", "LS", CtrFirst(v), c)
         /\ \A b \in {"LS", "LD"} : b \notin v => ~NamedIn(CtrFirst(v), "ctr", b)
         /\ \A b : ~NamedIn(CtrFirst(v), "str", b)
<1> DEFINE stored == Rmw("ctr", {}, v \cap (CtrClearSet \cup CtrNotReset \cup CtrSelfClear))
           tick == <<Store("tick", 0), Store("timecode", 0), Rmw("ctr", {"TI"}, {})>>
           ticked == When("TI" \in v, tick)
<1>1. stored \in Op /\ Rmw("ctr", {"TI"}, {}) \in Op /\ Store("tick", 0) \in Op
      /\ Store("timecode", 0) \in Op
  <2>1. v \cap (CtrClearSet \cup CtrNotReset \cup CtrSelfClear) \in SUBSET Bits
        /\ {"TI"} \in SUBSET Bits
    BY DEF Bits, CtrBits, CtrSelfClear
  <2>2. stored \in Op /\ Rmw("ctr", {"TI"}, {}) \in Op
    BY <2>1, RmwType
  <2>3. Store("tick", 0) \in Op /\ Store("timecode", 0) \in Op
    BY StoreType DEF Byte
  <2> QED
    BY <2>2, <2>3
<1>2. <<stored>> \in Seq(Op) /\ tick \in Seq(Op) /\ ticked \in Seq(Op)
  BY <1>1 DEF When
<1>3. DOMAIN tick = {1, 2, 3} /\ tick[1] = Store("tick", 0) /\ tick[2] = Store("timecode", 0)
      /\ tick[3] = Rmw("ctr", {"TI"}, {})
  OBVIOUS
<1>4. \A b : ~NamedIn(ticked, "str", b) /\ (b # "TI" => ~NamedIn(ticked, "ctr", b))
  <2>1. \A b : ~NamedIn(tick, "str", b) /\ (b # "TI" => ~NamedIn(tick, "ctr", b))
    BY <1>3 DEF NamedIn, Names, Rmw, Store
  <2>2. \A r, b : ~NamedIn(<<>>, r, b)
    BY DEF NamedIn
  <2> QED
    BY <2>1, <2>2 DEF When
<1>5. /\ \A b : ~NamedIn(<<stored>>, "str", b)
      /\ \A b : NamedIn(<<stored>>, "ctr", b) <=> b \in stored.set
      /\ \A b \in {"LS", "LD"} : b \in stored.set <=> b \in v
  <2>1. DOMAIN <<stored>> = {1} /\ <<stored>>[1] = stored
    OBVIOUS
  <2>2. stored.reg = "ctr" /\ stored.clr = {}
        /\ stored.set = v \cap (CtrClearSet \cup CtrNotReset \cup CtrSelfClear)
    BY DEF Rmw
  <2>3. {"LS", "LD"} \subseteq CtrNotReset
    BY DEF CtrNotReset
  <2> HIDE DEF stored
  <2> QED
    BY <2>1, <2>2, <2>3 DEF NamedIn, Names
<1>6. \A b, c : b \in stored.set => SetAfter("ctr", b, <<stored>>, c)
  <2>1. DOMAIN <<stored>> = {1} /\ <<stored>>[1] = stored /\ stored.reg = "ctr"
    BY DEF Rmw
  <2> HIDE DEF stored
  <2> QED
    BY <2>1 DEF SetAfter, Names
<1>7. CtrFirst(v) = <<stored>> \o ticked
  BY DEF CtrFirst
<1> HIDE DEF stored, ticked
<1>8. CtrFirst(v) \in Seq(Op)
  BY <1>2, <1>7
<1>9. \A r, b : NamedIn(CtrFirst(v), r, b) =>
                  NamedIn(<<stored>>, r, b) \/ NamedIn(ticked, r, b)
  <2> TAKE r, b
  <2> HAVE NamedIn(CtrFirst(v), r, b)
  <2>1. PICK i \in DOMAIN CtrFirst(v) : Names(CtrFirst(v)[i], r, b)
    BY DEF NamedIn
  <2>2. \/ i \in DOMAIN <<stored>> /\ CtrFirst(v)[i] = <<stored>>[i]
        \/ i - 1 \in DOMAIN ticked /\ CtrFirst(v)[i] = ticked[i - 1]
    BY <1>2, <1>7
  <2> QED
    BY <2>1, <2>2 DEF NamedIn
<1>10. ASSUME NEW c, "LS" \in v
       PROVE  SetAfter("ctr", "LS", CtrFirst(v), c)
  <2>1. ~NamedIn(ticked, "ctr", "LS") /\ SetAfter("ctr", "LS", <<stored>>, c)
    BY <1>4, <1>5, <1>6, <1>10
  <2>2. SetAfter("ctr", "LS", <<stored>> \o ticked, c)
    BY <1>2, <2>1, SecondDecides
  <2> QED
    BY <1>7, <2>2
<1> QED
  BY <1>4, <1>5, <1>8, <1>9, <1>10

LEMMA CtrWriteInStep ==
  ASSUME NEW v \in SUBSET Bits, NEW c, NEW t, InStepAfter(<<>>, c, t)
  PROVE  InStepAfter(CtrOps(v), c, t)
<1> DEFINE first == CtrFirst(v)
           started == first \o When("LS" \in v, StartOps)
<1>1. CtrOps(v) = started \o When("LD" \in v, DisableOps)
  BY DEF CtrOps, CtrFirst
<1>2. first \in Seq(Op) /\ StartOps \in Seq(Op) /\ DisableOps \in Seq(Op)
  BY CtrFirstOps, LinkOps
<1>3. started \in Seq(Op)
  BY <1>2 DEF When
<1>4. CASE "LD" \in v
  BY <1>1, <1>3, <1>4, Disables DEF When
<1>5. CASE "LD" \notin v /\ "LS" \in v
  <2>1. CtrOps(v) = first \o StartOps
    <3>1. CtrOps(v) = started \o <<>> /\ started = first \o StartOps
      BY <1>1, <1>5 DEF When
    <3> QED
      BY <1>3, <3>1
  <2>2. SetAfter("ctr", "LS", first, c)
    BY <1>5, CtrFirstOps
  <2> QED
    BY <1>2, <2>1, <2>2, Starts
<1>6. CASE "LD" \notin v /\ "LS" \notin v
  <2>1. CtrOps(v) = first
    <3>1. CtrOps(v) = started \o <<>> /\ started = first \o <<>>
      BY <1>1, <1>6 DEF When
    <3> QED
      BY <1>2, <1>3, <3>1
  <2>2. /\ \A b \in {"LS", "LD"} : ~NamedIn(first, "ctr", b)
        /\ \A b \in LinkState : ~NamedIn(first, "str", b)
    BY <1>6, CtrFirstOps
  <2> HIDE DEF first
  <2> QED
    BY <2>1, <2>2, LinkUnnamed
<1> QED
  BY <1>4, <1>5, <1>6

(* The operations of the other handlers name no bit of the link.           *)
LEMMA OneNamesNoLink ==
  ASSUME NEW op \in Op, op.reg = "str" => (op.clr \cup op.set) \cap LinkState = {}, op.reg # "ctr"
  PROVE  /\ \A b : ~NamedIn(<<op>>, "ctr", b)
         /\ \A b \in LinkState : ~NamedIn(<<op>>, "str", b)
<1>1. DOMAIN <<op>> = {1} /\ <<op>>[1] = op
  OBVIOUS
<1> QED
  BY <1>1 DEF NamedIn, Names

(* No operation of ops names a bit of the link.                            *)
LeavesLink(ops) ==
  /\ \A b : ~NamedIn(ops, "ctr", b)
  /\ \A b \in LinkState : ~NamedIn(ops, "str", b)

LEMMA BothLeaveLink ==
  ASSUME NEW s \in Seq(Op), NEW t \in Seq(Op), LeavesLink(s), LeavesLink(t)
  PROVE  s \o t \in Seq(Op) /\ LeavesLink(s \o t)
<1>1. \A i \in DOMAIN (s \o t) :
        \/ i \in DOMAIN s /\ (s \o t)[i] = s[i]
        \/ i - Len(s) \in DOMAIN t /\ (s \o t)[i] = t[i - Len(s)]
  <2> TAKE i \in DOMAIN (s \o t)
  <2>1. CASE i <= Len(s)
    BY <2>1
  <2>2. CASE i > Len(s)
    BY <2>2
  <2> QED
    BY <2>1, <2>2
<1>2. \A r, b : NamedIn(s \o t, r, b) => NamedIn(s, r, b) \/ NamedIn(t, r, b)
  BY <1>1 DEF NamedIn
<1> QED
  BY <1>2 DEF LeavesLink

LEMMA ClearLeavesLink ==
  ASSUME NEW r \in {"str", "chn"}, NEW v \in SUBSET Bits, NEW b \in Bits, b \notin LinkState
  PROVE  ClearOne(r, v, b) \in Seq(Op) /\ LeavesLink(ClearOne(r, v, b))
<1>1. Rmw(r, {b}, {}) \in Op
  BY RmwType
<1>2. LeavesLink(<<Rmw(r, {b}, {})>>)
  BY <1>1, OneNamesNoLink DEF LeavesLink, Rmw
<1>3. LeavesLink(<<>>)
  BY DEF LeavesLink, NamedIn
<1> QED
  BY <1>1, <1>2, <1>3 DEF ClearOne, When

LEMMA OtherWritesInStep ==
  ASSUME NEW w \in [reg : WriteRegs, bits : SUBSET Bits, num : Byte], w.reg # "ctr"
  PROVE  LeavesLink(WriteOps(w))
<1> DEFINE v == w.bits
<1>1. v \in SUBSET Bits /\ w.num \in Byte
  OBVIOUS
<1>2. CASE w.reg = "str"
  <2>1. \A b \in StrClear : b \in Bits /\ b \notin LinkState
    BY DEF StrClear, LinkState, Bits, StrBits
  <2>2. \A b \in StrClear : ClearOne("str", v, b) \in Seq(Op) /\ LeavesLink(ClearOne("str", v, b))
    BY <1>1, <2>1, ClearLeavesLink
  <2>3. LeavesLink(StrOps(v))
    BY <2>2, BothLeaveLink DEF StrOps, StrClear
  <2> QED
    BY <1>2, <2>3 DEF WriteOps
<1>3. CASE w.reg = "chn"
  <2> DEFINE written == ChnClearSet \cup ChnNotReset
             first == Rmw("chn", written, v \cap (written \cup ChnSelfClear))
             te == Rmw("chn", {"TE"}, {})
             at == Rmw("chn", {"AT"}, {})
  <2>1. \A b \in ChnClear : b \in Bits /\ b \notin LinkState
    BY DEF ChnClear, LinkState, Bits, ChnBits
  <2>2. \A b \in ChnClear : ClearOne("chn", v, b) \in Seq(Op) /\ LeavesLink(ClearOne("chn", v, b))
    BY <1>1, <2>1, ClearLeavesLink
  <2>3. first \in Op /\ te \in Op /\ at \in Op
    <3>1. /\ written \in SUBSET Bits /\ v \cap (written \cup ChnSelfClear) \in SUBSET Bits
          /\ {"TE"} \in SUBSET Bits /\ {"AT"} \in SUBSET Bits
      BY DEF Bits, ChnBits, ChnSelfClear
    <3> HIDE DEF written
    <3> QED
      BY <3>1, RmwType
  <2>4. first.reg = "chn" /\ te.reg = "chn" /\ at.reg = "chn"
    BY DEF Rmw
  <2> HIDE DEF first, te, at
  <2>5. LeavesLink(<<first>>) /\ LeavesLink(<<>>)
    <3>1. LeavesLink(<<>>)
      BY DEF LeavesLink, NamedIn
    <3>2. ASSUME NEW op \in Op, op.reg = "chn"
          PROVE  LeavesLink(<<op>>)
      BY <3>2, OneNamesNoLink DEF LeavesLink
    <3>3. LeavesLink(<<first>>)
      BY <2>3, <2>4, <3>2
    <3> QED
      BY <3>1, <3>3
  <2>6. When("AT" \in v, <<te, at>>) \in Seq(Op) /\ LeavesLink(When("AT" \in v, <<te, at>>))
    <3>1. /\ <<te, at>> \in Seq(Op) /\ DOMAIN <<te, at>> = {1, 2}
          /\ <<te, at>>[1] = te /\ <<te, at>>[2] = at
      BY <2>3
    <3>2. <<te, at>> \in Seq(Op) /\ LeavesLink(<<te, at>>)
      BY <2>4, <3>1 DEF LeavesLink, NamedIn, Names
    <3> QED
      BY <2>5, <3>2 DEF When
  <2>7. ChnOps(v) = <<first>> \o When("AT" \in v, <<te, at>>)
                    \o ClearOne("chn", v, "RA") \o ClearOne("chn", v, "TA")
                    \o ClearOne("chn", v, "PR") \o ClearOne("chn", v, "PS")
    BY DEF ChnOps, first, te, at
  <2>8. LeavesLink(ChnOps(v))
    <3> DEFINE done == <<first>> \o When("AT" \in v, <<te, at>>)
               ra == ClearOne("chn", v, "RA")
               ta == ClearOne("chn", v, "TA")
               pr == ClearOne("chn", v, "PR")
               ps == ClearOne("chn", v, "PS")
    <3>1. done \in Seq(Op) /\ LeavesLink(done)
      <4>1. <<first>> \in Seq(Op)
        BY <2>3
      <4> QED
        BY <4>1, <2>5, <2>6, BothLeaveLink
    <3>2. /\ ra \in Seq(Op) /\ LeavesLink(ra) /\ ta \in Seq(Op) /\ LeavesLink(ta)
          /\ pr \in Seq(Op) /\ LeavesLink(pr) /\ ps \in Seq(Op) /\ LeavesLink(ps)
      BY <2>2 DEF ChnClear
    <3>3. ChnOps(v) = done \o ra \o ta \o pr \o ps
      BY <2>7
    <3> HIDE DEF done, ra, ta, pr, ps
    <3>4. done \o ra \in Seq(Op) /\ LeavesLink(done \o ra)
      BY <3>1, <3>2, BothLeaveLink
    <3>5. done \o ra \o ta \in Seq(Op) /\ LeavesLink(done \o ra \o ta)
      BY <3>2, <3>4, BothLeaveLink
    <3>6. done \o ra \o ta \o pr \in Seq(Op) /\ LeavesLink(done \o ra \o ta \o pr)
      BY <3>2, <3>5, BothLeaveLink
    <3> QED
      BY <3>2, <3>3, <3>6, BothLeaveLink
  <2> QED
    BY <1>3, <2>8 DEF WriteOps
<1>4. CASE w.reg \in {"tim", "ndr"}
  <2>1. Store(w.reg, w.num) \in Op /\ Store(w.reg, w.num).reg \in {"tim", "ndr"}
    BY <1>1, <1>4, StoreType DEF Store
  <2>2. LeavesLink(<<Store(w.reg, w.num)>>)
    BY <2>1, OneNamesNoLink DEF LeavesLink
  <2> QED
    BY <1>4, <2>2 DEF WriteOps
<1> QED
  BY <1>2, <1>3, <1>4 DEF WriteRegs

(* Whatever a write handler is told, its operations keep the link in step. *)
LEMMA WriteInStep ==
  ASSUME NEW w \in [reg : WriteRegs, bits : SUBSET Bits, num : Byte],
         NEW c, NEW t, InStepAfter(<<>>, c, t)
  PROVE  InStepAfter(WriteOps(w), c, t)
<1>1. CASE w.reg = "ctr"
  <2>1. WriteOps(w) = CtrOps(w.bits)
    BY <1>1 DEF WriteOps
  <2> QED
    BY <2>1, CtrWriteInStep
<1>2. CASE w.reg # "ctr"
  BY <1>2, OtherWritesInStep, LinkUnnamed DEF LeavesLink
<1> QED
  BY <1>1, <1>2

----------------------------------------------------------------------------
(* What the threads hold: a tick's operation, an operation of the rx       *)
(* thread, which never names the link state.                               *)
LinkHeld ==
  /\ vpc \in {"tick", "timecode"} => Head(todo).reg = vpc
  /\ rop.reg = "str" => (rop.clr \cup rop.set) \cap LinkState = {}

LEMMA LinkHeldStep ==
  ASSUME TypeOK, LinkHeld, [Next]_vars
  PROVE  LinkHeld'
<1>1. ASSUME UNCHANGED <<vpc, todo>> \/ vpc' \notin {"tick", "timecode"}, UNCHANGED rop
      PROVE  LinkHeld'
  BY <1>1 DEF LinkHeld
<1>2. CASE Guest
  BY <1>1, <1>2 DEF Guest, GuestArmTx, GuestArmRx, GuestWrite, GuestRead, vcpu, rx
<1>3. CASE OpTimeLoad
  BY <1>3 DEF LinkHeld, OpTimeLoad, Executing, rx
<1>4. CASE ReadLocked \/ OpLoad \/ OpStore \/ OpCtr \/ OpSet \/ OpTickStore \/ OpTimecode
  BY <1>1, <1>4 DEF ReadLocked, OpLoad, OpStore, OpCtr, OpSet, OpTickStore, OpTimecode,
                    Executing, rx
<1>5. CASE TxEnable \/ TxFetch \/ TxSend \/ TxWait \/ TxRelock \/ TxFinish \/ TxStop
  BY <1>1, <1>5 DEF TxEnable, TxFetch, TxSend, TxWait, TxRelock, TxFinish, TxStop, rx
<1>6. CASE RxReceive \/ RxSignal \/ RxLoad \/ RxStore \/ RxCheckEnabled \/ RxCheckAddress
           \/ RxCheckAvailable \/ RxGiveBack \/ RxTimeCompare
  BY <1>1, <1>6 DEF RxReceive, RxSignal, RxLoad, RxStore, RxCheckEnabled, RxCheckAddress,
                    RxCheckAvailable, RxGiveBack, RxTimeCompare, RxCheck, vcpu
<1>7. CASE RxFetch \/ RxCopy \/ RxTimeStore
  <2>1. {"EE", "TO"} \cap LinkState = {}
    BY DEF LinkState
  <2>2. rop' = rop \/ rop'.reg = "chn" \/ (rop'.reg = "str" /\ rop'.clr = {} /\ rop'.set \subseteq {"EE", "TO"})
    BY <1>7 DEF RxFetch, RxCopy, RxTimeStore, RxModify, Rmw
  <2>3. UNCHANGED <<vpc, todo>>
    BY <1>7 DEF RxFetch, RxCopy, RxTimeStore, vcpu
  <2> QED
    BY <2>1, <2>2, <2>3 DEF LinkHeld
<1>8. CASE Device \/ TxSpuriousWakeup \/ DevRestart
  BY <1>1, <1>8 DEF Device, DevReceive, DevAck, DevSend, TxSpuriousWakeup, DevRestart, vcpu, rx
<1>9. CASE QemuRestart
  BY <1>9 DEF QemuRestart, LinkHeld, Rmw
<1>10. CASE UNCHANGED vars
  BY <1>1, <1>10 DEF vars, vcpu, rx
<1> QED
  BY <1>2, <1>3, <1>4, <1>5, <1>6, <1>7, <1>8, <1>9, <1>10 DEF Next, Handler, RxThread, Faults

----------------------------------------------------------------------------
(* A step that does none of the pending operations.                        *)
LEMMA LinkKept ==
  ASSUME NEW l, LinkInStep(l), Pending(l)' = Pending(l), UNCHANGED ctr[l],
         \A b \in LinkState : b \in StrWord(l) <=> b \in StrWord(l)'
  PROVE  LinkInStep(l)'
<1>1. InStepAfter(Pending(l), ctr[l], StrWord(l))
  BY InStepIsAfter
<1>2. InStepAfter(Pending(l)', ctr[l]', StrWord(l)')
  BY <1>1, SameLink
<1> QED
  BY <1>2 DEF LinkInStep, InStepAfter, CtrAfter, StrAfter, StrWord

(* The registers, the vCPU thread's list and its loaded word are as they   *)
(* were.                                                                   *)
LEMMA LinkUntouched ==
  ASSUME NEW l, LinkInStep(l), UNCHANGED <<ctr, str, vpc, vlink, todo, vbits>>
  PROVE  LinkInStep(l)'
<1>1. Pending(l)' = Pending(l) /\ StrWord(l)' = StrWord(l) /\ UNCHANGED ctr[l]
  BY DEF Pending, StrWord, Loaded
<1> QED
  BY <1>1, LinkKept

(* A step of the vCPU thread between handlers: it has nothing pending.     *)
LEMMA NothingPending ==
  ASSUME NEW l, LinkInStep(l), UNCHANGED <<ctr, str>>,
         Pending(l) = <<>>, Pending(l)' = <<>>, ~Loaded(l), ~Loaded(l)'
  PROVE  LinkInStep(l)'
<1>1. StrWord(l)' = StrWord(l) /\ UNCHANGED ctr[l] /\ Pending(l)' = Pending(l)
  BY DEF StrWord
<1> QED
  BY <1>1, LinkKept

(* The vCPU thread does the first of its pending operations.               *)
LEMMA LinkOperation ==
  ASSUME TypeOK, NEW l \in Links, LinkInStep(l), vlink = l,
         vpc \in {"ops", "store", "tick", "timecode"}, todo # <<>>,
         vpc' = "ops", todo' = Tail(todo), UNCHANGED vlink,
         ctr'[l] = IF Head(todo).reg = "ctr" THEN Modify(ctr[l], Head(todo)) ELSE ctr[l],
         str'[l] = IF Head(todo).reg = "str" THEN Modify(StrWord(l), Head(todo)) ELSE str[l],
         Head(todo).reg # "str" => StrWord(l) = str[l]
  PROVE  LinkInStep(l)'
<1>1. todo \in Seq(Op) /\ Pending(l) = todo /\ Pending(l)' = Tail(todo)
  BY DEF TypeOK, VcpuType, Pending
<1>2. StrWord(l)' = str'[l]
  BY DEF StrWord, Loaded
<1>3. str'[l] = IF Head(todo).reg = "str" THEN Modify(StrWord(l), Head(todo)) ELSE StrWord(l)
  OBVIOUS
<1>4. InStepAfter(todo, ctr[l], StrWord(l))
  BY <1>1, InStepIsAfter
<1>5. \A b : SetAfter("ctr", b, todo, ctr[l]) <=> SetAfter("ctr", b, Tail(todo), ctr'[l])
  BY <1>1, FirstDone
<1>6. \A b : SetAfter("str", b, todo, StrWord(l)) <=> SetAfter("str", b, Tail(todo), str'[l])
  BY <1>1, <1>3, FirstDone
<1>7. InStepAfter(Tail(todo), ctr'[l], str'[l])
  BY <1>4, <1>5, <1>6 DEF InStepAfter
<1> QED
  BY <1>1, <1>2, <1>7 DEF LinkInStep, InStepAfter, CtrAfter, StrAfter, StrWord

----------------------------------------------------------------------------
(* The actions that do an operation.                                       *)
LEMMA LinkOps_Step ==
  ASSUME TypeOK, HeldDescriptors, LinkHeld, NEW l \in Links, LinkInStep(l),
         OpStore \/ OpCtr \/ OpSet \/ OpTickStore \/ OpTimecode
  PROVE  LinkInStep(l)'
<1>1. /\ vpc \in {"ops", "store", "tick", "timecode"} /\ todo # <<>>
      /\ vpc' = "ops" /\ todo' = Tail(todo) /\ UNCHANGED vlink /\ vlink \in Links
  BY DEF OpStore, OpCtr, OpSet, OpTickStore, OpTimecode, Executing, HeldDescriptors
<1>2. CASE vlink # l
  <2>1. ctr'[l] = ctr[l] /\ str'[l] = str[l]
    BY <1>2 DEF OpStore, OpCtr, OpSet, OpTickStore, OpTimecode, regs, TypeOK, RegsType
  <2>2. Pending(l) = <<>> /\ Pending(l)' = <<>> /\ StrWord(l) = str[l] /\ StrWord(l)' = str'[l]
    BY <1>1, <1>2 DEF Pending, StrWord, Loaded
  <2> QED
    BY <2>1, <2>2, LinkKept
<1>3. CASE vlink = l
  <2>1. ctr \in [Links -> SUBSET Bits] /\ str \in [Links -> SUBSET Bits]
    BY DEF TypeOK, RegsType
  <2>2. ctr'[l] = IF Head(todo).reg = "ctr" THEN Modify(ctr[l], Head(todo)) ELSE ctr[l]
    BY <1>3, <2>1 DEF OpStore, OpCtr, OpSet, OpTickStore, OpTimecode, Executing, LinkHeld, regs
  <2>3. str'[l] = IF Head(todo).reg = "str" THEN Modify(StrWord(l), Head(todo)) ELSE str[l]
    BY <1>3, <2>1 DEF OpStore, OpCtr, OpSet, OpTickStore, OpTimecode, Executing, LinkHeld, regs,
                      StrWord, Loaded
  <2>4. Head(todo).reg # "str" => StrWord(l) = str[l]
    BY DEF StrWord, Loaded
  <2> QED
    BY <1>1, <1>3, <2>2, <2>3, <2>4, LinkOperation
<1> QED
  BY <1>2, <1>3

LEMMA LinkLoad_Step ==
  ASSUME TypeOK, NEW l \in Links, LinkInStep(l), OpLoad \/ OpTimeLoad
  PROVE  LinkInStep(l)'
<1>1. Pending(l)' = Pending(l) /\ UNCHANGED ctr[l]
  BY DEF OpLoad, OpTimeLoad, Pending, Executing, regs
<1>2. StrWord(l)' = StrWord(l)
  BY DEF OpLoad, OpTimeLoad, StrWord, Loaded, Executing, regs
<1> QED
  BY <1>1, <1>2, LinkKept

(* A write handler begins.                                                 *)
LEMMA LinkWrite_Step ==
  ASSUME TypeOK, NEW l \in Links, LinkInStep(l), NEW m \in Links, NEW w \in GuestWrites,
         GuestWrite(m, w)
  PROVE  LinkInStep(l)'
<1>1. /\ vpc = "guest" /\ vpc' = "ops" /\ vlink' = m /\ todo' = WriteOps(w)
      /\ UNCHANGED <<ctr, str>>
  BY DEF GuestWrite, regs
<1>2. Pending(l) = <<>> /\ ~Loaded(l) /\ ~Loaded(l)'
  BY <1>1 DEF Pending, Loaded
<1>3. CASE m # l
  <2>1. Pending(l)' = <<>>
    BY <1>1, <1>3 DEF Pending
  <2> QED
    BY <1>1, <1>2, <2>1, NothingPending
<1>4. CASE m = l
  <2>1. w \in [reg : WriteRegs, bits : SUBSET Bits, num : Byte]
    BY SimAssumption
  <2>2. InStepAfter(<<>>, ctr[l], str[l])
    BY <1>2, InStepIsAfter DEF StrWord
  <2>3. InStepAfter(WriteOps(w), ctr[l], str[l])
    BY <2>1, <2>2, WriteInStep
  <2>4. Pending(l)' = WriteOps(w) /\ StrWord(l)' = str[l] /\ ctr'[l] = ctr[l]
    BY <1>1, <1>2, <1>4 DEF Pending, StrWord
  <2> QED
    BY <2>3, <2>4 DEF LinkInStep, InStepAfter, CtrAfter, StrAfter, StrWord
<1> QED
  BY <1>3, <1>4

(* The rx thread stores a flag: the link state is the one it loaded, and   *)
(* unless that is stale the register keeps it.                             *)
LEMMA LinkRxStore_Step ==
  ASSUME TypeOK, LinkHeld, NEW l \in Links, LinkInStep(l), ~StaleLinkStore(l), RxStore
  PROVE  LinkInStep(l)'
<1>1. UNCHANGED <<ctr, vpc, vlink, todo, vbits>> /\ rpc = "store"
  BY DEF RxStore, vcpu
<1>2. Pending(l)' = Pending(l) /\ Loaded(l)' = Loaded(l)
  BY <1>1 DEF Pending, Loaded
<1>3. ASSUME NEW b \in LinkState
      PROVE  b \in str[l] <=> b \in str'[l]
  <2>1. str \in [Links -> SUBSET Bits]
    BY DEF TypeOK, RegsType
  <2>2. CASE rop.reg = "str" /\ rmsg.link = l
    <3>1. str'[l] = Modify(rbits, rop)
      BY <2>1, <2>2 DEF RxStore
    <3>2. b \in rbits <=> b \in str[l]
      BY <1>1, <2>2 DEF StaleLinkStore
    <3>3. b \notin rop.clr /\ b \notin rop.set
      BY <2>2 DEF LinkHeld
    <3> QED
      BY <3>1, <3>2, <3>3 DEF Modify, setbit, clearbit
  <2>3. CASE ~(rop.reg = "str" /\ rmsg.link = l)
    BY <2>1, <2>3 DEF RxStore
  <2> QED
    BY <2>2, <2>3
<1>4. \A b \in LinkState : b \in StrWord(l) <=> b \in StrWord(l)'
  BY <1>1, <1>2, <1>3 DEF StrWord
<1> QED
  BY <1>1, <1>2, <1>4, LinkKept

LEMMA LinkRestart_Step ==
  ASSUME NEW l \in Links, QemuRestart
  PROVE  LinkInStep(l)'
<1>1. Pending(l)' = <<>> /\ StrWord(l)' = {} /\ ctr'[l] = {"RE", "LS"}
  BY DEF QemuRestart, Pending, StrWord, Loaded, Each
<1>2. \A r, b, c : SetAfter(r, b, <<>>, c) <=> b \in c
  BY NotNamed DEF NamedIn
<1>3. InStepAfter(<<>>, {"RE", "LS"}, {})
  <2>1. "LS2" \in LinkRun
    BY DEF LinkRun
  <2> QED
    BY <1>2, <2>1 DEF InStepAfter
<1> QED
  BY <1>1, <1>3 DEF LinkInStep, InStepAfter, CtrAfter, StrAfter, StrWord

(* The other steps of the vCPU thread do no operation on the link.         *)
LEMMA LinkTx_Step ==
  ASSUME TypeOK, NEW l \in Links, LinkInStep(l),
         TxEnable \/ TxFetch \/ TxSend \/ TxWait \/ TxRelock \/ TxFinish \/ TxStop
  PROVE  LinkInStep(l)'
<1>1. CASE TxEnable \/ TxWait \/ TxRelock \/ TxFinish \/ TxStop
  <2>1. UNCHANGED <<ctr, str>>
    BY <1>1 DEF TxEnable, TxWait, TxRelock, TxFinish, TxStop, regs
  <2>2. Pending(l) = <<>> /\ Pending(l)' = <<>> /\ ~Loaded(l) /\ ~Loaded(l)'
    BY <1>1 DEF TxEnable, TxWait, TxRelock, TxFinish, TxStop, OpsDone, Pending, Loaded
  <2> QED
    BY <2>1, <2>2, NothingPending
<1>2. CASE TxFetch \/ TxSend
  <2>1. UNCHANGED <<ctr, str>> /\ UNCHANGED vlink
    BY <1>2 DEF TxFetch, TxSend, regs
  <2>2. Pending(l) = <<>> /\ ~Loaded(l) /\ ~Loaded(l)'
    BY <1>2 DEF TxFetch, TxSend, Pending, Loaded
  <2>3. Pending(l)' \in {<<>>, todo'}
    BY DEF Pending
  <2>4. CASE Pending(l)' = <<>>
    BY <2>1, <2>2, <2>4, NothingPending
  <2>5. CASE Pending(l)' # <<>>
    <3>1. PICK op \in {Rmw("chn", {"TE"}, {}), Rmw("chn", {}, {"PS"})} : Pending(l)' = <<op>>
      <4>1. CASE TxFetch
        <5>1. vpc' = "ops" /\ todo' = <<Rmw("chn", {"TE"}, {})>>
          BY <2>5, <4>1 DEF TxFetch, Pending
        <5> QED
          BY <2>3, <2>5, <5>1
      <4>2. CASE TxSend
        BY <2>3, <2>5, <4>2 DEF TxSend
      <4> QED
        BY <1>2, <4>1, <4>2
    <3>2. op \in Op /\ op.reg = "chn"
      BY FlagType, RmwType DEF Rmw
    <3>3. LeavesLink(<<op>>)
      BY <3>2, OneNamesNoLink DEF LeavesLink
    <3>4. InStepAfter(<<>>, ctr[l], str[l])
      BY <2>2, InStepIsAfter DEF StrWord
    <3>5. InStepAfter(<<op>>, ctr[l], str[l])
      BY <3>3, <3>4, LinkUnnamed DEF LeavesLink
    <3>6. StrWord(l)' = str[l] /\ ctr'[l] = ctr[l]
      BY <2>1, <2>2 DEF StrWord
    <3> QED
      BY <3>1, <3>5, <3>6 DEF LinkInStep, InStepAfter, CtrAfter, StrAfter, StrWord
  <2> QED
    BY <2>4, <2>5
<1> QED
  BY <1>1, <1>2

LEMMA LinkStep ==
  ASSUME TypeOK, HeldDescriptors, LinkHeld, [Next]_vars,
         NEW l \in Links, LinkInStep(l), ~StaleLinkStore(l)
  PROVE  LinkInStep(l)'
<1>1. CASE Guest
  <2>1. CASE \E m \in Links, w \in GuestWrites : GuestWrite(m, w)
    BY <2>1, LinkWrite_Step
  <2>2. CASE \/ \E m \in Links, i \in 0..(TxRing - 1) : GuestArmTx(m, i)
             \/ \E m \in Links, i \in 0..(RxRing - 1) : GuestArmRx(m, i)
    BY <2>2, LinkUntouched DEF GuestArmTx, GuestArmRx, regs, vcpu
  <2>3. CASE GuestRead
    <3>1. /\ UNCHANGED <<ctr, str>> /\ Pending(l) = <<>> /\ Pending(l)' = <<>>
          /\ ~Loaded(l) /\ ~Loaded(l)'
      BY <2>3 DEF GuestRead, regs, Pending, Loaded
    <3> QED
      BY <3>1, NothingPending
  <2> QED
    BY <1>1, <2>1, <2>2, <2>3 DEF Guest
<1>2. CASE ReadLocked \/ TxSpuriousWakeup
  <2>1. /\ UNCHANGED <<ctr, str>> /\ Pending(l) = <<>> /\ Pending(l)' = <<>>
        /\ ~Loaded(l) /\ ~Loaded(l)'
    BY <1>2 DEF ReadLocked, TxSpuriousWakeup, regs, Pending, Loaded
  <2> QED
    BY <2>1, NothingPending
<1>3. CASE OpLoad \/ OpTimeLoad
  BY <1>3, LinkLoad_Step
<1>4. CASE OpStore \/ OpCtr \/ OpSet \/ OpTickStore \/ OpTimecode
  BY <1>4, LinkOps_Step
<1>5. CASE TxEnable \/ TxFetch \/ TxSend \/ TxWait \/ TxRelock \/ TxFinish \/ TxStop
  BY <1>5, LinkTx_Step
<1>6. CASE RxStore
  BY <1>6, LinkRxStore_Step
<1>7. CASE RxSignal
  <2>1. UNCHANGED <<ctr, str, vlink, todo, vbits>> /\ (vpc' = vpc \/ (vpc = "waiting" /\ vpc' = "relock"))
    BY <1>7 DEF RxSignal, regs
  <2>2. Pending(l)' = Pending(l) /\ StrWord(l)' = StrWord(l) /\ UNCHANGED ctr[l]
    BY <2>1 DEF Pending, StrWord, Loaded
  <2> QED
    BY <2>2, LinkKept
<1>8. CASE \/ RxReceive \/ RxLoad \/ RxCheckEnabled \/ RxCheckAddress \/ RxCheckAvailable
           \/ RxFetch \/ RxCopy \/ RxGiveBack \/ RxTimeCompare \/ RxTimeStore
  <2>1. UNCHANGED <<ctr, str, vpc, vlink, todo, vbits>>
    BY <1>8 DEF RxReceive, RxLoad, RxCheckEnabled, RxCheckAddress, RxCheckAvailable, RxCheck,
                RxFetch, RxCopy, RxGiveBack, RxTimeCompare, RxTimeStore, regs, vcpu
  <2> QED
    BY <2>1, LinkUntouched
<1>9. CASE Device \/ DevRestart \/ UNCHANGED vars
  <2>1. UNCHANGED <<ctr, str, vpc, vlink, todo, vbits>>
    BY <1>9 DEF Device, DevReceive, DevAck, DevSend, DevRestart, vars, regs, vcpu
  <2> QED
    BY <2>1, LinkUntouched
<1>10. CASE QemuRestart
  BY <1>10, LinkRestart_Step
<1> QED
  BY <1>1, <1>2, <1>3, <1>4, <1>5, <1>6, <1>7, <1>8, <1>9, <1>10
     DEF Next, Handler, RxThread, Faults

(* Whatever is written to SPWCTR and SPWSTR, alone or LS and LD together,  *)
(* and wherever the rx thread comes between two operations of the handler, *)
(* the link state follows LS and LD once the handler is through, unless    *)
(* the rx thread stores a word of SPWSTR whose link state is out of date.  *)
THEOREM LinkLostOnlyToStaleStore == Spec => LinkLostToStaleStore
<1>1. Init => LinkHeld
  BY DEF Init, LinkHeld, Rmw
<1>2. TypeOK /\ HeldDescriptors /\ LinkHeld /\ [Next]_vars => LinkHeld'
  BY LinkHeldStep
<1>3. TypeOK /\ HeldDescriptors /\ LinkHeld /\ [Next]_vars =>
        [\A l \in Links : LinkInStep(l) /\ ~LinkInStep(l)' => StaleLinkStore(l)]_vars
  BY LinkStep
<1> QED
  BY <1>1, <1>2, <1>3, TypeCorrect, PTL DEF Spec, LinkLostToStaleStore
=============================================================================
