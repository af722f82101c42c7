----------------------------- MODULE KeyboardProofs -----------------------------
(* Theorems about RemoteInput, for any keys, users and preferences: the remote
   never sees a key pressed twice or released twice, a Command combo the menu took
   leaves no trace, and a view without the focus holds no key on the remote,
   however much of what it sent was dropped between two legs. *)
EXTENDS RemoteInput, WellFoundedInduction, FiniteSetTheorems, TLAPS

-----------------------------------------------------------------------------
(* Folds.  FoldLeft is a recursive function on sets of indices; what follows
   shows that it goes through a sequence from the left. *)

\* Induction over the naturals, for a set: from their being well-founded.
LEMMA Induct ==
    ASSUME NEW S, 0 \in S, \A n \in Nat : n \in S => n + 1 \in S
    PROVE  Nat \subseteq S
<1> DEFINE Less == OpToRel(<, Nat)
           T == Nat \ S
<1>1. IsWellFoundedOn(Less, Nat) BY NatLessThanWellFounded
<1>2. \A m, n \in Nat : m < n => <<m, n>> \in Less BY DEF OpToRel
<1> HIDE DEF Less
<1>3. SUFFICES ASSUME T # {} PROVE FALSE
  OBVIOUS
<1>4. PICK n \in T : \A m \in T : ~ (<<m, n>> \in Less)
  BY <1>1, <1>3, WFMin
<1>5. n \in Nat /\ n # 0 /\ n - 1 \in Nat
  OBVIOUS
<1>6. n - 1 \in S
  <2>1. <<n - 1, n>> \in Less
    BY <1>2, <1>5
  <2>2. n - 1 \notin T
    BY <1>4, <2>1
  <2> QED
    BY <1>5, <2>2
<1> QED
  BY <1>5, <1>6

\* What defines a fold of the community modules over 1 .. n, for a function F.
Folding(F, base, n, g) ==
  g = [s \in SUBSET (1 .. n) |-> IF s = {} THEN base ELSE F[Max(s)][g[s \ {Max(s)}]]]

\* The last index is the one a fold takes first.
LEMMA MaxIs ==
  ASSUME NEW m \in Nat, NEW s \in SUBSET (1 .. m), m \in s
  PROVE  Max(s) = m
<1> DEFINE P(x) == x \in s /\ \A y \in s : x >= y
<1>1. P(m)
  OBVIOUS
<1>2. \A x : P(x) => x = m
  OBVIOUS
<1>3. P(CHOOSE x : P(x))
  BY <1>1
<1>4. Max(s) = CHOOSE x : P(x)
  BY DEF Max
<1> QED
  BY <1>2, <1>3, <1>4

LEMMA MaxIn ==
  ASSUME NEW n \in Nat, NEW s \in SUBSET (1 .. n), s # {}
  PROVE  Max(s) \in s
<1> DEFINE P(x) == x \in s /\ \A y \in s : x >= y
           S == {m \in Nat : \A z \in SUBSET (1 .. m) : z # {} => \E x \in z : \A y \in z : x >= y}
<1>1. 0 \in S
  <2>1. \A z \in SUBSET (1 .. 0) : z = {}
    OBVIOUS
  <2> QED
    BY <2>1
<1>2. ASSUME NEW m \in Nat, m \in S
      PROVE  m + 1 \in S
  <2>1. ASSUME NEW z \in SUBSET (1 .. m + 1), z # {}
        PROVE  \E x \in z : \A y \in z : x >= y
    <3>1. CASE m + 1 \in z
      BY <3>1
    <3>2. CASE m + 1 \notin z
      <4>1. z \in SUBSET (1 .. m)
        BY <3>2
      <4> QED
        BY <1>2, <2>1, <4>1
    <3> QED
      BY <3>1, <3>2
  <2> QED
    BY <2>1
<1>3. Nat \subseteq S
  <2> HIDE DEF S
  <2> QED
    BY <1>1, <1>2, Induct
<1>4. \E x : P(x)
  BY <1>3
<1>5. P(CHOOSE x : P(x))
  BY <1>4
<1>6. Max(s) = CHOOSE x : P(x)
  BY DEF Max
<1> QED
  BY <1>5, <1>6

\* There is such a function, so the CHOOSE of the fold finds one.
LEMMA FoldExists ==
  ASSUME NEW n \in Nat, NEW A, NEW base \in A, NEW F \in [1 .. n -> [A -> A]]
  PROVE  \E g : Folding(F, base, n, g) /\ g \in [SUBSET (1 .. n) -> A]
<1> DEFINE Good(m) == \E g : Folding(F, base, m, g) /\ g \in [SUBSET (1 .. m) -> A]
           S == {m \in Nat : m <= n => Good(m)}
<1>1. Good(0)
  <2> DEFINE g == [s \in SUBSET (1 .. 0) |-> base]
  <2>1. \A s \in SUBSET (1 .. 0) : s = {}
    OBVIOUS
  <2>2. Folding(F, base, 0, g)
    BY <2>1 DEF Folding
  <2>3. g \in [SUBSET (1 .. 0) -> A]
    OBVIOUS
  <2> QED
    BY <2>2, <2>3
<1>2. ASSUME NEW m \in Nat, Good(m), m + 1 <= n
      PROVE  Good(m + 1)
  <2>1. PICK g : Folding(F, base, m, g) /\ g \in [SUBSET (1 .. m) -> A]
    BY <1>2
  <2> DEFINE h == [s \in SUBSET (1 .. m + 1) |-> IF m + 1 \in s THEN F[m + 1][g[s \ {m + 1}]] ELSE g[s]]
  <2>2. ASSUME NEW s \in SUBSET (1 .. m + 1)
        PROVE  h[s] \in A /\ h[s] = IF s = {} THEN base ELSE F[Max(s)][h[s \ {Max(s)}]]
    <3>1. CASE m + 1 \in s
      <4>1. Max(s) = m + 1
        BY <3>1, MaxIs
      <4>2. s \ {m + 1} \in SUBSET (1 .. m) /\ m + 1 \notin s \ {m + 1}
        BY <3>1
      <4>3. h[s \ {m + 1}] = g[s \ {m + 1}]
        BY <4>2
      <4>4. h[s] = F[m + 1][g[s \ {m + 1}]]
        BY <3>1
      <4>5. g[s \ {m + 1}] \in A /\ F[m + 1] \in [A -> A]
        BY <1>2, <2>1, <4>2
      <4>6. s # {}
        BY <3>1
      <4> HIDE DEF h
      <4> QED
        BY <4>1, <4>3, <4>4, <4>5, <4>6
    <3>2. CASE m + 1 \notin s
      <4>1. s \in SUBSET (1 .. m)
        BY <3>2
      <4>2. g[s] = IF s = {} THEN base ELSE F[Max(s)][g[s \ {Max(s)}]]
        BY <2>1, <4>1 DEF Folding
      <4>3. s \ {Max(s)} \in SUBSET (1 .. m)
        BY <4>1
      <4>4. h[s \ {Max(s)}] = g[s \ {Max(s)}]
        BY <4>3
      <4> QED
        BY <2>1, <3>2, <4>1, <4>2, <4>4
    <3> QED
      BY <3>1, <3>2
  <2> HIDE DEF h
  <2>3. h = [s \in SUBSET (1 .. m + 1) |-> h[s]]
    BY DEF h
  <2>4. Folding(F, base, m + 1, h)
    BY <2>2, <2>3 DEF Folding
  <2>5. h \in [SUBSET (1 .. m + 1) -> A]
    BY <2>2, <2>3
  <2> QED
    BY <2>4, <2>5
<1> HIDE DEF Good
<1>3. Nat \subseteq S
  <2>1. \A m \in Nat : m \in S => m + 1 \in S
    BY <1>2
  <2>2. 0 \in S
    BY <1>1
  <2> HIDE DEF S
  <2> QED
    BY <2>1, <2>2, Induct
<1>4. Good(n)
  BY <1>3
<1> QED
  BY <1>4 DEF Good

\* An initial segment of indices and the one before it.
LEMMA Initial ==
  ASSUME NEW n \in Nat, NEW k \in 1 .. n
  PROVE  1 .. k \in SUBSET (1 .. n) /\ k \in 1 .. k /\ (1 .. k) \ {k} = 1 .. k - 1
<1>1. k \in Nat /\ k >= 1 /\ k <= n
  OBVIOUS
<1>2. 1 .. k \in SUBSET (1 .. n)
  BY <1>1
<1>3. k \in 1 .. k
  BY <1>1
<1>4. (1 .. k) \ {k} = 1 .. k - 1
  <2>1. ASSUME NEW x \in (1 .. k) \ {k}
        PROVE  x \in 1 .. k - 1
    BY <1>1
  <2>2. ASSUME NEW x \in 1 .. k - 1
        PROVE  x \in (1 .. k) \ {k}
    BY <1>1
  <2> QED
    BY <2>1, <2>2
<1> QED
  BY <1>2, <1>3, <1>4

\* The values a fold goes through, from the base to its result.
Chain(F, base, n, A, h) ==
  /\ h \in [0 .. n -> A]
  /\ h[0] = base
  /\ \A k \in 1 .. n : h[k] = F[k][h[k - 1]]

\* g behaves as a fold on the initial segments.
Stepwise(F, base, n, A, g) ==
  /\ n \in Nat /\ base \in A /\ F \in [1 .. n -> [A -> A]]
  /\ g[{}] = base
  /\ \A k \in 1 .. n : g[1 .. k - 1] \in A => g[1 .. k] = F[k][g[1 .. k - 1]]

\* Such a function goes through a chain.
LEMMA Chained ==
  ASSUME NEW n, NEW A, NEW base, NEW F, NEW g, Stepwise(F, base, n, A, g)
  PROVE  \E h : Chain(F, base, n, A, h) /\ h[n] = g[1 .. n]
<1>1. /\ n \in Nat /\ base \in A /\ F \in [1 .. n -> [A -> A]] /\ g[{}] = base
      /\ \A k \in 1 .. n : g[1 .. k - 1] \in A => g[1 .. k] = F[k][g[1 .. k - 1]]
  BY DEF Stepwise
<1> DEFINE h == [k \in 0 .. n |-> g[1 .. k]]
           S == {k \in Nat : k <= n => g[1 .. k] \in A}
<1>2. 1 .. 0 = {}
  OBVIOUS
<1>3. \A k \in Nat : k \in S => k + 1 \in S
  <2>1. SUFFICES ASSUME NEW k \in Nat, g[1 .. k] \in A, k + 1 <= n
                 PROVE  g[1 .. k + 1] \in A
    BY <1>1
  <2>2. k + 1 \in 1 .. n /\ (k + 1) - 1 = k
    BY <1>1, <2>1
  <2>3. g[1 .. k + 1] = F[k + 1][g[1 .. k]]
    BY <1>1, <2>1, <2>2
  <2> QED
    BY <1>1, <2>1, <2>2, <2>3
<1>4. Nat \subseteq S
  <2>1. 0 \in S
    BY <1>1, <1>2
  <2> HIDE DEF S
  <2> QED
    BY <1>3, <2>1, Induct
<1>5. \A k \in 0 .. n : g[1 .. k] \in A
  BY <1>1, <1>4
<1>6. \A k \in 1 .. n : k \in 0 .. n /\ k - 1 \in 0 .. n
  BY <1>1
<1>7. Chain(F, base, n, A, h)
  BY <1>1, <1>2, <1>5, <1>6 DEF Chain
<1>8. h[n] = g[1 .. n]
  BY <1>1
<1> HIDE DEF h
<1> QED
  BY <1>7, <1>8

\* What every step of a chain preserves holds at its end.
LEMMA ChainKeeps ==
  ASSUME NEW n \in Nat, NEW F, NEW base, NEW A, NEW h, Chain(F, base, n, A, h), NEW S,
         base \in S[0],
         \A k \in 1 .. n : \A a \in A : a \in S[k - 1] => F[k][a] \in S[k]
  PROVE  h[n] \in S[n]
<1> DEFINE T == {k \in Nat : k <= n => h[k] \in S[k]}
<1>1. 0 \in T
  BY DEF Chain
<1>2. \A k \in Nat : k \in T => k + 1 \in T
  <2>1. SUFFICES ASSUME NEW k \in Nat, h[k] \in S[k], k + 1 <= n
                 PROVE  h[k + 1] \in S[k + 1]
    OBVIOUS
  <2>2. k + 1 \in 1 .. n /\ (k + 1) - 1 = k /\ k \in 0 .. n
    BY <2>1
  <2>3. h[k] \in A /\ h[k + 1] = F[k + 1][h[k]]
    BY <2>2 DEF Chain
  <2> QED
    BY <2>1, <2>2, <2>3
<1>3. Nat \subseteq T
  <2> HIDE DEF T
  <2> QED
    BY <1>1, <1>2, Induct
<1> QED
  BY <1>3

-----------------------------------------------------------------------------
(* Types.                                                                   *)

Events ==
  [type : {"Key"}, sc : Scancodes, down : BOOLEAN]
    \cup [type : {"Unicode", "ReleaseAll"}]
    \cup [type : {"SyncToggles"}, caps : BOOLEAN]
    \cup [type : {"MouseButton"}, button : MouseButton, down : BOOLEAN]

Commands == {m \in ModifierKey : is_command(m)}
Holdings == {h \in UNION {[ks -> Scancodes] : ks \in SUBSET Keys} : IsFiniteSet(DOMAIN h)}

Keyboards ==
  [prefs : Prefs, keyboard : {"Ansi"}, mods : SUBSET ModifierKey,
   mod_sent : [ModifierKey -> Scancodes \cup {NoScancode}],
   cmd_pending : SUBSET Commands, cmd_consumed : SUBSET Commands, held_keys : Holdings,
   pressed : [Scancodes -> Nat], caps : SUBSET BOOLEAN, out : Seq(Events)]

Wires == [held : SUBSET Scancodes, ok : BOOLEAN]
Encoders == [keys : SUBSET Scancodes, buttons : SUBSET MouseButton]

\* Steps over an event, and the encoder's, stay within their types.
LEMMA StepTyped ==
  ASSUME NEW W \in Wires, NEW e \in Events
  PROVE  Step(W, e) \in Wires
BY DEF Wires, Events, Step

LEMMA EncodeTyped ==
  ASSUME NEW E \in Encoders, NEW e \in Events
  PROVE  encode(E, e) \in Encoders
BY DEF Encoders, Events, encode

StepF(s) == [k \in 1 .. Len(s) |-> [W \in Wires |-> Step(W, s[k])]]
EncodeF(s) == [k \in 1 .. Len(s) |-> [E \in Encoders |-> encode(E, s[k])]]

\* Replay goes through the events from the left.
LEMMA ReplayChain ==
  ASSUME NEW W \in Wires, NEW s \in Seq(Events)
  PROVE  \E h : Chain(StepF(s), W, Len(s), Wires, h) /\ Replay(W, s) = h[Len(s)]
<1> DEFINE n == Len(s)
           Right(g) == g = [t \in SUBSET DOMAIN s |-> IF t = {} THEN W ELSE Step(g[t \ {Max(t)}], s[Max(t)])]
           it == CHOOSE g : Right(g)
<1>1. Replay(W, s) = it[DOMAIN s]
  BY DEF Replay, FoldLeft, MapThenFoldSet
<1>2. n \in Nat /\ DOMAIN s = 1 .. n /\ \A k \in 1 .. n : s[k] \in Events
  OBVIOUS
<1>3. StepF(s) \in [1 .. n -> [Wires -> Wires]]
  BY <1>2, StepTyped DEF StepF
<1>4. Right(it)
  <2>1. PICK g : Folding(StepF(s), W, n, g) /\ g \in [SUBSET (1 .. n) -> Wires]
    BY <1>2, <1>3, FoldExists
  <2>2. ASSUME NEW t \in SUBSET (1 .. n), t # {}
        PROVE  StepF(s)[Max(t)][g[t \ {Max(t)}]] = Step(g[t \ {Max(t)}], s[Max(t)])
    <3>1. Max(t) \in 1 .. n
      BY <1>2, <2>2, MaxIn
    <3>2. g[t \ {Max(t)}] \in Wires
      BY <2>1
    <3> QED
      BY <3>1, <3>2 DEF StepF
  <2>3. Right(g)
    BY <1>2, <2>1, <2>2 DEF Folding
  <2> QED
    BY <2>3
<1> HIDE DEF it
<1>5. it[{}] = W
  BY <1>4
<1>6. ASSUME NEW k \in 1 .. n, it[1 .. k - 1] \in Wires
      PROVE  it[1 .. k] = StepF(s)[k][it[1 .. k - 1]]
  <2>1. 1 .. k \in SUBSET DOMAIN s /\ k \in 1 .. k /\ (1 .. k) \ {k} = 1 .. k - 1
    BY <1>2, Initial
  <2>2. Max(1 .. k) = k
    BY <2>1, MaxIs
  <2>3. it[1 .. k] = Step(it[1 .. k - 1], s[k])
    BY <1>4, <2>1, <2>2
  <2> QED
    BY <1>2, <1>6, <2>3 DEF StepF
<1>7. \E h : Chain(StepF(s), W, n, Wires, h) /\ h[n] = it[1 .. n]
  <2> DEFINE F == StepF(s)
  <2>1. Stepwise(F, W, n, Wires, it)
    BY <1>2, <1>3, <1>5, <1>6 DEF Stepwise
  <2> HIDE DEF F, n
  <2>2. \E h : Chain(F, W, n, Wires, h) /\ h[n] = it[1 .. n]
    BY <2>1, Chained
  <2> QED
    BY <2>2 DEF F
<1> QED
  BY <1>1, <1>2, <1>7

\* encode_all goes through the events from the left.
LEMMA EncodeChain ==
  ASSUME NEW E \in Encoders, NEW s \in Seq(Events)
  PROVE  \E h : Chain(EncodeF(s), E, Len(s), Encoders, h) /\ encode_all(E, s) = h[Len(s)]
<1> DEFINE n == Len(s)
           Right(g) == g = [t \in SUBSET DOMAIN s |-> IF t = {} THEN E ELSE encode(g[t \ {Max(t)}], s[Max(t)])]
           it == CHOOSE g : Right(g)
<1>1. encode_all(E, s) = it[DOMAIN s]
  BY DEF encode_all, FoldLeft, MapThenFoldSet
<1>2. n \in Nat /\ DOMAIN s = 1 .. n /\ \A k \in 1 .. n : s[k] \in Events
  OBVIOUS
<1>3. EncodeF(s) \in [1 .. n -> [Encoders -> Encoders]]
  BY <1>2, EncodeTyped DEF EncodeF
<1>4. Right(it)
  <2>1. PICK g : Folding(EncodeF(s), E, n, g) /\ g \in [SUBSET (1 .. n) -> Encoders]
    BY <1>2, <1>3, FoldExists
  <2>2. ASSUME NEW t \in SUBSET (1 .. n), t # {}
        PROVE  EncodeF(s)[Max(t)][g[t \ {Max(t)}]] = encode(g[t \ {Max(t)}], s[Max(t)])
    <3>1. Max(t) \in 1 .. n
      BY <1>2, <2>2, MaxIn
    <3>2. g[t \ {Max(t)}] \in Encoders
      BY <2>1
    <3> QED
      BY <3>1, <3>2 DEF EncodeF
  <2>3. Right(g)
    BY <1>2, <2>1, <2>2 DEF Folding
  <2> QED
    BY <2>3
<1> HIDE DEF it
<1>5. it[{}] = E
  BY <1>4
<1>6. ASSUME NEW k \in 1 .. n, it[1 .. k - 1] \in Encoders
      PROVE  it[1 .. k] = EncodeF(s)[k][it[1 .. k - 1]]
  <2>1. 1 .. k \in SUBSET DOMAIN s /\ k \in 1 .. k /\ (1 .. k) \ {k} = 1 .. k - 1
    BY <1>2, Initial
  <2>2. Max(1 .. k) = k
    BY <2>1, MaxIs
  <2>3. it[1 .. k] = encode(it[1 .. k - 1], s[k])
    BY <1>4, <2>1, <2>2
  <2> QED
    BY <1>2, <1>6, <2>3 DEF EncodeF
<1>7. \E h : Chain(EncodeF(s), E, n, Encoders, h) /\ h[n] = it[1 .. n]
  <2> DEFINE F == EncodeF(s)
  <2>1. Stepwise(F, E, n, Encoders, it)
    BY <1>2, <1>3, <1>5, <1>6 DEF Stepwise
  <2> HIDE DEF F, n
  <2>2. \E h : Chain(F, E, n, Encoders, h) /\ h[n] = it[1 .. n]
    BY <2>1, Chained
  <2> QED
    BY <2>2 DEF F
<1> QED
  BY <1>1, <1>2, <1>7

\* Two chains of the same steps are the same.
LEMMA ChainUnique ==
  ASSUME NEW n \in Nat, NEW F, NEW base, NEW A, NEW g, NEW h, Chain(F, base, n, A, g), Chain(F, base, n, A, h)
  PROVE  g[n] = h[n]
<1> DEFINE S == [k \in 0 .. n |-> {h[k]}]
<1>1. base \in S[0]
  BY DEF Chain
<1>2. \A k \in 1 .. n : \A a \in A : a \in S[k - 1] => F[k][a] \in S[k]
  <2>1. \A k \in 1 .. n : k \in 0 .. n /\ k - 1 \in 0 .. n
    OBVIOUS
  <2> QED
    BY <2>1 DEF Chain
<1>3. g[n] \in S[n]
  <2> HIDE DEF S
  <2> QED
    BY <1>1, <1>2, ChainKeeps
<1> QED
  BY <1>3

-----------------------------------------------------------------------------
(* Replay and encode_all over events one after the other.                   *)

LEMMA ReplayEmpty ==
  ASSUME NEW W \in Wires
  PROVE  Replay(W, << >>) = W
<1>1. << >> \in Seq(Events) /\ Len(<< >>) = 0
  OBVIOUS
<1> QED
  BY <1>1, ReplayChain DEF Chain

LEMMA ReplayTyped ==
  ASSUME NEW W \in Wires, NEW s \in Seq(Events)
  PROVE  Replay(W, s) \in Wires
<1>1. PICK h : Chain(StepF(s), W, Len(s), Wires, h) /\ Replay(W, s) = h[Len(s)]
  BY ReplayChain
<1>2. Len(s) \in 0 .. Len(s)
  OBVIOUS
<1> QED
  BY <1>1, <1>2 DEF Chain

LEMMA ReplayAppend ==
  ASSUME NEW W \in Wires, NEW s \in Seq(Events), NEW e \in Events
  PROVE  Replay(W, Append(s, e)) = Step(Replay(W, s), e)
<1> DEFINE t == Append(s, e)
           n == Len(s)
<1>1. t \in Seq(Events) /\ Len(t) = n + 1 /\ n \in Nat /\ t[n + 1] = e /\ \A k \in 1 .. n : t[k] = s[k]
  OBVIOUS
<1>2. PICK h : Chain(StepF(t), W, n + 1, Wires, h) /\ Replay(W, t) = h[n + 1]
  BY <1>1, ReplayChain
<1>3. PICK g : Chain(StepF(s), W, n, Wires, g) /\ Replay(W, s) = g[n]
  BY ReplayChain
<1> DEFINE f == [k \in 0 .. n |-> h[k]]
<1> HIDE DEF t
<1>4. Chain(StepF(s), W, n, Wires, f)
  <2>1. \A k \in 1 .. n : StepF(t)[k] = StepF(s)[k] /\ k \in 1 .. n + 1 /\ k - 1 \in 0 .. n + 1 /\ k \in 0 .. n + 1
    BY <1>1 DEF StepF
  <2>2. 0 \in 0 .. n
    BY <1>1
  <2>3. f \in [0 .. n -> Wires]
    BY <1>1, <1>2 DEF Chain
  <2>4. \A k \in 1 .. n : k \in 0 .. n /\ k - 1 \in 0 .. n
    BY <1>1
  <2>5. f[0] = W
    BY <1>2, <2>2 DEF Chain
  <2>6. \A k \in 1 .. n : f[k] = StepF(s)[k][f[k - 1]]
    BY <1>2, <2>1, <2>4 DEF Chain
  <2> QED
    BY <2>3, <2>5, <2>6 DEF Chain
<1>5. h[n] = g[n]
  <2>1. f[n] = g[n]
    <3> HIDE DEF f
    <3> QED
      BY <1>1, <1>3, <1>4, ChainUnique
  <2> QED
    BY <1>1, <2>1
<1>6. h[n + 1] = Step(h[n], e)
  <2>1. n + 1 \in 1 .. Len(t) /\ (n + 1) - 1 = n /\ n \in 0 .. n + 1
    BY <1>1
  <2>2. h[n] \in Wires /\ h[n + 1] = StepF(t)[n + 1][h[n]]
    BY <1>1, <1>2, <2>1 DEF Chain
  <2> QED
    BY <1>1, <2>1, <2>2 DEF StepF
<1> QED
  BY <1>2, <1>3, <1>5, <1>6 DEF t

-----------------------------------------------------------------------------
(* The tables.                                                              *)

Codes(p, m) == scancode_for(kvk_of(m), "Ansi", p.cmd_as)

LEMMA ModifierNames ==
  /\ ModifierKey = {"LeftShift", "RightShift", "LeftControl", "RightControl",
                    "LeftOption", "RightOption", "LeftCommand", "RightCommand"}
  /\ Len(ALL) = 8 /\ DOMAIN ALL = 1 .. 8 /\ ALL \in [1 .. 8 -> ModifierKey]
  /\ \A i \in 1 .. 8 : ALL[i] \in ModifierKey
  /\ \A i, j \in 1 .. 8 : ALL[i] = ALL[j] => i = j
  /\ \A m \in ModifierKey : \E i \in 1 .. 8 : ALL[i] = m
<1> DEFINE Names == {"LeftShift", "RightShift", "LeftControl", "RightControl",
                     "LeftOption", "RightOption", "LeftCommand", "RightCommand"}
<1>1. Len(ALL) = 8 /\ DOMAIN ALL = 1 .. 8
  BY DEF ALL
<1>2. ModifierKey = Names
  BY DEF ModifierKey, ALL, Range
<1>3. ALL \in [1 .. 8 -> Names] /\ \A i \in 1 .. 8 : ALL[i] \in Names
  BY DEF ALL
<1>4. \A i, j \in 1 .. 8 : ALL[i] = ALL[j] => i = j
  BY DEF ALL
<1>5. \A m \in ModifierKey : \E i \in 1 .. 8 : ALL[i] = m
  BY <1>2 DEF ALL
<1> QED
  BY <1>1, <1>2, <1>3, <1>4, <1>5

LEMMA ModifiersFinite == IsFiniteSet(ModifierKey)
<1>1. IsFiniteSet(1 .. 8)
  <2>1. 1 \in Int /\ 8 \in Int
    OBVIOUS
  <2> QED
    BY <2>1, FS_Interval, Zenon
<1>2. ALL \in Surjection(1 .. 8, ModifierKey)
  BY ModifierNames DEF Surjection
<1> QED
  BY <1>1, <1>2, FS_Surjection

LEMMA ClassesOfModifiers ==
  /\ Commands = {"LeftCommand", "RightCommand"}
  /\ \A m \in ModifierKey : \E i \in {1, 3, 5, 7} : ALL[i] \in ModifierKey /\ ClassOf(ALL[i]) = ClassOf(m)
BY ModifierNames DEF Commands, is_command, ClassOf, ALL

LEMMA TextCodes == \A k \in DOMAIN TextKeys : TextKeys[k] \in Nat \ {0}
BY SMTT(60) DEF TextKeys, ext

LEMMA OtherCodes == \A k \in DOMAIN OtherKeys : OtherKeys[k] \in Nat \ {0}
BY SMTT(60) DEF OtherKeys, ext

\* No key has the number that stands for none.
LEMMA CodesPositive ==
  ASSUME NEW k, NEW keyboard, NEW cmd_as
  PROVE  0 \notin scancode_for(k, keyboard, cmd_as)
<1>1. ASSUME k \in DOMAIN base_scancode
      PROVE  base_scancode[k] # 0
  <2>1. CASE k \in DOMAIN TextKeys
    BY <2>1, TextCodes DEF base_scancode
  <2>2. CASE k \notin DOMAIN TextKeys
    BY <1>1, <2>2, OtherCodes DEF base_scancode
  <2> QED
    BY <2>1, <2>2
<1> QED
  BY <1>1 DEF scancode_for, ext

LEMMA CodesTyped ==
  ASSUME NEW p \in Prefs, NEW k, k \in Keys \/ \E m \in ModifierKey : k = kvk_of(m)
  PROVE  scancode_for(k, "Ansi", p.cmd_as) \subseteq Scancodes
BY DEF Scancodes

LEMMA NoneIsNoCode == NoScancode \notin Scancodes
<1>1. \A k, p : 0 \notin scancode_for(k, "Ansi", p.cmd_as)
  BY CodesPositive
<1>2. 0 \notin {\h1D, \h38, ext(\h53)}
  BY DEF ext
<1> DEFINE All == {scancode_for(k, "Ansi", p.cmd_as) : k \in Keys \union {kvk_of(m) : m \in ModifierKey}, p \in Prefs}
           Rest == {\h1D, \h38, ext(\h53)}
<1>3. \A S \in All : 0 \notin S
  BY <1>1
<1>4. Scancodes = (UNION All) \cup Rest
  BY DEF Scancodes
<1>5. 0 \notin Rest
  BY <1>2
<1> HIDE DEF All, Rest
<1> QED
  BY <1>3, <1>4, <1>5 DEF NoScancode

\* The code sent for a key that has one.
LEMMA CodeChosen ==
  ASSUME NEW K \in Keyboards, NEW m \in ModifierKey, ScancodeOf(K, m) # {}
  PROVE  (CHOOSE c \in ScancodeOf(K, m) : TRUE) \in ScancodeOf(K, m) \cap Scancodes
<1>1. K.prefs \in Prefs /\ K.keyboard = "Ansi"
  BY DEF Keyboards
<1>2. ScancodeOf(K, m) \subseteq Scancodes
  BY <1>1, CodesTyped DEF ScancodeOf
<1> QED
  BY <1>2

\* The two Command keys are sent as two codes.
LEMMA CommandsApart ==
  ASSUME NEW K \in Keyboards, NEW m \in Commands, NEW o \in Commands, m # o
  PROVE  ScancodeOf(K, m) \cap ScancodeOf(K, o) = {}
<1>1. {kvk_of(m), kvk_of(o)} = {"COMMAND", "RIGHT_COMMAND"} /\ kvk_of(m) # kvk_of(o)
  BY ClassesOfModifiers DEF kvk_of
<1>2. K.keyboard = "Ansi" /\ K.prefs.cmd_as \in {"Super", "Ctrl"}
  BY InputAssumption DEF Keyboards
<1>3. scancode_for("COMMAND", "Ansi", K.prefs.cmd_as) \cap scancode_for("RIGHT_COMMAND", "Ansi", K.prefs.cmd_as) = {}
  BY <1>2 DEF scancode_for, ext
<1> QED
  BY <1>1, <1>2, <1>3 DEF ScancodeOf

-----------------------------------------------------------------------------
(* Sending.                                                                 *)

\* What the events of K.out do on a wire that holds H.
Wired(H, K) == Replay([held |-> H, ok |-> TRUE], K.out) = [held |-> RemotePressed(K), ok |-> TRUE]

Sends(H, K) == K \in Keyboards /\ Wired(H, K)

LEMMA KeyEvents ==
  ASSUME NEW sc \in Scancodes, NEW down \in BOOLEAN
  PROVE  Key(sc, down) \in Events
BY DEF Key, Events

LEMMA AppendTyped ==
  ASSUME NEW S, NEW s \in Seq(S), NEW e \in S
  PROVE  Append(s, e) \in Seq(S)
OBVIOUS

LEMMA PressSends ==
  ASSUME NEW H \in SUBSET Scancodes, NEW K, Sends(H, K), NEW sc \in Scancodes
  PROVE  /\ Sends(H, press(K, sc))
         /\ press(K, sc) = [K EXCEPT !.pressed[sc] = @ + 1,
                                     !.out = IF K.pressed[sc] = 0 THEN Append(@, Key(sc, TRUE)) ELSE @]
<1> DEFINE J == press(K, sc)
           W == [held |-> H, ok |-> TRUE]
<1>1. K \in Keyboards /\ K.out \in Seq(Events) /\ W \in Wires /\ K.pressed \in [Scancodes -> Nat]
  BY DEF Sends, Keyboards, Wires
<1>2. J = [K EXCEPT !.pressed[sc] = @ + 1,
                    !.out = IF K.pressed[sc] = 0 THEN Append(@, Key(sc, TRUE)) ELSE @]
  BY <1>1 DEF press, Send, Keyboards
<1>3. Append(K.out, Key(sc, TRUE)) \in Seq(Events) /\ Key(sc, TRUE) \in Events
  <2>1. Key(sc, TRUE) \in Events
    BY KeyEvents
  <2> QED
    BY <1>1, <2>1, AppendTyped, Zenon
<1>4. J \in Keyboards
  <2>1. [K.pressed EXCEPT ![sc] = @ + 1] \in [Scancodes -> Nat]
    BY <1>1
  <2>2. (IF K.pressed[sc] = 0 THEN Append(K.out, Key(sc, TRUE)) ELSE K.out) \in Seq(Events)
    BY <1>1, <1>3
  <2> QED
    BY <1>1, <1>2, <2>1, <2>2 DEF Keyboards
<1>5. RemotePressed(J) = RemotePressed(K) \cup {sc}
  BY <1>1, <1>2 DEF RemotePressed, Keyboards
<1>6. Wired(H, J)
  <2>1. CASE K.pressed[sc] = 0
    <3>1. J.out = Append(K.out, Key(sc, TRUE)) /\ sc \notin RemotePressed(K)
      <4>1. sc \notin RemotePressed(K)
        BY <2>1 DEF RemotePressed
      <4>2. J.out = Append(K.out, Key(sc, TRUE))
        BY <1>1, <1>2, <2>1 DEF Keyboards
      <4> QED
        BY <4>1, <4>2
    <3>2. Replay(W, J.out) = Step([held |-> RemotePressed(K), ok |-> TRUE], Key(sc, TRUE))
      BY <1>1, <1>3, <3>1, ReplayAppend DEF Sends, Wired
    <3> QED
      BY <1>5, <3>1, <3>2 DEF Wired, Step, Key
  <2>2. CASE K.pressed[sc] # 0
    <3>1. J.out = K.out /\ sc \in RemotePressed(K)
      BY <1>1, <1>2, <2>2 DEF RemotePressed, Keyboards
    <3> QED
      BY <1>5, <3>1 DEF Wired, Sends
  <2> QED
    BY <2>1, <2>2
<1> QED
  BY <1>2, <1>4, <1>6 DEF Sends

LEMMA ReleaseSends ==
  ASSUME NEW H \in SUBSET Scancodes, NEW K, Sends(H, K), NEW sc \in Scancodes, K.pressed[sc] # 0
  PROVE  /\ Sends(H, release(K, sc))
         /\ release(K, sc) = [K EXCEPT !.pressed[sc] = @ - 1,
                                       !.out = IF K.pressed[sc] = 1 THEN Append(@, Key(sc, FALSE)) ELSE @]
<1> DEFINE J == release(K, sc)
           W == [held |-> H, ok |-> TRUE]
<1>1. K \in Keyboards /\ K.out \in Seq(Events) /\ W \in Wires /\ K.pressed \in [Scancodes -> Nat]
  BY DEF Sends, Keyboards, Wires
<1>2. J = [K EXCEPT !.pressed[sc] = @ - 1,
                    !.out = IF K.pressed[sc] = 1 THEN Append(@, Key(sc, FALSE)) ELSE @]
  <2> DEFINE L == [K EXCEPT !.pressed[sc] = @ - 1]
  <2>1. L.pressed[sc] = K.pressed[sc] - 1 /\ K.pressed[sc] \in Nat /\ L.out = K.out
    BY <1>1 DEF Keyboards
  <2>2. L.pressed[sc] = 0 <=> K.pressed[sc] = 1
    BY <2>1
  <2>3. J = IF L.pressed[sc] = 0 THEN Send(L, Key(sc, FALSE)) ELSE L
    BY DEF release
  <2> QED
    BY <1>1, <2>2, <2>3 DEF Send, Keyboards
<1>3. Append(K.out, Key(sc, FALSE)) \in Seq(Events) /\ Key(sc, FALSE) \in Events
  <2>1. Key(sc, FALSE) \in Events
    BY KeyEvents
  <2> QED
    BY <1>1, <2>1, AppendTyped, Zenon
<1>4. J \in Keyboards
  <2>1. [K.pressed EXCEPT ![sc] = @ - 1] \in [Scancodes -> Nat]
    BY <1>1
  <2>2. (IF K.pressed[sc] = 1 THEN Append(K.out, Key(sc, FALSE)) ELSE K.out) \in Seq(Events)
    BY <1>1, <1>3
  <2> QED
    BY <1>1, <1>2, <2>1, <2>2 DEF Keyboards
<1>5. sc \in RemotePressed(K)
  BY <1>1 DEF RemotePressed
<1>6. RemotePressed(J) = IF K.pressed[sc] = 1 THEN RemotePressed(K) \ {sc} ELSE RemotePressed(K)
  BY <1>1, <1>2 DEF RemotePressed, Keyboards
<1>7. Wired(H, J)
  <2>1. CASE K.pressed[sc] = 1
    <3>1. J.out = Append(K.out, Key(sc, FALSE))
      BY <1>1, <1>2, <2>1 DEF Keyboards
    <3>2. Replay(W, J.out) = Step([held |-> RemotePressed(K), ok |-> TRUE], Key(sc, FALSE))
      BY <1>1, <1>3, <3>1, ReplayAppend DEF Sends, Wired
    <3> QED
      BY <1>5, <1>6, <2>1, <3>1, <3>2 DEF Wired, Step, Key
  <2>2. CASE K.pressed[sc] # 1
    <3>1. J.out = K.out
      BY <1>1, <1>2, <2>2 DEF Keyboards
    <3> QED
      BY <1>6, <2>2, <3>1 DEF Wired, Sends
  <2> QED
    BY <2>1, <2>2
<1> QED
  BY <1>2, <1>4, <1>7 DEF Sends

-----------------------------------------------------------------------------
(* Counting the holders of a scancode.                                      *)

HoldingKeys(h, sc) == {k \in DOMAIN h : h[k] = sc}
HoldingMods(f, sc) == {m \in ModifierKey : f[m] = sc}

Counted(K) ==
  \A sc \in Scancodes :
    K.pressed[sc] = Cardinality(HoldingKeys(K.held_keys, sc)) + Cardinality(HoldingMods(K.mod_sent, sc))

SentCodes == [ModifierKey -> Scancodes \cup {NoScancode}]

LEMMA KeysFinite ==
  ASSUME NEW h \in Holdings, NEW sc
  PROVE  IsFiniteSet(HoldingKeys(h, sc)) /\ Cardinality(HoldingKeys(h, sc)) \in Nat
<1>1. IsFiniteSet(DOMAIN h) /\ HoldingKeys(h, sc) \in SUBSET DOMAIN h
  BY DEF Holdings, HoldingKeys
<1>2. IsFiniteSet(HoldingKeys(h, sc))
  BY <1>1, FS_Subset
<1> QED
  BY <1>2, FS_CardinalityType

LEMMA ModsFinite ==
  ASSUME NEW f, NEW sc
  PROVE  IsFiniteSet(HoldingMods(f, sc)) /\ Cardinality(HoldingMods(f, sc)) \in Nat
<1>1. HoldingMods(f, sc) \in SUBSET ModifierKey
  BY DEF HoldingMods
<1>2. IsFiniteSet(HoldingMods(f, sc))
  BY <1>1, ModifiersFinite, FS_Subset
<1> QED
  BY <1>2, FS_CardinalityType

\* A key that was not held holds a code.
LEMMA HoldKey ==
  ASSUME NEW h \in Holdings, NEW k \in Keys \ DOMAIN h, NEW sc \in Scancodes
  PROVE  LET g == [x \in DOMAIN h \union {k} |-> IF x = k THEN sc ELSE h[x]]
         IN  /\ g \in Holdings
             /\ \A c : Cardinality(HoldingKeys(g, c)) = Cardinality(HoldingKeys(h, c)) + (IF c = sc THEN 1 ELSE 0)
<1> DEFINE g == [x \in DOMAIN h \union {k} |-> IF x = k THEN sc ELSE h[x]]
<1>1. DOMAIN h \in SUBSET Keys /\ h \in [DOMAIN h -> Scancodes] /\ IsFiniteSet(DOMAIN h)
  BY DEF Holdings
<1>2. DOMAIN g = DOMAIN h \cup {k} /\ IsFiniteSet(DOMAIN h \cup {k})
  BY <1>1, FS_AddElement
<1>3. g \in Holdings
  <2>1. g \in [DOMAIN h \cup {k} -> Scancodes] /\ DOMAIN h \cup {k} \in SUBSET Keys
    BY <1>1
  <2> HIDE DEF g
  <2> QED
    BY <1>2, <2>1 DEF Holdings
<1>4. ASSUME NEW c
      PROVE  Cardinality(HoldingKeys(g, c)) = Cardinality(HoldingKeys(h, c)) + (IF c = sc THEN 1 ELSE 0)
  <2>1. CASE c = sc
    <3>1. HoldingKeys(g, c) = HoldingKeys(h, c) \cup {k} /\ k \notin HoldingKeys(h, c)
      BY <2>1 DEF HoldingKeys
    <3>2. IsFiniteSet(HoldingKeys(h, c))
      BY KeysFinite
    <3> QED
      BY <2>1, <3>1, <3>2, FS_AddElement
  <2>2. CASE c # sc
    <3>1. HoldingKeys(g, c) = HoldingKeys(h, c)
      BY <2>2 DEF HoldingKeys
    <3> QED
      BY <2>2, <3>1, KeysFinite
  <2> QED
    BY <2>1, <2>2
<1> QED
  BY <1>3, <1>4

\* A held key is let go.
LEMMA DropKey ==
  ASSUME NEW h \in Holdings, NEW k \in DOMAIN h
  PROVE  LET g == [x \in DOMAIN h \ {k} |-> h[x]]
         IN  /\ g \in Holdings
             /\ \A c : Cardinality(HoldingKeys(g, c)) = Cardinality(HoldingKeys(h, c)) - (IF c = h[k] THEN 1 ELSE 0)
             /\ Cardinality(HoldingKeys(h, h[k])) # 0
<1> DEFINE g == [x \in DOMAIN h \ {k} |-> h[x]]
<1>1. DOMAIN h \in SUBSET Keys /\ h \in [DOMAIN h -> Scancodes] /\ IsFiniteSet(DOMAIN h)
  BY DEF Holdings
<1>2. DOMAIN g = DOMAIN h \ {k} /\ IsFiniteSet(DOMAIN h \ {k})
  BY <1>1, FS_RemoveElement
<1>3. g \in Holdings
  <2>1. g \in [DOMAIN h \ {k} -> Scancodes] /\ DOMAIN h \ {k} \in SUBSET Keys
    BY <1>1
  <2> HIDE DEF g
  <2> QED
    BY <1>2, <2>1 DEF Holdings
<1>4. ASSUME NEW c
      PROVE  Cardinality(HoldingKeys(g, c)) = Cardinality(HoldingKeys(h, c)) - (IF c = h[k] THEN 1 ELSE 0)
  <2>1. CASE c = h[k]
    <3>1. HoldingKeys(g, c) = HoldingKeys(h, c) \ {k} /\ k \in HoldingKeys(h, c)
      BY <2>1 DEF HoldingKeys
    <3>2. IsFiniteSet(HoldingKeys(h, c))
      BY KeysFinite
    <3> QED
      BY <2>1, <3>1, <3>2, FS_RemoveElement
  <2>2. CASE c # h[k]
    <3>1. HoldingKeys(g, c) = HoldingKeys(h, c)
      BY <2>2 DEF HoldingKeys
    <3> QED
      BY <2>2, <3>1, KeysFinite
  <2> QED
    BY <2>1, <2>2
<1>5. Cardinality(HoldingKeys(h, h[k])) # 0
  <2>1. k \in HoldingKeys(h, h[k])
    BY DEF HoldingKeys
  <2> QED
    BY <2>1, KeysFinite, FS_EmptySet
<1> QED
  BY <1>3, <1>4, <1>5

\* A modifier that had nothing sent is sent, or one that had is taken back.
LEMMA SendMod ==
  ASSUME NEW f \in SentCodes, NEW m \in ModifierKey, f[m] = NoScancode, NEW sc \in Scancodes
  PROVE  LET g == [f EXCEPT ![m] = sc]
         IN  \A c \in Scancodes :
               Cardinality(HoldingMods(g, c)) = Cardinality(HoldingMods(f, c)) + (IF c = sc THEN 1 ELSE 0)
<1> DEFINE g == [f EXCEPT ![m] = sc]
<1>1. ASSUME NEW c \in Scancodes
      PROVE  Cardinality(HoldingMods(g, c)) = Cardinality(HoldingMods(f, c)) + (IF c = sc THEN 1 ELSE 0)
  <2>1. c # f[m]
    BY NoneIsNoCode
  <2>2. CASE c = sc
    <3>1. HoldingMods(g, c) = HoldingMods(f, c) \cup {m} /\ m \notin HoldingMods(f, c)
      BY <2>1, <2>2 DEF HoldingMods, SentCodes
    <3>2. IsFiniteSet(HoldingMods(f, c))
      BY ModsFinite
    <3> QED
      BY <2>2, <3>1, <3>2, FS_AddElement
  <2>3. CASE c # sc
    <3>1. HoldingMods(g, c) = HoldingMods(f, c)
      BY <2>1, <2>3 DEF HoldingMods, SentCodes
    <3> QED
      BY <2>3, <3>1, ModsFinite
  <2> QED
    BY <2>2, <2>3
<1> QED
  BY <1>1

LEMMA TakeMod ==
  ASSUME NEW f \in SentCodes, NEW m \in ModifierKey, f[m] # NoScancode
  PROVE  LET g == [f EXCEPT ![m] = NoScancode]
         IN  /\ \A c \in Scancodes :
                  Cardinality(HoldingMods(g, c)) = Cardinality(HoldingMods(f, c)) - (IF c = f[m] THEN 1 ELSE 0)
             /\ Cardinality(HoldingMods(f, f[m])) # 0
<1> DEFINE g == [f EXCEPT ![m] = NoScancode]
<1>1. ASSUME NEW c \in Scancodes
      PROVE  Cardinality(HoldingMods(g, c)) = Cardinality(HoldingMods(f, c)) - (IF c = f[m] THEN 1 ELSE 0)
  <2>1. c # NoScancode
    BY NoneIsNoCode
  <2>2. CASE c = f[m]
    <3>1. HoldingMods(g, c) = HoldingMods(f, c) \ {m} /\ m \in HoldingMods(f, c)
      BY <2>1, <2>2 DEF HoldingMods, SentCodes
    <3>2. IsFiniteSet(HoldingMods(f, c))
      BY ModsFinite
    <3> QED
      BY <2>2, <3>1, <3>2, FS_RemoveElement
  <2>3. CASE c # f[m]
    <3>1. HoldingMods(g, c) = HoldingMods(f, c)
      BY <2>1, <2>3 DEF HoldingMods, SentCodes
    <3> QED
      BY <2>3, <3>1, ModsFinite
  <2> QED
    BY <2>2, <2>3
<1>2. Cardinality(HoldingMods(f, f[m])) # 0
  <2>1. m \in HoldingMods(f, f[m])
    BY DEF HoldingMods
  <2> QED
    BY <2>1, ModsFinite, FS_EmptySet
<1> QED
  BY <1>1, <1>2

-----------------------------------------------------------------------------
(* The translator between the modifiers, in the course of one event.        *)

\* Only keys of X are sent or held back, and none both; the menu may have taken one held back.
Holds(K, X) ==
  /\ \A m \in ModifierKey : K.mod_sent[m] # NoScancode => m \in X /\ m \notin K.cmd_pending
  /\ K.cmd_pending \subseteq X
  /\ K.cmd_consumed \subseteq K.cmd_pending

\* With the preferences p, a remote that held H, and the Command keys of M taken by the menu.
Between(p, H, M, X, K) ==
  /\ Sends(H, K) /\ K.prefs = p
  /\ Counted(K) /\ Holds(K, X)
  /\ M \cap K.cmd_pending \subseteq K.cmd_consumed

\* Nothing of M was pressed; or, weaker, nothing of it was tapped.
Unpressed(p, M, K) ==
  \A i \in DOMAIN K.out : \A m \in M : \A sc \in Codes(p, m) : K.out[i] # Key(sc, TRUE)
Untapped(p, M, K) ==
  \A i \in 1 .. Len(K.out) - 1 : \A m \in M : \A sc \in Codes(p, m) :
    ~ (K.out[i] = Key(sc, TRUE) /\ K.out[i + 1] = Key(sc, FALSE))

Falling(p, H, M, X, K) == Between(p, H, M, X, K) /\ Unpressed(p, M, K)
Rising(p, H, M, X, K) == Between(p, H, M, X, K) /\ Untapped(p, M, K)

LEMMA OutIsSeq ==
  ASSUME NEW K \in Keyboards
  PROVE  /\ K.out \in Seq(Events) /\ Len(K.out) \in Nat /\ DOMAIN K.out = 1 .. Len(K.out)
         /\ K.pressed \in [Scancodes -> Nat] /\ K.mod_sent \in SentCodes /\ K.held_keys \in Holdings
         /\ K.cmd_pending \subseteq Commands /\ K.cmd_consumed \subseteq Commands
         /\ K.prefs \in Prefs /\ K.keyboard = "Ansi" /\ K.mods \subseteq ModifierKey
BY DEF Keyboards, SentCodes

LEMMA UnpressedUntapped ==
  ASSUME NEW p, NEW M, NEW K \in Keyboards, Unpressed(p, M, K)
  PROVE  Untapped(p, M, K)
<1>1. \A i \in 1 .. Len(K.out) - 1 : i \in DOMAIN K.out
  BY OutIsSeq
<1> QED
  BY <1>1 DEF Unpressed, Untapped

\* What one more event adds.
LEMMA UnpressedMore ==
  ASSUME NEW p, NEW M, NEW K \in Keyboards, Unpressed(p, M, K), NEW e,
         \A m \in M : \A sc \in Codes(p, m) : e # Key(sc, TRUE),
         NEW J, J.out = Append(K.out, e)
  PROVE  Unpressed(p, M, J)
<1>1. K.out \in Seq(Events) /\ DOMAIN K.out = 1 .. Len(K.out)
  BY OutIsSeq
<1>2. DOMAIN J.out = 1 .. Len(K.out) + 1 /\ J.out[Len(K.out) + 1] = e
        /\ \A i \in 1 .. Len(K.out) : J.out[i] = K.out[i]
  BY <1>1
<1>3. \A i \in DOMAIN J.out : i \in DOMAIN K.out \/ i = Len(K.out) + 1
  BY <1>1, <1>2, OutIsSeq
<1> QED
  BY <1>1, <1>2, <1>3 DEF Unpressed

LEMMA UntappedMore ==
  ASSUME NEW p, NEW M, NEW K \in Keyboards, Untapped(p, M, K), NEW e,
         \A m \in M : \A sc \in Codes(p, m) : e # Key(sc, FALSE),
         NEW J, J.out = Append(K.out, e)
  PROVE  Untapped(p, M, J)
<1>1. K.out \in Seq(Events) /\ Len(K.out) \in Nat
  BY OutIsSeq
<1>2. Len(J.out) = Len(K.out) + 1 /\ J.out[Len(K.out) + 1] = e
        /\ \A i \in 1 .. Len(K.out) : J.out[i] = K.out[i]
  BY <1>1
<1>3. ASSUME NEW i \in 1 .. Len(J.out) - 1, NEW m \in M, NEW sc \in Codes(p, m),
             J.out[i] = Key(sc, TRUE), J.out[i + 1] = Key(sc, FALSE)
      PROVE  FALSE
  <2>1. i + 1 # Len(K.out) + 1
    BY <1>2, <1>3
  <2>2. i \in 1 .. Len(K.out) - 1 /\ i \in 1 .. Len(K.out) /\ i + 1 \in 1 .. Len(K.out)
    BY <1>1, <1>2, <2>1
  <2> QED
    BY <1>2, <1>3, <2>2 DEF Untapped
<1> QED
  BY <1>3 DEF Untapped

LEMMA KeysDiffer ==
  /\ \A sc, c : Key(sc, FALSE) # Key(c, TRUE)
  /\ \A sc, c, down : sc # c => Key(sc, down) # Key(c, TRUE)
BY DEF Key

LEMMA CodesAre ==
  ASSUME NEW K \in Keyboards
  PROVE  \A m : ScancodeOf(K, m) = Codes(K.prefs, m)
BY OutIsSeq DEF ScancodeOf, Codes

\* A release is no press.
LEMMA ReleaseUnpressed ==
  ASSUME NEW p, NEW M, NEW K \in Keyboards, Unpressed(p, M, K), NEW sc,
         NEW J, J.out = K.out \/ J.out = Append(K.out, Key(sc, FALSE))
  PROVE  Unpressed(p, M, J)
<1>1. CASE J.out = K.out
  BY <1>1 DEF Unpressed
<1>2. CASE J.out = Append(K.out, Key(sc, FALSE))
  BY <1>2, KeysDiffer, UnpressedMore
<1> QED
  BY <1>1, <1>2

\* A modifier is let go.
LEMMA ReleaseFalls ==
  ASSUME NEW p, NEW H \in SUBSET Scancodes, NEW M \in SUBSET Commands, NEW X, NEW K, Falling(p, H, M, X, K),
         NEW m \in ModifierKey
  PROVE  Falling(p, H, M, X \ {m}, release_modifier(K, m))
<1>1. /\ K \in Keyboards /\ Wired(H, K) /\ K.prefs = p /\ Counted(K) /\ Holds(K, X) /\ Unpressed(p, M, K)
      /\ M \cap K.cmd_pending \subseteq K.cmd_consumed
  BY DEF Falling, Between, Sends
<1>2. /\ K.cmd_pending \subseteq Commands /\ K.cmd_consumed \subseteq Commands /\ K.mod_sent \in SentCodes
      /\ K.pressed \in [Scancodes -> Nat] /\ K.out \in Seq(Events) /\ K.held_keys \in Holdings
  BY <1>1, OutIsSeq
<1> DEFINE L == [K EXCEPT !.cmd_pending = @ \ {m}, !.cmd_consumed = @ \ {m}]
           code == CHOOSE c \in ScancodeOf(K, m) : TRUE
<1>3. ASSUME m \in K.cmd_pending
      PROVE  Falling(p, H, M, X \ {m}, L)
  <2>1. L \in Keyboards
    BY <1>1, <1>2 DEF Keyboards
  <2>2. L.out = K.out /\ L.pressed = K.pressed /\ L.held_keys = K.held_keys /\ L.mod_sent = K.mod_sent /\ L.prefs = p
    BY <1>1 DEF Keyboards
  <2>3. Wired(H, L) /\ Counted(L) /\ Unpressed(p, M, L)
    BY <1>1, <2>2 DEF Wired, Counted, Unpressed, RemotePressed
  <2>4. L.cmd_pending = K.cmd_pending \ {m} /\ L.cmd_consumed = K.cmd_consumed \ {m}
    BY <1>1 DEF Keyboards
  <2>5. Holds(L, X \ {m}) /\ M \cap L.cmd_pending \subseteq L.cmd_consumed
    BY <1>1, <1>3, <2>2, <2>4 DEF Holds
  <2> QED
    BY <2>1, <2>2, <2>3, <2>5 DEF Falling, Between, Sends
<1>4. CASE m \in K.cmd_pending /\ (m \in K.cmd_consumed \/ ScancodeOf(K, m) = {})
  <2>1. release_modifier(K, m) = L
    BY <1>4 DEF release_modifier
  <2> QED
    BY <1>3, <1>4, <2>1
<1>5. CASE m \in K.cmd_pending /\ m \notin K.cmd_consumed /\ ScancodeOf(K, m) # {}
  <2>1. release_modifier(K, m) = release(press(L, code), code)
    BY <1>5 DEF release_modifier
  <2>2. code \in Scancodes /\ code \in Codes(p, m)
    BY <1>1, <1>5, CodeChosen, CodesAre
  <2>3. Falling(p, H, M, X \ {m}, L)
    BY <1>3, <1>5
  <2> HIDE DEF L, code
  <2> DEFINE J == press(L, code)
             R == release(J, code)
  <2>4. Sends(H, L) /\ L \in Keyboards
    BY <2>3 DEF Falling, Between, Sends
  <2>5. /\ Sends(H, J)
        /\ J = [L EXCEPT !.pressed[code] = @ + 1, !.out = IF L.pressed[code] = 0 THEN Append(@, Key(code, TRUE)) ELSE @]
    BY <2>2, <2>4, PressSends
  <2>6. L.pressed \in [Scancodes -> Nat] /\ J.pressed = [L.pressed EXCEPT ![code] = @ + 1] /\ J \in Keyboards
    BY <2>4, <2>5, OutIsSeq DEF Sends, Keyboards
  <2>7. J.pressed[code] = L.pressed[code] + 1 /\ J.pressed[code] # 0
    BY <2>2, <2>6
  <2> HIDE DEF J
  <2>8. /\ Sends(H, R)
        /\ R = [J EXCEPT !.pressed[code] = @ - 1, !.out = IF J.pressed[code] = 1 THEN Append(@, Key(code, FALSE)) ELSE @]
    <3>1. Sends(H, J) /\ J.pressed[code] # 0
      BY <2>5, <2>7
    <3> QED
      BY <2>2, <3>1, ReleaseSends
  <2>9. /\ R.pressed = L.pressed /\ R.prefs = L.prefs /\ R.held_keys = L.held_keys /\ R.mod_sent = L.mod_sent
        /\ R.cmd_pending = L.cmd_pending /\ R.cmd_consumed = L.cmd_consumed
        /\ J.out = (IF L.pressed[code] = 0 THEN Append(L.out, Key(code, TRUE)) ELSE L.out)
        /\ R.out = (IF J.pressed[code] = 1 THEN Append(J.out, Key(code, FALSE)) ELSE J.out)
    <3>1. R.pressed = [J.pressed EXCEPT ![code] = @ - 1]
      BY <2>6, <2>8 DEF Keyboards
    <3>2. R.pressed = L.pressed
      BY <2>2, <2>6, <2>7, <3>1
    <3> QED
      BY <2>4, <2>5, <2>6, <2>8, <3>2 DEF Keyboards
  <2> HIDE DEF R
  <2>10. Between(p, H, M, X \ {m}, R)
    BY <2>3, <2>8, <2>9 DEF Falling, Between, Counted, Holds
  <2>11. \A o \in M : code \notin Codes(p, o)
    <3>1. m \in Commands /\ m \notin M
      BY <1>1, <1>2, <1>5
    <3> QED
      BY <1>1, <2>2, <3>1, CommandsApart, CodesAre
  <2>12. Unpressed(p, M, J)
    <3>1. Unpressed(p, M, L)
      BY <2>3 DEF Falling
    <3>2. \A o \in M : \A c \in Codes(p, o) : Key(code, TRUE) # Key(c, TRUE)
      BY <2>11, KeysDiffer
    <3>3. CASE J.out = L.out
      BY <3>1, <3>3 DEF Unpressed
    <3>4. CASE J.out = Append(L.out, Key(code, TRUE))
      BY <2>4, <3>1, <3>2, <3>4, UnpressedMore
    <3> QED
      BY <2>9, <3>3, <3>4
  <2>13. Unpressed(p, M, R)
    BY <2>6, <2>9, <2>12, ReleaseUnpressed
  <2> QED
    BY <2>1, <2>10, <2>13 DEF Falling, R, J
<1>6. CASE m \notin K.cmd_pending /\ K.mod_sent[m] = NoScancode
  <2>1. release_modifier(K, m) = K
    BY <1>6 DEF release_modifier
  <2>2. Holds(K, X \ {m})
    BY <1>1, <1>6 DEF Holds
  <2> QED
    BY <1>1, <2>1, <2>2 DEF Falling, Between, Sends
<1>7. CASE m \notin K.cmd_pending /\ K.mod_sent[m] # NoScancode
  <2> DEFINE sc == K.mod_sent[m]
             T == [K EXCEPT !.mod_sent[m] = NoScancode]
             R == release(T, sc)
  <2>1. release_modifier(K, m) = R
    BY <1>7 DEF release_modifier
  <2>2. sc \in Scancodes
    BY <1>2, <1>7 DEF SentCodes
  <2>3. /\ T.mod_sent = [K.mod_sent EXCEPT ![m] = NoScancode] /\ T.out = K.out /\ T.pressed = K.pressed
        /\ T.held_keys = K.held_keys /\ T.prefs = p /\ T.cmd_pending = K.cmd_pending /\ T.cmd_consumed = K.cmd_consumed
    BY <1>1 DEF Keyboards
  <2>4. T \in Keyboards
    <3>1. [K.mod_sent EXCEPT ![m] = NoScancode] \in [ModifierKey -> Scancodes \cup {NoScancode}]
      BY <1>2 DEF SentCodes
    <3> QED
      BY <1>1, <3>1 DEF Keyboards
  <2>5. Sends(H, T)
    BY <1>1, <2>3, <2>4 DEF Sends, Wired, RemotePressed
  <2>6. /\ \A c \in Scancodes : Cardinality(HoldingMods(T.mod_sent, c)) =
                                   Cardinality(HoldingMods(K.mod_sent, c)) - (IF c = sc THEN 1 ELSE 0)
        /\ Cardinality(HoldingMods(K.mod_sent, sc)) # 0
    <3> DEFINE f == K.mod_sent
    <3>1. f \in SentCodes /\ f[m] # NoScancode /\ T.mod_sent = [f EXCEPT ![m] = NoScancode] /\ sc = f[m]
      BY <1>2, <1>7, <2>3
    <3> HIDE DEF f, sc, T
    <3> QED
      BY <3>1, TakeMod DEF f
  <2>7. \A c \in Scancodes : /\ Cardinality(HoldingKeys(K.held_keys, c)) \in Nat
                             /\ Cardinality(HoldingMods(K.mod_sent, c)) \in Nat
    BY <1>2, KeysFinite, ModsFinite
  <2>8. T.pressed[sc] # 0
    BY <1>1, <2>2, <2>3, <2>6, <2>7 DEF Counted
  <2> HIDE DEF T, sc
  <2>9. /\ Sends(H, R)
        /\ R = [T EXCEPT !.pressed[sc] = @ - 1, !.out = IF T.pressed[sc] = 1 THEN Append(@, Key(sc, FALSE)) ELSE @]
    BY <2>2, <2>5, <2>8, ReleaseSends
  <2>10. /\ R.pressed = [T.pressed EXCEPT ![sc] = @ - 1] /\ R.prefs = p
         /\ R.held_keys = K.held_keys /\ R.mod_sent = T.mod_sent
         /\ R.cmd_pending = K.cmd_pending /\ R.cmd_consumed = K.cmd_consumed
         /\ R.out = (IF T.pressed[sc] = 1 THEN Append(T.out, Key(sc, FALSE)) ELSE T.out)
    BY <2>3, <2>4, <2>9 DEF Keyboards
  <2> HIDE DEF R
  <2>11. Counted(R)
    <3>1. ASSUME NEW c \in Scancodes
          PROVE  R.pressed[c] = Cardinality(HoldingKeys(R.held_keys, c)) + Cardinality(HoldingMods(R.mod_sent, c))
      <4>1. K.pressed[c] = Cardinality(HoldingKeys(K.held_keys, c)) + Cardinality(HoldingMods(K.mod_sent, c))
        BY <1>1 DEF Counted
      <4>2. R.pressed[c] = K.pressed[c] - (IF c = sc THEN 1 ELSE 0)
        BY <1>2, <2>3, <2>10
      <4> QED
        BY <2>6, <2>7, <2>10, <4>1, <4>2
    <3> QED
      BY <3>1 DEF Counted
  <2>12. Holds(R, X \ {m})
    <3>1. R.mod_sent = [K.mod_sent EXCEPT ![m] = NoScancode]
      BY <2>3, <2>10
    <3>2. \A o \in ModifierKey : R.mod_sent[o] # NoScancode => o # m /\ K.mod_sent[o] # NoScancode
      BY <1>2, <3>1 DEF SentCodes
    <3> QED
      BY <1>1, <1>7, <2>10, <3>2 DEF Holds
  <2>13. Unpressed(p, M, T)
    BY <1>1, <2>3 DEF Unpressed
  <2>14. Unpressed(p, M, R)
    BY <2>4, <2>10, <2>13, ReleaseUnpressed
  <2> QED
    BY <1>1, <2>1, <2>9, <2>10, <2>11, <2>12, <2>14 DEF Falling, Between, R
<1> QED
  BY <1>4, <1>5, <1>6, <1>7

\* R is K after a press for m.
PressedFor(K, m, R) ==
  \E code \in Scancodes : /\ R.mod_sent = [K.mod_sent EXCEPT ![m] = code]
                          /\ R.out = K.out \/ R.out = Append(K.out, Key(code, TRUE))

\* A modifier that had nothing sent is pressed.
LEMMA PressAsSends ==
  ASSUME NEW H \in SUBSET Scancodes, NEW K, Sends(H, K), Counted(K),
         NEW m \in ModifierKey, K.mod_sent[m] = NoScancode, ScancodeOf(K, m) # {}
  PROVE  LET R == PressAs(K, m)
         IN  /\ Sends(H, R) /\ Counted(R)
             /\ R.prefs = K.prefs /\ R.mods = K.mods /\ R.held_keys = K.held_keys
             /\ R.cmd_pending = K.cmd_pending /\ R.cmd_consumed = K.cmd_consumed
             /\ PressedFor(K, m, R)
<1> DEFINE code == CHOOSE c \in ScancodeOf(K, m) : TRUE
           J == press(K, code)
           R == PressAs(K, m)
<1>1. K \in Keyboards
  BY DEF Sends
<1>2. code \in Scancodes
  BY <1>1, CodeChosen
<1>3. R = [J EXCEPT !.mod_sent[m] = code]
  BY DEF PressAs
<1> HIDE DEF code
<1>4. Sends(H, J) /\ J = [K EXCEPT !.pressed[code] = @ + 1, !.out = IF K.pressed[code] = 0 THEN Append(@, Key(code, TRUE)) ELSE @]
  BY <1>2, PressSends
<1>5. /\ J \in Keyboards /\ J.pressed = [K.pressed EXCEPT ![code] = @ + 1] /\ J.mod_sent = K.mod_sent
      /\ J.prefs = K.prefs /\ J.mods = K.mods /\ J.held_keys = K.held_keys
      /\ J.cmd_pending = K.cmd_pending /\ J.cmd_consumed = K.cmd_consumed
      /\ J.out = (IF K.pressed[code] = 0 THEN Append(K.out, Key(code, TRUE)) ELSE K.out)
  BY <1>1, <1>4 DEF Sends, Keyboards
<1> HIDE DEF J, R
<1>6. /\ R.pressed = J.pressed /\ R.out = J.out /\ R.mod_sent = [K.mod_sent EXCEPT ![m] = code]
      /\ R.prefs = K.prefs /\ R.mods = K.mods /\ R.held_keys = K.held_keys
      /\ R.cmd_pending = K.cmd_pending /\ R.cmd_consumed = K.cmd_consumed
  BY <1>3, <1>5 DEF Keyboards
<1>7. R \in Keyboards
  <2>1. [K.mod_sent EXCEPT ![m] = code] \in [ModifierKey -> Scancodes \cup {NoScancode}]
    BY <1>1, <1>2, OutIsSeq DEF SentCodes
  <2> QED
    BY <1>3, <1>5, <2>1 DEF Keyboards
<1>8. Sends(H, R)
  BY <1>4, <1>6, <1>7 DEF Sends, Wired, RemotePressed
<1>9. Counted(R)
  <2> DEFINE f == K.mod_sent
  <2>1. f \in SentCodes /\ f[m] = NoScancode /\ R.mod_sent = [f EXCEPT ![m] = code]
    BY <1>1, <1>6, OutIsSeq
  <2> HIDE DEF f
  <2>2. \A c \in Scancodes : Cardinality(HoldingMods(R.mod_sent, c)) =
                                Cardinality(HoldingMods(f, c)) + (IF c = code THEN 1 ELSE 0)
    BY <1>2, <2>1, SendMod
  <2>3. ASSUME NEW c \in Scancodes
        PROVE  R.pressed[c] = Cardinality(HoldingKeys(R.held_keys, c)) + Cardinality(HoldingMods(R.mod_sent, c))
    <3>1. K.pressed[c] = Cardinality(HoldingKeys(K.held_keys, c)) + Cardinality(HoldingMods(f, c))
      BY DEF Counted, f
    <3>2. Cardinality(HoldingKeys(K.held_keys, c)) \in Nat /\ Cardinality(HoldingMods(f, c)) \in Nat
      BY <1>1, OutIsSeq, KeysFinite, ModsFinite
    <3>3. R.pressed[c] = K.pressed[c] + (IF c = code THEN 1 ELSE 0)
      BY <1>1, <1>5, <1>6, OutIsSeq
    <3> QED
      BY <1>6, <2>2, <3>1, <3>2, <3>3
  <2> QED
    BY <2>3 DEF Counted
<1>10. R.out = K.out \/ R.out = Append(K.out, Key(code, TRUE))
  BY <1>5, <1>6
<1> QED
  BY <1>2, <1>6, <1>8, <1>9, <1>10 DEF R, PressedFor

\* A press is no release.
LEMMA PressUntapped ==
  ASSUME NEW p, NEW M, NEW K \in Keyboards, Untapped(p, M, K), NEW sc,
         NEW J, J.out = K.out \/ J.out = Append(K.out, Key(sc, TRUE))
  PROVE  Untapped(p, M, J)
<1>1. CASE J.out = K.out
  BY <1>1 DEF Untapped
<1>2. CASE J.out = Append(K.out, Key(sc, TRUE))
  BY <1>2, KeysDiffer, UntappedMore
<1> QED
  BY <1>1, <1>2

\* A modifier is pressed, or held back.
LEMMA PressRises ==
  ASSUME NEW p, NEW H \in SUBSET Scancodes, NEW M, NEW X, NEW K, Rising(p, H, M, X, K),
         NEW m \in ModifierKey, m \notin X, m \notin M
  PROVE  Rising(p, H, M, X \cup {m}, press_modifier(K, m))
<1>1. /\ K \in Keyboards /\ Sends(H, K) /\ K.prefs = p /\ Counted(K) /\ Holds(K, X) /\ Untapped(p, M, K)
      /\ M \cap K.cmd_pending \subseteq K.cmd_consumed
  BY DEF Rising, Between, Sends
<1>2. K.cmd_pending \subseteq Commands /\ K.cmd_consumed \subseteq Commands
  BY <1>1, OutIsSeq
<1>3. K.mod_sent[m] = NoScancode /\ m \notin K.cmd_pending
  BY <1>1 DEF Holds
<1>4. CASE is_command(m)
  <2> DEFINE R == [K EXCEPT !.cmd_pending = @ \union {m}, !.cmd_consumed = @ \ {m}]
  <2>1. press_modifier(K, m) = R
    BY <1>4 DEF press_modifier
  <2>2. R \in Keyboards
    <3>1. K.cmd_pending \cup {m} \in SUBSET Commands /\ K.cmd_consumed \ {m} \in SUBSET Commands
      BY <1>2, <1>4 DEF Commands
    <3> QED
      BY <1>1, <3>1 DEF Keyboards
  <2>3. /\ R.out = K.out /\ R.pressed = K.pressed /\ R.held_keys = K.held_keys /\ R.mod_sent = K.mod_sent
        /\ R.prefs = p /\ R.cmd_pending = K.cmd_pending \cup {m} /\ R.cmd_consumed = K.cmd_consumed \ {m}
    BY <1>1 DEF Keyboards
  <2> HIDE DEF R
  <2>4. Sends(H, R) /\ Counted(R) /\ Untapped(p, M, R)
    BY <1>1, <2>2, <2>3 DEF Sends, Wired, RemotePressed, Counted, Untapped
  <2>5. Holds(R, X \cup {m}) /\ M \cap R.cmd_pending \subseteq R.cmd_consumed
    BY <1>1, <1>3, <2>3 DEF Holds
  <2> QED
    BY <2>1, <2>3, <2>4, <2>5 DEF Rising, Between
<1>5. CASE ~is_command(m) /\ ScancodeOf(K, m) = {}
  <2>1. press_modifier(K, m) = K
    BY <1>5 DEF press_modifier
  <2>2. Holds(K, X \cup {m})
    BY <1>1 DEF Holds
  <2> QED
    BY <1>1, <2>1, <2>2 DEF Rising, Between
<1>6. CASE ~is_command(m) /\ ScancodeOf(K, m) # {}
  <2> DEFINE R == PressAs(K, m)
  <2>1. press_modifier(K, m) = R
    BY <1>6 DEF press_modifier
  <2>2. /\ Sends(H, R) /\ Counted(R) /\ R.prefs = p
        /\ R.cmd_pending = K.cmd_pending /\ R.cmd_consumed = K.cmd_consumed
        /\ PressedFor(K, m, R)
    BY <1>1, <1>3, <1>6, PressAsSends
  <2> HIDE DEF R
  <2>3. Untapped(p, M, R)
    BY <1>1, <2>2, PressUntapped DEF PressedFor
  <2>4. Holds(R, X \cup {m})
    <3>1. \A o \in ModifierKey : o # m => R.mod_sent[o] = K.mod_sent[o]
      BY <1>1, <2>2, OutIsSeq DEF SentCodes, PressedFor
    <3> QED
      BY <1>1, <1>3, <2>2, <3>1 DEF Holds
  <2> QED
    BY <1>1, <2>1, <2>2, <2>3, <2>4 DEF Rising, Between
<1> QED
  BY <1>4, <1>5, <1>6

-----------------------------------------------------------------------------
(* The loops over the modifiers.                                            *)

LEMMA PressTyped ==
  ASSUME NEW K \in Keyboards, NEW sc \in Scancodes
  PROVE  press(K, sc) \in Keyboards
<1>1. K.out \in Seq(Events) /\ K.pressed \in [Scancodes -> Nat] /\ Key(sc, TRUE) \in Events
  BY OutIsSeq, KeyEvents
<1>2. Append(K.out, Key(sc, TRUE)) \in Seq(Events)
  BY <1>1, AppendTyped, Zenon
<1>3. [K.pressed EXCEPT ![sc] = @ + 1] \in [Scancodes -> Nat]
  BY <1>1
<1>4. press(K, sc) = [K EXCEPT !.pressed = [K.pressed EXCEPT ![sc] = @ + 1],
                               !.out = IF K.pressed[sc] = 0 THEN Append(K.out, Key(sc, TRUE)) ELSE K.out]
  BY DEF press, Send, Keyboards
<1> QED
  BY <1>1, <1>2, <1>3, <1>4 DEF Keyboards

LEMMA ReleaseTyped ==
  ASSUME NEW K \in Keyboards, NEW sc \in Scancodes
  PROVE  release(K, sc) \in Keyboards
<1>1. K.out \in Seq(Events) /\ K.pressed \in [Scancodes -> Nat] /\ Key(sc, FALSE) \in Events
  BY OutIsSeq, KeyEvents
<1>2. Append(K.out, Key(sc, FALSE)) \in Seq(Events)
  BY <1>1, AppendTyped, Zenon
<1>3. CASE K.pressed[sc] = 0
  BY <1>3 DEF release
<1>4. CASE K.pressed[sc] # 0
  <2> DEFINE J == [K EXCEPT !.pressed[sc] = @ - 1]
  <2>1. [K.pressed EXCEPT ![sc] = @ - 1] \in [Scancodes -> Nat]
    BY <1>1, <1>4
  <2>2. J \in Keyboards /\ J.out = K.out
    BY <2>1 DEF Keyboards
  <2>3. release(K, sc) = IF J.pressed[sc] = 0 THEN Send(J, Key(sc, FALSE)) ELSE J
    BY <1>4 DEF release
  <2> HIDE DEF J
  <2>4. [J EXCEPT !.out = Append(K.out, Key(sc, FALSE))] \in Keyboards
    BY <1>2, <2>2 DEF Keyboards
  <2> QED
    BY <2>2, <2>3, <2>4 DEF Send
<1> QED
  BY <1>3, <1>4

LEMMA PressAsTyped ==
  ASSUME NEW K \in Keyboards, NEW m \in ModifierKey, ScancodeOf(K, m) # {}
  PROVE  PressAs(K, m) \in Keyboards
<1> DEFINE code == CHOOSE c \in ScancodeOf(K, m) : TRUE
           J == press(K, code)
<1>1. code \in Scancodes
  BY CodeChosen
<1>2. PressAs(K, m) = [J EXCEPT !.mod_sent[m] = code]
  BY DEF PressAs
<1> HIDE DEF code
<1>3. J \in Keyboards
  BY <1>1, PressTyped
<1> HIDE DEF J
<1>4. [J.mod_sent EXCEPT ![m] = code] \in [ModifierKey -> Scancodes \cup {NoScancode}]
  BY <1>1, <1>3, OutIsSeq DEF SentCodes
<1> QED
  BY <1>2, <1>3, <1>4 DEF Keyboards

LEMMA PressModifierTyped ==
  ASSUME NEW K \in Keyboards, NEW m \in ModifierKey
  PROVE  press_modifier(K, m) \in Keyboards
<1>1. CASE is_command(m)
  <2>1. K.cmd_pending \cup {m} \in SUBSET Commands /\ K.cmd_consumed \ {m} \in SUBSET Commands
    BY <1>1, OutIsSeq DEF Commands
  <2> QED
    BY <1>1, <2>1 DEF press_modifier, Keyboards
<1>2. CASE ~is_command(m)
  BY <1>2, PressAsTyped DEF press_modifier
<1> QED
  BY <1>1, <1>2

LEMMA ReleaseModifierTyped ==
  ASSUME NEW K \in Keyboards, NEW m \in ModifierKey
  PROVE  release_modifier(K, m) \in Keyboards
<1>1. CASE m \in K.cmd_pending
  <2> DEFINE J == [K EXCEPT !.cmd_pending = @ \ {m}, !.cmd_consumed = @ \ {m}]
             code == CHOOSE c \in ScancodeOf(K, m) : TRUE
  <2>1. J \in Keyboards
    BY OutIsSeq DEF Keyboards
  <2>2. release_modifier(K, m) = IF m \in K.cmd_consumed \/ ScancodeOf(K, m) = {} THEN J ELSE release(press(J, code), code)
    BY <1>1 DEF release_modifier
  <2>3. ScancodeOf(K, m) # {} => code \in Scancodes
    BY CodeChosen
  <2> HIDE DEF J, code
  <2>4. code \in Scancodes => release(press(J, code), code) \in Keyboards
    BY <2>1, PressTyped, ReleaseTyped
  <2> QED
    BY <2>1, <2>2, <2>3, <2>4
<1>2. CASE m \notin K.cmd_pending /\ K.mod_sent[m] = NoScancode
  BY <1>2 DEF release_modifier
<1>3. CASE m \notin K.cmd_pending /\ K.mod_sent[m] # NoScancode
  <2> DEFINE sc == K.mod_sent[m]
             T == [K EXCEPT !.mod_sent[m] = NoScancode]
  <2>1. release_modifier(K, m) = release(T, sc)
    BY <1>3 DEF release_modifier
  <2>2. sc \in Scancodes
    BY <1>3, OutIsSeq DEF SentCodes
  <2>3. [K.mod_sent EXCEPT ![m] = NoScancode] \in [ModifierKey -> Scancodes \cup {NoScancode}]
    BY OutIsSeq DEF SentCodes
  <2>4. T \in Keyboards
    BY <2>3 DEF Keyboards
  <2> HIDE DEF T, sc
  <2> QED
    BY <2>1, <2>2, <2>4, ReleaseTyped
<1> QED
  BY <1>1, <1>2, <1>3

LEMMA Backwards ==
  LET r == Reverse(ALL)
  IN  /\ Len(r) = 8 /\ DOMAIN r = 1 .. 8
      /\ \A i \in 1 .. 8 : r[i] \in ModifierKey
      /\ \A m \in ModifierKey : \E i \in 1 .. 8 : r[i] = m
<1> DEFINE r == Reverse(ALL)
<1>1. r = [i \in 1 .. 8 |-> ALL[(8 - i) + 1]]
  BY ModifierNames DEF Reverse
<1>2. \A i \in 1 .. 8 : (8 - i) + 1 \in 1 .. 8 /\ (8 - ((8 - i) + 1)) + 1 = i
  OBVIOUS
<1>3. \A i \in 1 .. 8 : ALL[i] \in ModifierKey
  BY ModifierNames
<1>4. Len(r) = 8 /\ DOMAIN r = 1 .. 8 /\ \A i \in 1 .. 8 : r[i] \in ModifierKey
  BY <1>1, <1>2, <1>3
<1>5. ASSUME NEW m \in ModifierKey
      PROVE  \E i \in 1 .. 8 : r[i] = m
  <2>1. PICK i \in 1 .. 8 : ALL[i] = m
    BY ModifierNames
  <2> QED
    BY <1>1, <1>2, <2>1
<1> QED
  BY <1>4, <1>5

\* release_all goes through the modifiers from the last.
ReleaseF(ups) ==
  [k \in 1 .. 8 |-> [J \in Keyboards |-> IF Reverse(ALL)[k] \in ups THEN release_modifier(J, Reverse(ALL)[k]) ELSE J]]

LEMMA ReleaseChain ==
  ASSUME NEW K \in Keyboards, NEW ups
  PROVE  \E h : Chain(ReleaseF(ups), K, 8, Keyboards, h) /\ release_all(K, ups) = h[8]
<1> DEFINE s == Reverse(ALL)
           F == ReleaseF(ups)
           Right(g) == g = [t \in SUBSET DOMAIN s |-> IF t = {} THEN K ELSE IF s[Max(t)] \in ups THEN release_modifier(g[t \ {Max(t)}], s[Max(t)]) ELSE g[t \ {Max(t)}]]
           it == CHOOSE g : Right(g)
<1>1. release_all(K, ups) = it[DOMAIN s]
  BY DEF release_all, FoldLeft, MapThenFoldSet
<1>2. DOMAIN s = 1 .. 8 /\ \A k \in 1 .. 8 : s[k] \in ModifierKey
  BY ModifierNames, Backwards
<1> HIDE DEF s
<1>3. F \in [1 .. 8 -> [Keyboards -> Keyboards]]
  BY <1>2, ReleaseModifierTyped DEF ReleaseF, s
<1>4. Right(it)
  <2>1. PICK g : Folding(F, K, 8, g) /\ g \in [SUBSET (1 .. 8) -> Keyboards]
    BY <1>3, FoldExists
  <2>2. ASSUME NEW t \in SUBSET (1 .. 8), t # {}
        PROVE  F[Max(t)][g[t \ {Max(t)}]] = IF s[Max(t)] \in ups THEN release_modifier(g[t \ {Max(t)}], s[Max(t)]) ELSE g[t \ {Max(t)}]
    <3>1. Max(t) \in 1 .. 8
      BY <2>2, MaxIn
    <3>2. g[t \ {Max(t)}] \in Keyboards
      BY <2>1
    <3> QED
      BY <3>1, <3>2 DEF ReleaseF, s
  <2>3. Right(g)
    BY <1>2, <2>1, <2>2 DEF Folding
  <2> QED
    BY <2>3
<1> HIDE DEF it
<1>5. it[{}] = K
  BY <1>4
<1>6. ASSUME NEW k \in 1 .. 8, it[1 .. k - 1] \in Keyboards
      PROVE  it[1 .. k] = F[k][it[1 .. k - 1]]
  <2>1. 1 .. k \in SUBSET DOMAIN s /\ k \in 1 .. k /\ (1 .. k) \ {k} = 1 .. k - 1
    BY <1>2, Initial
  <2>2. Max(1 .. k) = k
    BY <2>1, MaxIs
  <2>3. it[1 .. k] = IF s[k] \in ups THEN release_modifier(it[1 .. k - 1], s[k]) ELSE it[1 .. k - 1]
    BY <1>4, <2>1, <2>2
  <2> QED
    BY <1>2, <1>6, <2>3 DEF ReleaseF, s
<1>7. \E h : Chain(F, K, 8, Keyboards, h) /\ h[8] = it[1 .. 8]
  <2> DEFINE n == 8
  <2>1. Stepwise(F, K, n, Keyboards, it)
    BY <1>3, <1>5, <1>6 DEF Stepwise
  <2> HIDE DEF n, F
  <2>2. \E h : Chain(F, K, n, Keyboards, h) /\ h[n] = it[1 .. n]
    BY <2>1, Chained
  <2> QED
    BY <2>2 DEF n
<1> QED
  BY <1>1, <1>2, <1>7

\* press_all goes through them from the first.
PressF(downs) ==
  [k \in 1 .. 8 |-> [J \in Keyboards |-> IF ALL[k] \in downs THEN press_modifier(J, ALL[k]) ELSE J]]

LEMMA PressChain ==
  ASSUME NEW K \in Keyboards, NEW downs
  PROVE  \E h : Chain(PressF(downs), K, 8, Keyboards, h) /\ press_all(K, downs) = h[8]
<1> DEFINE s == ALL
           F == PressF(downs)
           Right(g) == g = [t \in SUBSET DOMAIN s |-> IF t = {} THEN K ELSE IF s[Max(t)] \in downs THEN press_modifier(g[t \ {Max(t)}], s[Max(t)]) ELSE g[t \ {Max(t)}]]
           it == CHOOSE g : Right(g)
<1>1. press_all(K, downs) = it[DOMAIN s]
  BY DEF press_all, FoldLeft, MapThenFoldSet
<1>2. DOMAIN s = 1 .. 8 /\ \A k \in 1 .. 8 : s[k] \in ModifierKey
  BY ModifierNames, Backwards
<1> HIDE DEF s
<1>3. F \in [1 .. 8 -> [Keyboards -> Keyboards]]
  BY <1>2, PressModifierTyped DEF PressF, s
<1>4. Right(it)
  <2>1. PICK g : Folding(F, K, 8, g) /\ g \in [SUBSET (1 .. 8) -> Keyboards]
    BY <1>3, FoldExists
  <2>2. ASSUME NEW t \in SUBSET (1 .. 8), t # {}
        PROVE  F[Max(t)][g[t \ {Max(t)}]] = IF s[Max(t)] \in downs THEN press_modifier(g[t \ {Max(t)}], s[Max(t)]) ELSE g[t \ {Max(t)}]
    <3>1. Max(t) \in 1 .. 8
      BY <2>2, MaxIn
    <3>2. g[t \ {Max(t)}] \in Keyboards
      BY <2>1
    <3> QED
      BY <3>1, <3>2 DEF PressF, s
  <2>3. Right(g)
    BY <1>2, <2>1, <2>2 DEF Folding
  <2> QED
    BY <2>3
<1> HIDE DEF it
<1>5. it[{}] = K
  BY <1>4
<1>6. ASSUME NEW k \in 1 .. 8, it[1 .. k - 1] \in Keyboards
      PROVE  it[1 .. k] = F[k][it[1 .. k - 1]]
  <2>1. 1 .. k \in SUBSET DOMAIN s /\ k \in 1 .. k /\ (1 .. k) \ {k} = 1 .. k - 1
    BY <1>2, Initial
  <2>2. Max(1 .. k) = k
    BY <2>1, MaxIs
  <2>3. it[1 .. k] = IF s[k] \in downs THEN press_modifier(it[1 .. k - 1], s[k]) ELSE it[1 .. k - 1]
    BY <1>4, <2>1, <2>2
  <2> QED
    BY <1>2, <1>6, <2>3 DEF PressF, s
<1>7. \E h : Chain(F, K, 8, Keyboards, h) /\ h[8] = it[1 .. 8]
  <2> DEFINE n == 8
  <2>1. Stepwise(F, K, n, Keyboards, it)
    BY <1>3, <1>5, <1>6 DEF Stepwise
  <2> HIDE DEF n, F
  <2>2. \E h : Chain(F, K, n, Keyboards, h) /\ h[n] = it[1 .. n]
    BY <2>1, Chained
  <2> QED
    BY <2>2 DEF n
<1> QED
  BY <1>1, <1>2, <1>7

LEMMA DeferredTyped ==
  ASSUME NEW K \in Keyboards, NEW m \in ModifierKey
  PROVE  SendDeferred(K, m) \in Keyboards
BY PressAsTyped DEF SendDeferred

\* So does flush_command.
FlushF == [k \in 1 .. 8 |-> [J \in Keyboards |-> SendDeferred(J, ALL[k])]]

LEMMA FlushChain ==
  ASSUME NEW K \in Keyboards
  PROVE  \E h : Chain(FlushF, K, 8, Keyboards, h) /\ FoldLeft(SendDeferred, K, ALL) = h[8]
<1> DEFINE s == ALL
           F == FlushF
           Right(g) == g = [t \in SUBSET DOMAIN s |-> IF t = {} THEN K ELSE SendDeferred(g[t \ {Max(t)}], s[Max(t)])]
           it == CHOOSE g : Right(g)
<1>1. FoldLeft(SendDeferred, K, ALL) = it[DOMAIN s]
  BY DEF flush_command, FoldLeft, MapThenFoldSet
<1>2. DOMAIN s = 1 .. 8 /\ \A k \in 1 .. 8 : s[k] \in ModifierKey
  BY ModifierNames, Backwards
<1> HIDE DEF s
<1>3. F \in [1 .. 8 -> [Keyboards -> Keyboards]]
  BY <1>2, DeferredTyped DEF FlushF, s
<1>4. Right(it)
  <2>1. PICK g : Folding(F, K, 8, g) /\ g \in [SUBSET (1 .. 8) -> Keyboards]
    BY <1>3, FoldExists
  <2>2. ASSUME NEW t \in SUBSET (1 .. 8), t # {}
        PROVE  F[Max(t)][g[t \ {Max(t)}]] = SendDeferred(g[t \ {Max(t)}], s[Max(t)])
    <3>1. Max(t) \in 1 .. 8
      BY <2>2, MaxIn
    <3>2. g[t \ {Max(t)}] \in Keyboards
      BY <2>1
    <3> QED
      BY <3>1, <3>2 DEF FlushF, s
  <2>3. Right(g)
    BY <1>2, <2>1, <2>2 DEF Folding
  <2> QED
    BY <2>3
<1> HIDE DEF it
<1>5. it[{}] = K
  BY <1>4
<1>6. ASSUME NEW k \in 1 .. 8, it[1 .. k - 1] \in Keyboards
      PROVE  it[1 .. k] = F[k][it[1 .. k - 1]]
  <2>1. 1 .. k \in SUBSET DOMAIN s /\ k \in 1 .. k /\ (1 .. k) \ {k} = 1 .. k - 1
    BY <1>2, Initial
  <2>2. Max(1 .. k) = k
    BY <2>1, MaxIs
  <2>3. it[1 .. k] = SendDeferred(it[1 .. k - 1], s[k])
    BY <1>4, <2>1, <2>2
  <2> QED
    BY <1>2, <1>6, <2>3 DEF FlushF, s
<1>7. \E h : Chain(F, K, 8, Keyboards, h) /\ h[8] = it[1 .. 8]
  <2> DEFINE n == 8
  <2>1. Stepwise(F, K, n, Keyboards, it)
    BY <1>3, <1>5, <1>6 DEF Stepwise
  <2> HIDE DEF n, F
  <2>2. \E h : Chain(F, K, n, Keyboards, h) /\ h[n] = it[1 .. n]
    BY <2>1, Chained
  <2> QED
    BY <2>2 DEF n
<1> QED
  BY <1>1, <1>2, <1>7

\* What every step of a loop over the modifiers preserves holds at its end.
LEMMA LoopKeeps ==
  ASSUME NEW F, NEW base, NEW h, Chain(F, base, 8, Keyboards, h), NEW S,
         base \in S[0],
         \A k \in 1 .. 8 : \A J \in Keyboards : J \in S[k - 1] => F[k][J] \in S[k]
  PROVE  h[8] \in S[8]
<1> DEFINE n == 8
<1>1. n \in Nat /\ Chain(F, base, n, Keyboards, h) /\ n = 8
  OBVIOUS
<1>2. \A k \in 1 .. n : \A J \in Keyboards : J \in S[k - 1] => F[k][J] \in S[k]
  OBVIOUS
<1> HIDE DEF n
<1>3. h[n] \in S[n]
  BY <1>1, <1>2, ChainKeeps
<1> QED
  BY <1>1, <1>3

\* The modifiers that went up are neither sent nor held back.
LEMMA AllReleased ==
  ASSUME NEW p, NEW H \in SUBSET Scancodes, NEW M \in SUBSET Commands, NEW X \in SUBSET ModifierKey,
         NEW K, Falling(p, H, M, X, K), NEW ups
  PROVE  Falling(p, H, M, X \ ups, release_all(K, ups))
<1>1. K \in Keyboards
  BY DEF Falling, Between, Sends
<1>2. PICK h : Chain(ReleaseF(ups), K, 8, Keyboards, h) /\ release_all(K, ups) = h[8]
  BY <1>1, ReleaseChain
<1> DEFINE r == Reverse(ALL)
           Gone(k) == ups \cap {r[i] : i \in 1 .. k}
           S == [k \in 0 .. 8 |-> {J \in Keyboards : Falling(p, H, M, X \ Gone(k), J)}]
<1>3. \A k \in 1 .. 8 : r[k] \in ModifierKey
  BY Backwards
<1>4. K \in S[0]
  <2>1. X \ Gone(0) = X
    OBVIOUS
  <2> HIDE DEF Gone
  <2> QED
    BY <1>1, <2>1
<1>5. ASSUME NEW k \in 1 .. 8, NEW J \in Keyboards, J \in S[k - 1]
      PROVE  ReleaseF(ups)[k][J] \in S[k]
  <2>1. k - 1 \in 0 .. 8 /\ k \in 0 .. 8 /\ r[k] \in ModifierKey
    BY <1>3
  <2>2. Falling(p, H, M, X \ Gone(k - 1), J)
    BY <1>5, <2>1
  <2>3. Gone(k) = Gone(k - 1) \cup (ups \cap {r[k]})
    <3>1. \A i : i \in 1 .. k <=> (i \in 1 .. k - 1 \/ i = k)
      BY <2>1
    <3> QED
      BY <3>1
  <2>4. ReleaseF(ups)[k][J] = IF r[k] \in ups THEN release_modifier(J, r[k]) ELSE J
    BY DEF ReleaseF
  <2>5. CASE r[k] \in ups
    <3>1. X \ Gone(k) = (X \ Gone(k - 1)) \ {r[k]}
      BY <2>3, <2>5
    <3> HIDE DEF Gone, r
    <3>2. Falling(p, H, M, (X \ Gone(k - 1)) \ {r[k]}, release_modifier(J, r[k]))
      BY <2>1, <2>2, ReleaseFalls
    <3>3. release_modifier(J, r[k]) \in Keyboards
      BY <2>1, ReleaseModifierTyped
    <3> QED
      BY <2>1, <2>4, <2>5, <3>1, <3>2, <3>3
  <2>6. CASE r[k] \notin ups
    <3>1. X \ Gone(k) = X \ Gone(k - 1)
      BY <2>3, <2>6
    <3> HIDE DEF Gone, r
    <3> QED
      BY <2>1, <2>2, <2>4, <2>6, <3>1
  <2> QED
    BY <2>5, <2>6
<1>6. h[8] \in S[8]
  <2> HIDE DEF S
  <2> QED
    BY <1>2, <1>4, <1>5, LoopKeeps
<1>7. X \ Gone(8) = X \ ups
  BY Backwards
<1>8. 8 \in 0 .. 8
  OBVIOUS
<1> HIDE DEF Gone
<1> QED
  BY <1>2, <1>6, <1>7, <1>8

\* The modifiers that went down are sent or held back.
LEMMA AllPressed ==
  ASSUME NEW p, NEW H \in SUBSET Scancodes, NEW M \in SUBSET Commands, NEW X \in SUBSET ModifierKey,
         NEW K, Rising(p, H, M, X, K), NEW downs \in SUBSET ModifierKey, downs \cap (X \cup M) = {}
  PROVE  Rising(p, H, M, X \cup downs, press_all(K, downs))
<1>1. K \in Keyboards
  BY DEF Rising, Between, Sends
<1>2. PICK h : Chain(PressF(downs), K, 8, Keyboards, h) /\ press_all(K, downs) = h[8]
  BY <1>1, PressChain
<1> DEFINE Come(k) == downs \cap {ALL[i] : i \in 1 .. k}
           S == [k \in 0 .. 8 |-> {J \in Keyboards : Rising(p, H, M, X \cup Come(k), J)}]
<1>3. \A k \in 1 .. 8 : ALL[k] \in ModifierKey
  BY ModifierNames
<1>4. K \in S[0]
  <2>1. X \cup Come(0) = X
    OBVIOUS
  <2> HIDE DEF Come
  <2> QED
    BY <1>1, <2>1
<1>5. ASSUME NEW k \in 1 .. 8, NEW J \in Keyboards, J \in S[k - 1]
      PROVE  PressF(downs)[k][J] \in S[k]
  <2>1. k - 1 \in 0 .. 8 /\ k \in 0 .. 8 /\ ALL[k] \in ModifierKey
    BY <1>3
  <2>2. Rising(p, H, M, X \cup Come(k - 1), J)
    BY <1>5, <2>1
  <2>3. Come(k) = Come(k - 1) \cup (downs \cap {ALL[k]}) /\ ALL[k] \notin Come(k - 1)
    <3>1. \A i : i \in 1 .. k <=> (i \in 1 .. k - 1 \/ i = k)
      BY <2>1
    <3>2. \A i \in 1 .. k - 1 : i \in 1 .. 8 /\ i # k
      BY <2>1
    <3>3. \A i \in 1 .. k - 1 : ALL[i] # ALL[k]
      BY <3>2, ModifierNames
    <3> QED
      BY <3>1, <3>3
  <2>4. PressF(downs)[k][J] = IF ALL[k] \in downs THEN press_modifier(J, ALL[k]) ELSE J
    BY DEF PressF
  <2>5. CASE ALL[k] \in downs
    <3>1. X \cup Come(k) = (X \cup Come(k - 1)) \cup {ALL[k]}
      BY <2>3, <2>5
    <3>2. ALL[k] \notin X \cup Come(k - 1) /\ ALL[k] \notin M
      BY <2>3, <2>5
    <3> HIDE DEF Come
    <3>3. Rising(p, H, M, (X \cup Come(k - 1)) \cup {ALL[k]}, press_modifier(J, ALL[k]))
      BY <2>1, <2>2, <3>2, PressRises
    <3>4. press_modifier(J, ALL[k]) \in Keyboards
      BY <2>1, PressModifierTyped
    <3> QED
      BY <2>1, <2>4, <2>5, <3>1, <3>3, <3>4
  <2>6. CASE ALL[k] \notin downs
    <3>1. X \cup Come(k) = X \cup Come(k - 1)
      BY <2>3, <2>6
    <3> HIDE DEF Come
    <3> QED
      BY <2>1, <2>2, <2>4, <2>6, <3>1
  <2> QED
    BY <2>5, <2>6
<1>6. h[8] \in S[8]
  <2> HIDE DEF S
  <2> QED
    BY <1>2, <1>4, <1>5, LoopKeeps
<1>7. X \cup Come(8) = X \cup downs
  <2>1. \A m \in downs : \E i \in 1 .. 8 : ALL[i] = m
    BY ModifierNames
  <2> QED
    BY <2>1
<1>8. 8 \in 0 .. 8
  OBVIOUS
<1> HIDE DEF Come
<1> QED
  BY <1>2, <1>6, <1>7, <1>8

\* The Command keys held back are sent, and nothing is held back any more.
LEMMA Flushed ==
  ASSUME NEW p, NEW H \in SUBSET Scancodes, NEW M, NEW X \in SUBSET ModifierKey, NEW K, Rising(p, H, M, X, K)
  PROVE  LET R == flush_command(K)
         IN  /\ Rising(p, H, M, X, R) /\ R.cmd_pending = {} /\ R.mods = K.mods /\ R.held_keys = K.held_keys
             /\ K.cmd_pending = {} => R.pressed = K.pressed
<1>1. /\ K \in Keyboards /\ Sends(H, K) /\ K.prefs = p /\ Counted(K) /\ Holds(K, X) /\ Untapped(p, M, K)
  BY DEF Rising, Between, Sends
<1>2. PICK h : Chain(FlushF, K, 8, Keyboards, h) /\ FoldLeft(SendDeferred, K, ALL) = h[8]
  BY <1>1, FlushChain
<1> DEFINE Sent(k) == {ALL[i] : i \in 1 .. k}
           Flushing(k, J) == /\ Sends(H, J) /\ J.prefs = p /\ Counted(J) /\ Untapped(p, M, J)
                             /\ J.mods = K.mods /\ J.held_keys = K.held_keys
                             /\ J.cmd_pending = K.cmd_pending
                             /\ \A m \in ModifierKey : J.mod_sent[m] # NoScancode =>
                                                         m \in X /\ (m \in K.cmd_pending => m \in Sent(k))
                             /\ K.cmd_pending = {} => J.pressed = K.pressed
           S == [k \in 0 .. 8 |-> {J \in Keyboards : Flushing(k, J)}]
<1>3. \A k \in 1 .. 8 : ALL[k] \in ModifierKey
  BY ModifierNames
<1>4. K \in S[0]
  BY <1>1 DEF Holds
<1>5. ASSUME NEW k \in 1 .. 8, NEW J \in Keyboards, J \in S[k - 1]
      PROVE  FlushF[k][J] \in S[k]
  <2> PICK m \in ModifierKey : m = ALL[k]
    BY <1>3
  <2> DEFINE R == SendDeferred(J, m)
  <2>1. k - 1 \in 0 .. 8 /\ k \in 0 .. 8
    OBVIOUS
  <2>2. Flushing(k - 1, J)
    BY <1>5, <2>1
  <2>3. Sent(k) = Sent(k - 1) \cup {m} /\ m \notin Sent(k - 1)
    <3>1. \A i : i \in 1 .. k <=> (i \in 1 .. k - 1 \/ i = k)
      BY <2>1
    <3>2. \A i \in 1 .. k - 1 : i \in 1 .. 8 /\ i # k
      BY <2>1
    <3>3. \A i \in 1 .. k - 1 : ALL[i] # m
      BY <3>2, ModifierNames
    <3> QED
      BY <3>1, <3>3
  <2>4. FlushF[k][J] = R
    BY DEF FlushF
  <2>5. R \in Keyboards
    BY <2>1, DeferredTyped
  <2> HIDE DEF Sent
  <2>6. CASE m \in J.cmd_pending /\ ScancodeOf(J, m) # {}
    <3>1. R = PressAs(J, m)
      BY <2>6 DEF SendDeferred
    <3>2. J.mod_sent[m] = NoScancode /\ Sends(H, J) /\ Counted(J)
      BY <2>1, <2>2, <2>3, <2>6
    <3> HIDE DEF R, Flushing
    <3>3. /\ Sends(H, R) /\ Counted(R)
          /\ R.prefs = J.prefs /\ R.mods = J.mods /\ R.held_keys = J.held_keys
          /\ R.cmd_pending = J.cmd_pending
          /\ PressedFor(J, m, R)
      BY <2>6, <3>1, <3>2, PressAsSends
    <3> USE DEF Flushing
    <3>4. Untapped(p, M, R)
      BY <2>2, <3>3, PressUntapped DEF PressedFor
    <3>5. \A o \in ModifierKey : R.mod_sent[o] # NoScancode => o = m \/ J.mod_sent[o] # NoScancode
      BY <2>1, <3>3, OutIsSeq DEF SentCodes, PressedFor
    <3>6. m \in X
      BY <1>1, <2>2, <2>6 DEF Holds
    <3> QED
      BY <2>1, <2>2, <2>3, <2>4, <2>5, <2>6, <3>3, <3>4, <3>5, <3>6
  <2>7. CASE ~ (m \in J.cmd_pending /\ ScancodeOf(J, m) # {})
    <3>1. R = J
      BY <2>7 DEF SendDeferred
    <3> HIDE DEF R
    <3> QED
      BY <2>1, <2>2, <2>3, <2>4, <2>5, <3>1
  <2> QED
    BY <2>6, <2>7
<1>6. h[8] \in S[8]
  <2> HIDE DEF S
  <2> QED
    BY <1>2, <1>4, <1>5, LoopKeeps
<1> DEFINE J == h[8]
           R == flush_command(K)
<1>7. J \in Keyboards /\ Flushing(8, J)
  <2>1. 8 \in 0 .. 8
    OBVIOUS
  <2> HIDE DEF Flushing
  <2> QED
    BY <1>6, <2>1
<1>8. R = [J EXCEPT !.cmd_pending = {}, !.cmd_consumed = {}]
  BY <1>2 DEF flush_command
<1> HIDE DEF J, R, S, Sent
<1>9. /\ R.pressed = J.pressed /\ R.out = J.out /\ R.mod_sent = J.mod_sent /\ R.prefs = J.prefs
      /\ R.mods = J.mods /\ R.held_keys = J.held_keys /\ R.cmd_pending = {} /\ R.cmd_consumed = {}
      /\ R \in Keyboards
  BY <1>7, <1>8 DEF Keyboards
<1>10. Sends(H, R) /\ Counted(R) /\ Untapped(p, M, R)
  BY <1>7, <1>9 DEF Sends, Wired, RemotePressed, Counted, Untapped
<1>11. Holds(R, X)
  BY <1>7, <1>9 DEF Holds
<1> QED
  BY <1>7, <1>9, <1>10, <1>11 DEF Rising, Between, R

-----------------------------------------------------------------------------
(* The operations on a keyboard between two events.                         *)

Idle(K) == K \in Keyboards /\ K.out = << >> /\ Counted(K) /\ Holds(K, K.mods)

\* The flags words of a user's events.
FlagsOf == UNION {FlagWords(mods) : mods \in SUBSET ModifierKey}

LEMMA PressedTyped ==
  ASSUME NEW K \in Keyboards
  PROVE  RemotePressed(K) \in SUBSET Scancodes
BY OutIsSeq DEF RemotePressed

LEMMA IdleFalls ==
  ASSUME NEW K, Idle(K)
  PROVE  Falling(K.prefs, RemotePressed(K), K.cmd_consumed, K.mods, K)
<1>1. [held |-> RemotePressed(K), ok |-> TRUE] \in Wires
  BY PressedTyped DEF Wires, Idle
<1>2. Wired(RemotePressed(K), K)
  BY <1>1, ReplayEmpty DEF Wired, Idle
<1>3. Unpressed(K.prefs, K.cmd_consumed, K)
  BY DEF Unpressed, Idle
<1> QED
  BY <1>2, <1>3 DEF Falling, Between, Sends, Idle

LEMMA FallingRises ==
  ASSUME NEW p, NEW H, NEW M, NEW X, NEW K, Falling(p, H, M, X, K)
  PROVE  Rising(p, H, M, X, K)
BY UnpressedUntapped DEF Falling, Rising, Between, Sends

\* An event that is no key changes nothing at the remote.
LEMMA OtherSends ==
  ASSUME NEW H \in SUBSET Scancodes, NEW K, Sends(H, K), NEW e \in Events, e.type # "Key",
         NEW J \in Keyboards, J.pressed = K.pressed, J.out = Append(K.out, e)
  PROVE  Sends(H, J)
<1> DEFINE W == [held |-> H, ok |-> TRUE]
<1>1. K.out \in Seq(Events) /\ W \in Wires /\ Replay(W, K.out) = [held |-> RemotePressed(K), ok |-> TRUE]
  BY OutIsSeq DEF Sends, Wires, Wired
<1>2. Replay(W, J.out) = Step(Replay(W, K.out), e)
  <2> HIDE DEF W
  <2> QED
    BY <1>1, ReplayAppend
<1>3. RemotePressed(J) = RemotePressed(K)
  BY DEF RemotePressed
<1> QED
  BY <1>1, <1>2, <1>3 DEF Sends, Wired, Step

\* R is K with Caps Lock as flags say, and perhaps an event of that.
Synced(K, flags, R) ==
  LET J == [K EXCEPT !.caps = {flags.caps}]
  IN  R = J \/ R = Send(J, SyncToggles(flags.caps))

LEMMA SyncFalls ==
  ASSUME NEW p, NEW H \in SUBSET Scancodes, NEW M, NEW X, NEW K, Falling(p, H, M, X, K),
         NEW flags, flags.caps \in BOOLEAN, NEW R, Synced(K, flags, R)
  PROVE  Falling(p, H, M, X, R) /\ R.mods = K.mods
<1> DEFINE J == [K EXCEPT !.caps = {flags.caps}]
           e == SyncToggles(flags.caps)
<1>1. K \in Keyboards
  BY DEF Falling, Between, Sends
<1>2. /\ J \in Keyboards /\ J.out = K.out /\ J.pressed = K.pressed /\ J.held_keys = K.held_keys
      /\ J.mod_sent = K.mod_sent /\ J.prefs = K.prefs /\ J.mods = K.mods
      /\ J.cmd_pending = K.cmd_pending /\ J.cmd_consumed = K.cmd_consumed
  BY <1>1 DEF Keyboards
<1>3. e \in Events /\ e.type # "Key" /\ \A sc : e # Key(sc, TRUE)
  BY DEF Events, SyncToggles, Key
<1>4. R = J \/ R = Send(J, e)
  BY DEF Synced
<1> HIDE DEF J, e
<1>5. Falling(p, H, M, X, J)
  BY <1>2 DEF Falling, Between, Sends, Wired, RemotePressed, Counted, Holds, Unpressed
<1>6. CASE R = J
  BY <1>2, <1>5, <1>6
<1>7. CASE R = Send(J, e)
  <2>1. Append(J.out, e) \in Seq(Events)
    BY <1>2, <1>3, OutIsSeq, AppendTyped, Zenon
  <2>2. /\ R \in Keyboards /\ R.out = Append(J.out, e) /\ R.pressed = J.pressed /\ R.held_keys = J.held_keys
        /\ R.mod_sent = J.mod_sent /\ R.prefs = J.prefs /\ R.mods = J.mods
        /\ R.cmd_pending = J.cmd_pending /\ R.cmd_consumed = J.cmd_consumed
    BY <1>2, <1>7, <2>1 DEF Send, Keyboards
  <2>3. Sends(H, J) /\ Unpressed(p, M, J)
    BY <1>5 DEF Falling, Between
  <2>4. Sends(H, R)
    BY <1>2, <1>3, <2>2, <2>3, OtherSends
  <2>5. Unpressed(p, M, R)
    BY <1>2, <1>3, <2>2, <2>3, UnpressedMore
  <2> QED
    BY <1>2, <1>5, <2>2, <2>4, <2>5 DEF Falling, Between, Counted, Holds
<1> QED
  BY <1>4, <1>6, <1>7

LEMMA LeastIn ==
  ASSUME NEW s \in SUBSET (1 .. 4), s # {}
  PROVE  Min(s) \in s
<1> DEFINE P(x) == x \in s /\ \A y \in s : x =< y
<1>1. \E x : P(x)
  OBVIOUS
<1>2. P(CHOOSE x : P(x))
  BY <1>1
<1>3. Min(s) = CHOOSE x : P(x)
  BY DEF Min
<1> QED
  BY <1>2, <1>3

\* The keys that flags stand for are modifiers.
LEMMA HeldAreModifiers ==
  ASSUME NEW flags \in FlagsOf, NEW changed, NEW previous
  PROVE  held_modifiers(flags, changed, previous) \in SUBSET ModifierKey
<1> DEFINE sides(class) == {m \in ModifierKey : ClassOf(m) = class}
           first(class) == <<sides(class) \intersect flags.device, sides(class) \intersect changed,
                             sides(class) \intersect previous, sides(class) \intersect {ALL[i] : i \in {1, 3, 5, 7}}>>
           held(class) == first(class)[Min({i \in 1..4 : first(class)[i] # {}})]
<1>1. ASSUME NEW class \in flags.classes
      PROVE  held(class) \subseteq ModifierKey
  <2>1. \E m \in ModifierKey : class = ClassOf(m)
    BY DEF FlagsOf, FlagWords, Flags
  <2>2. first(class)[4] # {}
    BY <2>1, ClassesOfModifiers
  <2> DEFINE s == {i \in 1..4 : first(class)[i] # {}}
  <2>3. s \in SUBSET (1 .. 4) /\ s # {}
    BY <2>2
  <2>4. Min(s) \in 1 .. 4
    <3> HIDE DEF s
    <3> QED
      BY <2>3, LeastIn
  <2>5. \A i \in 1 .. 4 : first(class)[i] \subseteq ModifierKey
    OBVIOUS
  <2> QED
    BY <2>4, <2>5
<1>2. held_modifiers(flags, changed, previous) = UNION {held(class) : class \in flags.classes}
  BY DEF held_modifiers
<1> HIDE DEF held
<1> QED
  BY <1>1, <1>2

\* The modifiers become those of a flags word.
LEMMA Applied ==
  ASSUME NEW p, NEW H \in SUBSET Scancodes, NEW M \in SUBSET Commands,
         NEW K, Falling(p, H, M, K.mods, K), M \subseteq K.mods, NEW flags \in FlagsOf, NEW changed
  PROVE  LET R == apply_modifiers(K, flags, changed) IN Rising(p, H, M, R.mods, R)
<1> DEFINE new == held_modifiers(flags, changed, K.mods)
           ups == K.mods \ new
           downs == new \ K.mods
           L == release_all(K, ups)
           J == press_all(L, downs)
           R == apply_modifiers(K, flags, changed)
<1>1. new \in SUBSET ModifierKey /\ K.mods \in SUBSET ModifierKey
  BY HeldAreModifiers, OutIsSeq DEF Falling, Between, Sends
<1>2. R = [J EXCEPT !.mods = new]
  BY DEF apply_modifiers
<1>3. downs \in SUBSET ModifierKey /\ downs \cap ((K.mods \ ups) \cup M) = {} /\ (K.mods \ ups) \cup downs = new
        /\ K.mods \ ups \in SUBSET ModifierKey
  BY <1>1
<1> HIDE DEF new, ups, downs
<1>4. Falling(p, H, M, K.mods \ ups, L)
  BY <1>1, AllReleased
<1> HIDE DEF L
<1>5. Rising(p, H, M, K.mods \ ups, L)
  BY <1>4, FallingRises
<1>6. Rising(p, H, M, new, J)
  <2>1. Rising(p, H, M, (K.mods \ ups) \cup downs, J)
    BY <1>3, <1>5, AllPressed
  <2> QED
    BY <1>3, <2>1
<1> HIDE DEF J, R
<1>7. J \in Keyboards
  BY <1>6 DEF Rising, Between, Sends
<1>8. /\ R \in Keyboards /\ R.mods = new /\ R.out = J.out /\ R.pressed = J.pressed /\ R.held_keys = J.held_keys
      /\ R.mod_sent = J.mod_sent /\ R.prefs = J.prefs
      /\ R.cmd_pending = J.cmd_pending /\ R.cmd_consumed = J.cmd_consumed
  BY <1>1, <1>2, <1>7 DEF Keyboards
<1> QED
  BY <1>6, <1>8 DEF Rising, Between, Sends, Wired, RemotePressed, Counted, Holds, Untapped, R

LEMMA CapsTyped ==
  ASSUME NEW flags \in FlagsOf
  PROVE  flags.caps \in BOOLEAN
<1>1. PICK mods, synthetic : flags = Flags(mods, synthetic, FALSE)
  BY DEF FlagsOf, FlagWords
<1> QED
  BY <1>1 DEF Flags

\* What a handler hands over: the wire has followed, and no Command key of M that was let go was tapped.
Handled(p, H, M, K) == Between(p, H, M, K.mods, K) /\ Untapped(p, M \ K.cmd_pending, K)

LEMMA RisingHandled ==
  ASSUME NEW p, NEW H, NEW M, NEW K, Rising(p, H, M, K.mods, K)
  PROVE  Handled(p, H, M, K)
BY DEF Rising, Handled, Untapped

\* A handler that lets no Command key go taps none.
LEMMA PendingHandled ==
  ASSUME NEW p, NEW H, NEW M, NEW K, Between(p, H, M, K.mods, K), M \subseteq K.cmd_pending
  PROVE  Handled(p, H, M, K)
BY DEF Handled, Untapped

LEMMA FlagsChangedHandled ==
  ASSUME NEW K, Idle(K), NEW flags \in FlagsOf, NEW k
  PROVE  Handled(K.prefs, RemotePressed(K), K.cmd_consumed, flags_changed(K, k, flags))
<1> DEFINE p == K.prefs
           H == RemotePressed(K)
           M == K.cmd_consumed
           J == sync_caps(K, flags, k = "CAPS_LOCK")
           R == flags_changed(K, k, flags)
<1>1. H \in SUBSET Scancodes /\ M \in SUBSET Commands /\ M \subseteq K.mods
  BY OutIsSeq, PressedTyped DEF Idle, Holds
<1>2. flags.caps \in BOOLEAN
  BY CapsTyped
<1>3. R = apply_modifiers(J, flags, {m \in ModifierKey : kvk_of(m) = k})
  BY DEF flags_changed
<1>4. Falling(p, H, M, K.mods, K)
  BY IdleFalls
<1> HIDE DEF p, H, M, J, R
<1>5. Falling(p, H, M, K.mods, J) /\ J.mods = K.mods
  <2>1. Synced(K, flags, J)
    BY DEF J, sync_caps, Synced
  <2> QED
    BY <1>1, <1>2, <1>4, <2>1, SyncFalls
<1>6. Rising(p, H, M, R.mods, R)
  BY <1>1, <1>3, <1>5, Applied
<1>7. Handled(p, H, M, R)
  BY <1>6, RisingHandled
<1> QED
  BY <1>7 DEF p, H, M, R

LEMMA FocusGainedHandled ==
  ASSUME NEW K, Idle(K), NEW flags \in FlagsOf
  PROVE  Handled(K.prefs, RemotePressed(K), K.cmd_consumed, focus_gained(K, flags))
<1> DEFINE p == K.prefs
           H == RemotePressed(K)
           M == K.cmd_consumed
           J == sync_caps(K, flags, TRUE)
           R == focus_gained(K, flags)
<1>1. H \in SUBSET Scancodes /\ M \in SUBSET Commands /\ M \subseteq K.mods
  BY OutIsSeq, PressedTyped DEF Idle, Holds
<1>2. flags.caps \in BOOLEAN
  BY CapsTyped
<1>3. R = apply_modifiers(J, flags, {})
  BY DEF focus_gained
<1>4. Falling(p, H, M, K.mods, K)
  BY IdleFalls
<1> HIDE DEF p, H, M, J, R
<1>5. Falling(p, H, M, K.mods, J) /\ J.mods = K.mods
  <2>1. Synced(K, flags, J)
    BY DEF J, sync_caps, Synced
  <2> QED
    BY <1>1, <1>2, <1>4, <2>1, SyncFalls
<1>6. Rising(p, H, M, R.mods, R)
  BY <1>1, <1>3, <1>5, Applied
<1>7. Handled(p, H, M, R)
  BY <1>6, RisingHandled
<1> QED
  BY <1>7 DEF p, H, M, R

\* A key goes down, after the modifiers and what was held back of them.
LEMMA KeyDownHandled ==
  ASSUME NEW K, Idle(K), NEW flags \in FlagsOf, NEW k \in Keys
  PROVE  Handled(K.prefs, RemotePressed(K), K.cmd_consumed, key_down_scancode(K, k, flags))
<1> DEFINE p == K.prefs
           H == RemotePressed(K)
           M == K.cmd_consumed
           C == sync_caps(K, flags, FALSE)
           J == apply_modifiers(C, flags, {})
           codes == scancode_for(k, K.keyboard, K.prefs.cmd_as)
           sc == CHOOSE c \in codes : TRUE
           L == flush_command(J)
           T == press(L, sc)
           R == [T EXCEPT !.held_keys = [h \in DOMAIN @ \union {k} |-> IF h = k THEN sc ELSE @[h]]]
<1>1. /\ H \in SUBSET Scancodes /\ M \in SUBSET Commands /\ M \subseteq K.mods
      /\ p \in Prefs /\ K.keyboard = "Ansi"
  BY OutIsSeq, PressedTyped DEF Idle, Holds
<1>2. flags.caps \in BOOLEAN
  BY CapsTyped
<1>3. key_down_scancode(K, k, flags) = IF is_modifier(k) \/ k \in DOMAIN J.held_keys \/ codes = {} THEN J ELSE R
  BY DEF key_down_scancode
<1>4. Falling(p, H, M, K.mods, K)
  BY IdleFalls
<1>5. codes \subseteq Scancodes
  BY <1>1, CodesTyped
<1>6. codes # {} => sc \in Scancodes
  BY <1>5
<1> HIDE DEF p, H, M, C, codes, sc
<1>7. Falling(p, H, M, K.mods, C) /\ C.mods = K.mods
  <2>1. Synced(K, flags, C)
    BY DEF C, sync_caps, Synced
  <2> QED
    BY <1>1, <1>2, <1>4, <2>1, SyncFalls
<1>8. Rising(p, H, M, J.mods, J)
  BY <1>1, <1>7, Applied
<1> HIDE DEF J, L
<1>9. J.mods \in SUBSET ModifierKey
  BY <1>8, OutIsSeq DEF Rising, Between, Sends
<1>10. Rising(p, H, M, J.mods, L) /\ L.mods = J.mods /\ L.held_keys = J.held_keys
  BY <1>1, <1>8, <1>9, Flushed DEF L
<1>11. ASSUME k \notin DOMAIN J.held_keys, codes # {}
       PROVE  Rising(p, H, M, R.mods, R)
  <2>1. sc \in Scancodes /\ L \in Keyboards /\ Sends(H, L) /\ Counted(L) /\ Untapped(p, M, L)
    BY <1>6, <1>10, <1>11 DEF Rising, Between, Sends
  <2>2. Sends(H, T) /\ T = [L EXCEPT !.pressed[sc] = @ + 1, !.out = IF L.pressed[sc] = 0 THEN Append(@, Key(sc, TRUE)) ELSE @]
    BY <1>1, <2>1, PressSends
  <2>3. /\ T.pressed = [L.pressed EXCEPT ![sc] = @ + 1] /\ T.mod_sent = L.mod_sent
        /\ T.prefs = L.prefs /\ T.mods = L.mods /\ T.held_keys = L.held_keys
        /\ T.cmd_pending = L.cmd_pending /\ T.cmd_consumed = L.cmd_consumed
        /\ T.out = (IF L.pressed[sc] = 0 THEN Append(L.out, Key(sc, TRUE)) ELSE L.out)
        /\ T \in Keyboards
    BY <2>1, <2>2 DEF Sends, Keyboards
  <2> DEFINE h == L.held_keys
             g == [x \in DOMAIN h \union {k} |-> IF x = k THEN sc ELSE h[x]]
  <2>4. h \in Holdings /\ k \in Keys \ DOMAIN h
    BY <1>10, <1>11, <2>1, OutIsSeq
  <2>5. R = [T EXCEPT !.held_keys = g]
    BY <2>3
  <2> HIDE DEF h, T, R
  <2>6. g \in Holdings /\ \A c : Cardinality(HoldingKeys(g, c)) = Cardinality(HoldingKeys(h, c)) + (IF c = sc THEN 1 ELSE 0)
    BY <2>1, <2>4, HoldKey
  <2> HIDE DEF g
  <2>7. /\ R \in Keyboards /\ R.held_keys = g /\ R.mods = L.mods /\ R.out = T.out /\ R.pressed = T.pressed
        /\ R.mod_sent = L.mod_sent /\ R.prefs = L.prefs
        /\ R.cmd_pending = L.cmd_pending /\ R.cmd_consumed = L.cmd_consumed
    BY <2>3, <2>5, <2>6 DEF Keyboards
  <2>8. Sends(H, R)
    BY <2>2, <2>7 DEF Sends, Wired, RemotePressed
  <2>9. Untapped(p, M, R)
    BY <2>1, <2>3, <2>7, PressUntapped
  <2>10. Counted(R)
    <3>1. ASSUME NEW c \in Scancodes
          PROVE  R.pressed[c] = Cardinality(HoldingKeys(R.held_keys, c)) + Cardinality(HoldingMods(R.mod_sent, c))
      <4>1. L.pressed[c] = Cardinality(HoldingKeys(h, c)) + Cardinality(HoldingMods(L.mod_sent, c))
        BY <2>1 DEF Counted, h
      <4>2. Cardinality(HoldingKeys(h, c)) \in Nat /\ Cardinality(HoldingMods(L.mod_sent, c)) \in Nat
        BY <2>4, KeysFinite, ModsFinite
      <4>3. R.pressed[c] = L.pressed[c] + (IF c = sc THEN 1 ELSE 0)
        BY <2>1, <2>3, <2>7, OutIsSeq
      <4> QED
        BY <2>6, <2>7, <4>1, <4>2, <4>3
    <3> QED
      BY <3>1 DEF Counted
  <2> QED
    BY <1>10, <2>7, <2>8, <2>9, <2>10 DEF Rising, Between, Holds
<1> HIDE DEF R, T
<1>12. Rising(p, H, M, key_down_scancode(K, k, flags).mods, key_down_scancode(K, k, flags))
  BY <1>3, <1>8, <1>11
<1>13. Handled(p, H, M, key_down_scancode(K, k, flags))
  BY <1>12, RisingHandled
<1> QED
  BY <1>13 DEF p, H, M

\* The last holder's key goes up, or one of several.
LEMMA KeyUpHandled ==
  ASSUME NEW K, Idle(K), NEW k
  PROVE  Handled(K.prefs, RemotePressed(K), K.cmd_consumed, key_up(K, k))
<1> DEFINE p == K.prefs
           H == RemotePressed(K)
           M == K.cmd_consumed
           h == K.held_keys
           sc == h[k]
           g == [x \in DOMAIN h \ {k} |-> h[x]]
           T == [K EXCEPT !.held_keys = g]
           R == release(T, sc)
<1>1. K \in Keyboards /\ h \in Holdings /\ H \in SUBSET Scancodes /\ K.mod_sent \in SentCodes /\ Counted(K)
  BY OutIsSeq, PressedTyped DEF Idle
<1>2. Between(p, H, M, K.mods, K) /\ M \subseteq K.cmd_pending
  BY IdleFalls DEF Falling, Idle, Holds
<1>3. CASE k \notin DOMAIN h
  <2>1. key_up(K, k) = K
    BY <1>3 DEF key_up
  <2> QED
    BY <1>2, <2>1, PendingHandled
<1>4. CASE k \in DOMAIN h
  <2>1. key_up(K, k) = R
    BY <1>4 DEF key_up
  <2>2. sc \in Scancodes
    BY <1>1, <1>4 DEF Holdings
  <2>3. /\ g \in Holdings /\ Cardinality(HoldingKeys(h, sc)) # 0
        /\ \A c : Cardinality(HoldingKeys(g, c)) = Cardinality(HoldingKeys(h, c)) - (IF c = sc THEN 1 ELSE 0)
    BY <1>1, <1>4, DropKey
  <2> HIDE DEF g
  <2>4. /\ T \in Keyboards /\ T.held_keys = g /\ T.mods = K.mods /\ T.out = K.out /\ T.pressed = K.pressed
        /\ T.mod_sent = K.mod_sent /\ T.prefs = K.prefs
        /\ T.cmd_pending = K.cmd_pending /\ T.cmd_consumed = K.cmd_consumed
    BY <1>1, <2>3 DEF Keyboards
  <2> HIDE DEF T, sc, h, p, M, H
  <2>5. \A c \in Scancodes : /\ K.pressed[c] = Cardinality(HoldingKeys(h, c)) + Cardinality(HoldingMods(K.mod_sent, c))
                             /\ Cardinality(HoldingKeys(h, c)) \in Nat /\ Cardinality(HoldingMods(K.mod_sent, c)) \in Nat
    BY <1>1, KeysFinite, ModsFinite DEF Counted, h
  <2>6. T.pressed[sc] # 0
    BY <2>2, <2>3, <2>4, <2>5
  <2>7. Sends(H, T)
    BY <1>2, <2>4 DEF Between, Sends, Wired, RemotePressed
  <2>8. /\ Sends(H, R)
        /\ R = [T EXCEPT !.pressed[sc] = @ - 1, !.out = IF T.pressed[sc] = 1 THEN Append(@, Key(sc, FALSE)) ELSE @]
    BY <1>1, <2>2, <2>6, <2>7, ReleaseSends
  <2>9. /\ R.pressed = [K.pressed EXCEPT ![sc] = @ - 1] /\ R.prefs = K.prefs /\ R.mods = K.mods
        /\ R.held_keys = g /\ R.mod_sent = K.mod_sent
        /\ R.cmd_pending = K.cmd_pending /\ R.cmd_consumed = K.cmd_consumed
    BY <2>4, <2>8 DEF Keyboards
  <2> HIDE DEF R
  <2>10. Counted(R)
    <3>1. ASSUME NEW c \in Scancodes
          PROVE  R.pressed[c] = Cardinality(HoldingKeys(R.held_keys, c)) + Cardinality(HoldingMods(R.mod_sent, c))
      <4>1. R.pressed[c] = K.pressed[c] - (IF c = sc THEN 1 ELSE 0)
        BY <1>1, <2>9, OutIsSeq
      <4> QED
        BY <2>3, <2>5, <2>9, <4>1
    <3> QED
      BY <3>1 DEF Counted
  <2>11. Between(p, H, M, R.mods, R) /\ M \subseteq R.cmd_pending
    BY <1>2, <2>8, <2>9, <2>10 DEF Between, Holds
  <2>12. Handled(p, H, M, R)
    BY <2>11, PendingHandled
  <2> QED
    BY <2>1, <2>12 DEF p, H, M
<1> QED
  BY <1>3, <1>4

\* R differs from K in what was sent, at most.
SameKeys(K, R) ==
  /\ R.prefs = K.prefs /\ R.mods = K.mods /\ R.held_keys = K.held_keys /\ R.mod_sent = K.mod_sent
  /\ R.cmd_pending = K.cmd_pending /\ R.cmd_consumed = K.cmd_consumed

LEMMA SameHandled ==
  ASSUME NEW K, Idle(K), NEW R, SameKeys(K, R), R.pressed = K.pressed, Sends(RemotePressed(K), R)
  PROVE  Handled(K.prefs, RemotePressed(K), K.cmd_consumed, R)
<1> DEFINE p == K.prefs
           H == RemotePressed(K)
           M == K.cmd_consumed
<1>1. M \subseteq R.cmd_pending
  BY DEF SameKeys, Idle, Holds
<1>2. Between(p, H, M, R.mods, R)
  BY DEF SameKeys, Between, Idle, Counted, Holds
<1> HIDE DEF p, H, M
<1>3. Handled(p, H, M, R)
  BY <1>1, <1>2, PendingHandled
<1> QED
  BY <1>3 DEF p, H, M

LEMMA PressSame ==
  ASSUME NEW H \in SUBSET Scancodes, NEW K, Sends(H, K), NEW sc \in Scancodes
  PROVE  LET R == press(K, sc)
         IN  Sends(H, R) /\ SameKeys(K, R) /\ R.pressed = [K.pressed EXCEPT ![sc] = @ + 1]
<1> DEFINE R == press(K, sc)
<1>1. Sends(H, R) /\ R = [K EXCEPT !.pressed[sc] = @ + 1, !.out = IF K.pressed[sc] = 0 THEN Append(@, Key(sc, TRUE)) ELSE @]
  BY PressSends
<1> QED
  BY <1>1 DEF SameKeys, Sends, Keyboards

LEMMA ReleaseSame ==
  ASSUME NEW H \in SUBSET Scancodes, NEW K, Sends(H, K), NEW sc \in Scancodes, K.pressed[sc] # 0
  PROVE  LET R == release(K, sc)
         IN  Sends(H, R) /\ SameKeys(K, R) /\ R.pressed = [K.pressed EXCEPT ![sc] = @ - 1]
<1> DEFINE R == release(K, sc)
<1>1. Sends(H, R) /\ R = [K EXCEPT !.pressed[sc] = @ - 1, !.out = IF K.pressed[sc] = 1 THEN Append(@, Key(sc, FALSE)) ELSE @]
  BY ReleaseSends
<1> QED
  BY <1>1 DEF SameKeys, Sends, Keyboards

\* Ctrl+Alt+Del presses three codes and releases them, whoever else holds them.
LEMMA CtrlAltDelHandled ==
  ASSUME NEW K, Idle(K)
  PROVE  /\ Handled(K.prefs, RemotePressed(K), K.cmd_consumed, ctrl_alt_del(K))
         /\ SameKeys(K, ctrl_alt_del(K)) /\ ctrl_alt_del(K).pressed = K.pressed
<1> DEFINE H == RemotePressed(K)
           K1 == press(K, \h1D)
           K2 == press(K1, \h38)
           K3 == press(K2, ext(\h53))
           K4 == release(K3, ext(\h53))
           K5 == release(K4, \h38)
           K6 == release(K5, \h1D)
<1>1. /\ \h1D \in Scancodes /\ \h38 \in Scancodes /\ ext(\h53) \in Scancodes
      /\ \h1D # \h38 /\ \h1D # ext(\h53) /\ \h38 # ext(\h53)
  BY DEF Scancodes, ext
<1>2. ctrl_alt_del(K) = K6
  BY DEF ctrl_alt_del
<1>3. Sends(H, K) /\ H \in SUBSET Scancodes /\ K.pressed \in [Scancodes -> Nat]
  BY IdleFalls, PressedTyped, OutIsSeq DEF Falling, Between, Idle
<1> DEFINE a == \h1D
           b == \h38
           c == ext(\h53)
<1> HIDE DEF H, a, b, c
<1>4. a \in Scancodes /\ b \in Scancodes /\ c \in Scancodes /\ a # b /\ a # c /\ b # c
  BY <1>1 DEF a, b, c
<1>5. K1 = press(K, a) /\ K2 = press(K1, b) /\ K3 = press(K2, c) /\ K4 = release(K3, c) /\ K5 = release(K4, b) /\ K6 = release(K5, a)
  BY DEF a, b, c
<1> HIDE DEF K1, K2, K3, K4, K5, K6
<1>6. Sends(H, K1) /\ SameKeys(K, K1) /\ K1.pressed = [K.pressed EXCEPT ![a] = @ + 1]
  BY <1>3, <1>4, <1>5, PressSame
<1>7. Sends(H, K2) /\ SameKeys(K1, K2) /\ K2.pressed = [K1.pressed EXCEPT ![b] = @ + 1]
  BY <1>3, <1>4, <1>5, <1>6, PressSame
<1>8. Sends(H, K3) /\ SameKeys(K2, K3) /\ K3.pressed = [K2.pressed EXCEPT ![c] = @ + 1]
  <2>1. Sends(H, K2) /\ H \in SUBSET Scancodes /\ c \in Scancodes /\ K3 = press(K2, c)
    BY <1>3, <1>4, <1>5, <1>7
  <2> QED
    BY <2>1, PressSame
<1>9. K3.pressed[c] # 0 /\ K3.pressed \in [Scancodes -> Nat]
  BY <1>3, <1>4, <1>6, <1>7, <1>8
<1>10. Sends(H, K4) /\ SameKeys(K3, K4) /\ K4.pressed = [K3.pressed EXCEPT ![c] = @ - 1]
  BY <1>3, <1>4, <1>5, <1>8, <1>9, ReleaseSame
<1>11. K4.pressed = K2.pressed /\ K4.pressed[b] # 0
  BY <1>3, <1>4, <1>6, <1>7, <1>8, <1>10
<1>12. Sends(H, K5) /\ SameKeys(K4, K5) /\ K5.pressed = [K4.pressed EXCEPT ![b] = @ - 1]
  <2>1. Sends(H, K4) /\ H \in SUBSET Scancodes /\ b \in Scancodes /\ K5 = release(K4, b) /\ K4.pressed[b] # 0
    BY <1>3, <1>4, <1>5, <1>10, <1>11
  <2> QED
    BY <2>1, ReleaseSame
<1>13. K5.pressed = K1.pressed /\ K5.pressed[a] # 0
  BY <1>3, <1>4, <1>6, <1>7, <1>11, <1>12
<1>14. Sends(H, K6) /\ SameKeys(K5, K6) /\ K6.pressed = [K5.pressed EXCEPT ![a] = @ - 1]
  <2>1. Sends(H, K5) /\ H \in SUBSET Scancodes /\ a \in Scancodes /\ K6 = release(K5, a) /\ K5.pressed[a] # 0
    BY <1>3, <1>4, <1>5, <1>12, <1>13
  <2> QED
    BY <2>1, ReleaseSame
<1>15. K6.pressed = K.pressed
  BY <1>3, <1>4, <1>6, <1>13, <1>14
<1>16. SameKeys(K, K6)
  BY <1>6, <1>7, <1>8, <1>10, <1>12, <1>14 DEF SameKeys
<1> QED
  BY <1>2, <1>14, <1>15, <1>16, SameHandled DEF H

-----------------------------------------------------------------------------
(* Text lifts the modifiers that would change its level, and restores them.  *)

LiftText(P, J) ==
  FoldLeft(LAMBDA L, sc : IF sc \in P THEN Send(L, Key(sc, FALSE)) ELSE L, J, TEXT_LEVEL_MODIFIERS)
RestoreText(P, J) ==
  FoldLeft(LAMBDA L, sc : IF sc \in P THEN Send(L, Key(sc, TRUE)) ELSE L, J, TEXT_LEVEL_MODIFIERS)

LEMMA InsertIs ==
  ASSUME NEW K
  PROVE  insert_text(K, TRUE) = RestoreText(RemotePressed(K), Send(LiftText(RemotePressed(K), K), Unicode))
BY DEF insert_text, LiftText, RestoreText

LEMMA SendTyped ==
  ASSUME NEW K \in Keyboards, NEW e \in Events
  PROVE  /\ Send(K, e) \in Keyboards /\ SameKeys(K, Send(K, e))
         /\ Send(K, e).pressed = K.pressed /\ Send(K, e).out = Append(K.out, e)
<1>1. Append(K.out, e) \in Seq(Events)
  BY OutIsSeq, AppendTyped, Zenon
<1> QED
  BY <1>1 DEF Send, Keyboards, SameKeys

LEMMA TextCodesAre ==
  LET s == TEXT_LEVEL_MODIFIERS
  IN  /\ Len(s) = 4 /\ DOMAIN s = 1 .. 4
      /\ \A i, j \in 1 .. 4 : s[i] = s[j] => i = j
BY DEF TEXT_LEVEL_MODIFIERS, ext

\* LiftText goes through the codes from the first.
LiftF(P) ==
  [k \in 1 .. 4 |-> [J \in Keyboards |->
    IF TEXT_LEVEL_MODIFIERS[k] \in P THEN Send(J, Key(TEXT_LEVEL_MODIFIERS[k], FALSE)) ELSE J]]

LEMMA LiftChain ==
  ASSUME NEW K \in Keyboards, NEW P \in SUBSET Scancodes
  PROVE  \E h : Chain(LiftF(P), K, 4, Keyboards, h) /\ LiftText(P, K) = h[4]
<1> DEFINE s == TEXT_LEVEL_MODIFIERS
           F == LiftF(P)
           Right(g) == g = [t \in SUBSET DOMAIN s |-> IF t = {} THEN K ELSE IF s[Max(t)] \in P THEN Send(g[t \ {Max(t)}], Key(s[Max(t)], FALSE)) ELSE g[t \ {Max(t)}]]
           it == CHOOSE g : Right(g)
<1>1. LiftText(P, K) = it[DOMAIN s]
  BY DEF LiftText, FoldLeft, MapThenFoldSet
<1>2. DOMAIN s = 1 .. 4
  BY TextCodesAre
<1> HIDE DEF s
<1>3. F \in [1 .. 4 -> [Keyboards -> Keyboards]]
  <2>1. \A k \in 1 .. 4 : \A J \in Keyboards : (IF s[k] \in P THEN Send(J, Key(s[k], FALSE)) ELSE J) \in Keyboards
    BY KeyEvents, SendTyped
  <2> QED
    BY <2>1 DEF LiftF, s
<1>4. Right(it)
  <2>1. PICK g : Folding(F, K, 4, g) /\ g \in [SUBSET (1 .. 4) -> Keyboards]
    BY <1>3, FoldExists
  <2>2. ASSUME NEW t \in SUBSET (1 .. 4), t # {}
        PROVE  F[Max(t)][g[t \ {Max(t)}]] = IF s[Max(t)] \in P THEN Send(g[t \ {Max(t)}], Key(s[Max(t)], FALSE)) ELSE g[t \ {Max(t)}]
    <3>1. Max(t) \in 1 .. 4
      BY <2>2, MaxIn
    <3>2. g[t \ {Max(t)}] \in Keyboards
      BY <2>1
    <3> QED
      BY <3>1, <3>2 DEF LiftF, s
  <2>3. Right(g)
    BY <1>2, <2>1, <2>2 DEF Folding
  <2> QED
    BY <2>3
<1> HIDE DEF it
<1>5. it[{}] = K
  BY <1>4
<1>6. ASSUME NEW k \in 1 .. 4, it[1 .. k - 1] \in Keyboards
      PROVE  it[1 .. k] = F[k][it[1 .. k - 1]]
  <2>1. 1 .. k \in SUBSET DOMAIN s /\ k \in 1 .. k /\ (1 .. k) \ {k} = 1 .. k - 1
    BY <1>2, Initial
  <2>2. Max(1 .. k) = k
    BY <2>1, MaxIs
  <2>3. it[1 .. k] = IF s[k] \in P THEN Send(it[1 .. k - 1], Key(s[k], FALSE)) ELSE it[1 .. k - 1]
    BY <1>4, <2>1, <2>2
  <2> QED
    BY <1>2, <1>6, <2>3 DEF LiftF, s
<1>7. \E h : Chain(F, K, 4, Keyboards, h) /\ h[4] = it[1 .. 4]
  <2> DEFINE n == 4
  <2>1. Stepwise(F, K, n, Keyboards, it)
    BY <1>3, <1>5, <1>6 DEF Stepwise
  <2> HIDE DEF n, F
  <2>2. \E h : Chain(F, K, n, Keyboards, h) /\ h[n] = it[1 .. n]
    BY <2>1, Chained
  <2> QED
    BY <2>2 DEF n
<1> QED
  BY <1>1, <1>2, <1>7

\* RestoreText goes through the codes from the first.
RestoreF(P) ==
  [k \in 1 .. 4 |-> [J \in Keyboards |->
    IF TEXT_LEVEL_MODIFIERS[k] \in P THEN Send(J, Key(TEXT_LEVEL_MODIFIERS[k], TRUE)) ELSE J]]

LEMMA RestoreChain ==
  ASSUME NEW K \in Keyboards, NEW P \in SUBSET Scancodes
  PROVE  \E h : Chain(RestoreF(P), K, 4, Keyboards, h) /\ RestoreText(P, K) = h[4]
<1> DEFINE s == TEXT_LEVEL_MODIFIERS
           F == RestoreF(P)
           Right(g) == g = [t \in SUBSET DOMAIN s |-> IF t = {} THEN K ELSE IF s[Max(t)] \in P THEN Send(g[t \ {Max(t)}], Key(s[Max(t)], TRUE)) ELSE g[t \ {Max(t)}]]
           it == CHOOSE g : Right(g)
<1>1. RestoreText(P, K) = it[DOMAIN s]
  BY DEF RestoreText, FoldLeft, MapThenFoldSet
<1>2. DOMAIN s = 1 .. 4
  BY TextCodesAre
<1> HIDE DEF s
<1>3. F \in [1 .. 4 -> [Keyboards -> Keyboards]]
  <2>1. \A k \in 1 .. 4 : \A J \in Keyboards : (IF s[k] \in P THEN Send(J, Key(s[k], TRUE)) ELSE J) \in Keyboards
    BY KeyEvents, SendTyped
  <2> QED
    BY <2>1 DEF RestoreF, s
<1>4. Right(it)
  <2>1. PICK g : Folding(F, K, 4, g) /\ g \in [SUBSET (1 .. 4) -> Keyboards]
    BY <1>3, FoldExists
  <2>2. ASSUME NEW t \in SUBSET (1 .. 4), t # {}
        PROVE  F[Max(t)][g[t \ {Max(t)}]] = IF s[Max(t)] \in P THEN Send(g[t \ {Max(t)}], Key(s[Max(t)], TRUE)) ELSE g[t \ {Max(t)}]
    <3>1. Max(t) \in 1 .. 4
      BY <2>2, MaxIn
    <3>2. g[t \ {Max(t)}] \in Keyboards
      BY <2>1
    <3> QED
      BY <3>1, <3>2 DEF RestoreF, s
  <2>3. Right(g)
    BY <1>2, <2>1, <2>2 DEF Folding
  <2> QED
    BY <2>3
<1> HIDE DEF it
<1>5. it[{}] = K
  BY <1>4
<1>6. ASSUME NEW k \in 1 .. 4, it[1 .. k - 1] \in Keyboards
      PROVE  it[1 .. k] = F[k][it[1 .. k - 1]]
  <2>1. 1 .. k \in SUBSET DOMAIN s /\ k \in 1 .. k /\ (1 .. k) \ {k} = 1 .. k - 1
    BY <1>2, Initial
  <2>2. Max(1 .. k) = k
    BY <2>1, MaxIs
  <2>3. it[1 .. k] = IF s[k] \in P THEN Send(it[1 .. k - 1], Key(s[k], TRUE)) ELSE it[1 .. k - 1]
    BY <1>4, <2>1, <2>2
  <2> QED
    BY <1>2, <1>6, <2>3 DEF RestoreF, s
<1>7. \E h : Chain(F, K, 4, Keyboards, h) /\ h[4] = it[1 .. 4]
  <2> DEFINE n == 4
  <2>1. Stepwise(F, K, n, Keyboards, it)
    BY <1>3, <1>5, <1>6 DEF Stepwise
  <2> HIDE DEF n, F
  <2>2. \E h : Chain(F, K, n, Keyboards, h) /\ h[n] = it[1 .. n]
    BY <2>1, Chained
  <2> QED
    BY <2>2 DEF n
<1> QED
  BY <1>1, <1>2, <1>7

\* J is K but for what was sent, after which the remote holds Q.
Left(H, K, Q, J) ==
  /\ J \in Keyboards /\ SameKeys(K, J) /\ J.pressed = K.pressed
  /\ Replay([held |-> H, ok |-> TRUE], J.out) = [held |-> Q, ok |-> TRUE]

LEMMA LeftMore ==
  ASSUME NEW H \in SUBSET Scancodes, NEW K, NEW Q, NEW J, Left(H, K, Q, J), NEW e \in Events,
         NEW N, Step([held |-> Q, ok |-> TRUE], e) = [held |-> N, ok |-> TRUE]
  PROVE  Left(H, K, N, Send(J, e))
<1> DEFINE W == [held |-> H, ok |-> TRUE]
           R == Send(J, e)
<1>1. W \in Wires /\ J.out \in Seq(Events) /\ J \in Keyboards
  BY OutIsSeq DEF Wires, Left
<1>2. R \in Keyboards /\ SameKeys(J, R) /\ R.pressed = J.pressed /\ R.out = Append(J.out, e)
  BY <1>1, SendTyped
<1> HIDE DEF W, R
<1>3. Replay(W, R.out) = Step(Replay(W, J.out), e)
  BY <1>1, <1>2, ReplayAppend
<1>4. Replay(W, R.out) = [held |-> N, ok |-> TRUE]
  BY <1>3 DEF Left, W
<1> QED
  BY <1>2, <1>4 DEF Left, SameKeys, W, R

LEMMA TextLoopKeeps ==
  ASSUME NEW F, NEW base, NEW h, Chain(F, base, 4, Keyboards, h), NEW S,
         base \in S[0],
         \A k \in 1 .. 4 : \A J \in Keyboards : J \in S[k - 1] => F[k][J] \in S[k]
  PROVE  h[4] \in S[4]
<1> DEFINE n == 4
<1>1. n \in Nat /\ Chain(F, base, n, Keyboards, h) /\ n = 4
  OBVIOUS
<1>2. \A k \in 1 .. n : \A J \in Keyboards : J \in S[k - 1] => F[k][J] \in S[k]
  OBVIOUS
<1> HIDE DEF n
<1>3. h[n] \in S[n]
  BY <1>1, <1>2, ChainKeeps
<1> QED
  BY <1>1, <1>3

TextLevel == {TEXT_LEVEL_MODIFIERS[i] : i \in 1 .. 4}

\* The pressed ones among the codes are released, one after the other.
LEMMA TextLifted ==
  ASSUME NEW H \in SUBSET Scancodes, NEW K, NEW P \in SUBSET Scancodes, Left(H, K, P, K)
  PROVE  Left(H, K, P \ TextLevel, LiftText(P, K))
<1> DEFINE s == TEXT_LEVEL_MODIFIERS
           Done(k) == {s[i] : i \in 1 .. k}
           S == [k \in 0 .. 4 |-> {J \in Keyboards : Left(H, K, P \ Done(k), J)}]
<1>1. K \in Keyboards
  BY DEF Left
<1>2. PICK h : Chain(LiftF(P), K, 4, Keyboards, h) /\ LiftText(P, K) = h[4]
  BY <1>1, LiftChain
<1>3. \A i, j \in 1 .. 4 : s[i] = s[j] => i = j
  BY TextCodesAre
<1> HIDE DEF s
<1>4. K \in S[0]
  <2>1. P \ Done(0) = P
    OBVIOUS
  <2> HIDE DEF Done
  <2> QED
    BY <1>1, <2>1
<1>5. ASSUME NEW k \in 1 .. 4, NEW J \in Keyboards, J \in S[k - 1]
      PROVE  LiftF(P)[k][J] \in S[k]
  <2>1. k - 1 \in 0 .. 4 /\ k \in 0 .. 4
    OBVIOUS
  <2>2. Left(H, K, P \ Done(k - 1), J)
    BY <1>5, <2>1
  <2>3. Done(k) = Done(k - 1) \cup {s[k]} /\ s[k] \notin Done(k - 1)
    <3>1. \A i : i \in 1 .. k <=> (i \in 1 .. k - 1 \/ i = k)
      BY <2>1
    <3>2. \A i \in 1 .. k - 1 : i \in 1 .. 4 /\ i # k
      BY <2>1
    <3> QED
      BY <1>3, <3>1, <3>2
  <2>4. LiftF(P)[k][J] = IF s[k] \in P THEN Send(J, Key(s[k], FALSE)) ELSE J
    BY DEF LiftF, s
  <2> HIDE DEF Done
  <2>5. CASE s[k] \in P
    <3> DEFINE e == Key(s[k], FALSE)
               Q == P \ Done(k - 1)
               N == P \ Done(k)
    <3>1. e \in Events
      BY <2>5, KeyEvents
    <3>2. Step([held |-> Q, ok |-> TRUE], e) = [held |-> N, ok |-> TRUE]
      <4>1. s[k] \in Q /\ N = Q \ {s[k]}
        BY <2>3, <2>5
      <4> HIDE DEF Q, N
      <4> QED
        BY <4>1 DEF Step, Key
    <3> HIDE DEF e, Q, N
    <3>3. Left(H, K, Q, J)
      BY <2>2 DEF Q
    <3>4. Left(H, K, N, Send(J, e))
      BY <3>1, <3>2, <3>3, LeftMore
    <3>5. Send(J, e) \in Keyboards
      BY <3>4 DEF Left
    <3> QED
      BY <2>1, <2>4, <2>5, <3>4, <3>5 DEF e, N
  <2>6. CASE s[k] \notin P
    <3>1. P \ Done(k) = P \ Done(k - 1)
      BY <2>3, <2>6
    <3> QED
      BY <2>1, <2>2, <2>4, <2>6, <3>1
  <2> QED
    BY <2>5, <2>6
<1>6. h[4] \in S[4]
  <2> HIDE DEF S
  <2> QED
    BY <1>2, <1>4, <1>5, TextLoopKeeps
<1>7. Done(4) = TextLevel /\ 4 \in 0 .. 4
  BY DEF TextLevel, s
<1> HIDE DEF Done
<1> QED
  BY <1>2, <1>6, <1>7

\* They are pressed again.
LEMMA TextRestored ==
  ASSUME NEW H \in SUBSET Scancodes, NEW K, NEW P \in SUBSET Scancodes, NEW B, Left(H, K, P \ TextLevel, B)
  PROVE  Left(H, K, P, RestoreText(P, B))
<1> DEFINE s == TEXT_LEVEL_MODIFIERS
           Done(k) == {s[i] : i \in 1 .. k}
           Held(k) == (P \ TextLevel) \cup (P \cap Done(k))
           S == [k \in 0 .. 4 |-> {J \in Keyboards : Left(H, K, Held(k), J)}]
<1>1. B \in Keyboards
  BY DEF Left
<1>2. PICK h : Chain(RestoreF(P), B, 4, Keyboards, h) /\ RestoreText(P, B) = h[4]
  BY <1>1, RestoreChain
<1>3. /\ \A i, j \in 1 .. 4 : s[i] = s[j] => i = j
      /\ \A i \in 1 .. 4 : s[i] \in TextLevel
  BY TextCodesAre DEF TextLevel
<1> HIDE DEF s
<1>4. B \in S[0]
  <2>1. Held(0) = P \ TextLevel
    OBVIOUS
  <2> HIDE DEF Held
  <2> QED
    BY <1>1, <2>1
<1>5. ASSUME NEW k \in 1 .. 4, NEW J \in Keyboards, J \in S[k - 1]
      PROVE  RestoreF(P)[k][J] \in S[k]
  <2>1. k - 1 \in 0 .. 4 /\ k \in 0 .. 4
    OBVIOUS
  <2>2. Left(H, K, Held(k - 1), J)
    BY <1>5, <2>1
  <2>3. Done(k) = Done(k - 1) \cup {s[k]} /\ s[k] \notin Done(k - 1) /\ s[k] \in TextLevel
    <3>1. \A i : i \in 1 .. k <=> (i \in 1 .. k - 1 \/ i = k)
      BY <2>1
    <3>2. \A i \in 1 .. k - 1 : i \in 1 .. 4 /\ i # k
      BY <2>1
    <3> QED
      BY <1>3, <3>1, <3>2
  <2>4. RestoreF(P)[k][J] = IF s[k] \in P THEN Send(J, Key(s[k], TRUE)) ELSE J
    BY DEF RestoreF, s
  <2> HIDE DEF Done
  <2>5. CASE s[k] \in P
    <3> DEFINE e == Key(s[k], TRUE)
               Q == Held(k - 1)
               N == Held(k)
    <3>1. e \in Events
      BY <2>5, KeyEvents
    <3>2. Step([held |-> Q, ok |-> TRUE], e) = [held |-> N, ok |-> TRUE]
      <4>1. s[k] \notin Q /\ N = Q \cup {s[k]}
        BY <2>3, <2>5
      <4> HIDE DEF Q, N
      <4> QED
        BY <4>1 DEF Step, Key
    <3> HIDE DEF e, Q, N
    <3>3. Left(H, K, Q, J)
      BY <2>2 DEF Q
    <3>4. Left(H, K, N, Send(J, e))
      BY <3>1, <3>2, <3>3, LeftMore
    <3>5. Send(J, e) \in Keyboards
      BY <3>4 DEF Left
    <3> HIDE DEF Held
    <3> QED
      BY <2>1, <2>4, <2>5, <3>4, <3>5 DEF e, N
  <2>6. CASE s[k] \notin P
    <3>1. Held(k) = Held(k - 1)
      BY <2>3, <2>6
    <3> HIDE DEF Held
    <3> QED
      BY <2>1, <2>2, <2>4, <2>6, <3>1
  <2> QED
    BY <2>5, <2>6
<1>6. h[4] \in S[4]
  <2> HIDE DEF S
  <2> QED
    BY <1>2, <1>4, <1>5, TextLoopKeeps
<1>7. Held(4) = P /\ 4 \in 0 .. 4
  BY DEF TextLevel, s
<1> HIDE DEF Held
<1> QED
  BY <1>2, <1>6, <1>7

LEMMA InsertTextHandled ==
  ASSUME NEW K, Idle(K), NEW text \in BOOLEAN
  PROVE  /\ Handled(K.prefs, RemotePressed(K), K.cmd_consumed, insert_text(K, text))
         /\ SameKeys(K, insert_text(K, text)) /\ insert_text(K, text).pressed = K.pressed
<1> DEFINE P == RemotePressed(K)
           B == LiftText(P, K)
           U == Send(B, Unicode)
           R == RestoreText(P, U)
<1>1. P \in SUBSET Scancodes /\ K \in Keyboards
  BY PressedTyped DEF Idle
<1>2. Left(P, K, P, K) /\ Sends(P, K)
  BY <1>1, IdleFalls DEF Left, Falling, Between, Sends, Wired, SameKeys
<1>3. CASE text = FALSE
  <2>1. insert_text(K, text) = K
    BY <1>3 DEF insert_text
  <2> QED
    BY <1>2, <2>1, SameHandled DEF SameKeys
<1>4. CASE text = TRUE
  <2>1. insert_text(K, text) = R
    BY <1>4, InsertIs
  <2> HIDE DEF P, B, U, R
  <2>2. Left(P, K, P \ TextLevel, B)
    BY <1>1, <1>2, TextLifted DEF B
  <2>3. Unicode \in Events /\ Step([held |-> P \ TextLevel, ok |-> TRUE], Unicode) = [held |-> P \ TextLevel, ok |-> TRUE]
    BY DEF Unicode, Events, Step
  <2>4. Left(P, K, P \ TextLevel, U)
    BY <1>1, <2>2, <2>3, LeftMore DEF U
  <2>5. Left(P, K, P, R)
    BY <1>1, <2>4, TextRestored DEF R
  <2>6. R.pressed = K.pressed /\ SameKeys(K, R) /\ Sends(P, R)
    BY <2>5 DEF Left, Sends, Wired, RemotePressed, P
  <2> QED
    BY <2>1, <2>6, SameHandled DEF P
<1> QED
  BY <1>3, <1>4

-----------------------------------------------------------------------------
(* Losing the focus releases everything.                                    *)

LEMMA SeqOfSet ==
  ASSUME NEW S, IsFiniteSet(S)
  PROVE  LET s == SetToSeq(S)
         IN  /\ s \in Seq(S) /\ Len(s) \in Nat /\ DOMAIN s = 1 .. Len(s)
             /\ \A i, j \in 1 .. Len(s) : s[i] = s[j] => i = j
             /\ \A x \in S : \E i \in 1 .. Len(s) : s[i] = x
<1> DEFINE n == Cardinality(S)
           s == SetToSeq(S)
           P(f) == f \in [1 .. n -> S] /\ IsInjective(f)
<1>1. n \in Nat /\ ExistsBijection(1 .. n, S)
  BY FS_CardinalityType
<1>2. \E f : P(f)
  BY <1>1 DEF ExistsBijection, Bijection, Injection
<1>3. P(s)
  <2>1. s = CHOOSE f : P(f)
    BY DEF SetToSeq
  <2> HIDE DEF P, s
  <2> QED
    BY <1>2, <2>1
<1> HIDE DEF s
<1>4. s \in Seq(S) /\ Len(s) = n /\ DOMAIN s = 1 .. n
  BY <1>1, <1>3
<1>5. IsFiniteSet(1 .. n) /\ Cardinality(1 .. n) = n
  <2>1. 1 \in Int /\ n \in Int
    BY <1>1
  <2> HIDE DEF n
  <2>2. IsFiniteSet(1 .. n) /\ Cardinality(1 .. n) = IF 1 > n THEN 0 ELSE n - 1 + 1
    BY <2>1, FS_Interval
  <2> QED
    BY <1>1, <2>2
<1>6. s \in Injection(1 .. n, S)
  BY <1>3 DEF Injection
<1>7. s \in Surjection(1 .. n, S)
  BY <1>5, <1>6, FS_Injection
<1>8. \A i, j \in 1 .. n : s[i] = s[j] => i = j
  BY <1>3, <1>4 DEF IsInjective
<1>9. \A x \in S : \E i \in 1 .. n : s[i] = x
  BY <1>7 DEF Surjection
<1> HIDE DEF n
<1> QED
  BY <1>1, <1>4, <1>8, <1>9 DEF s

\* A pressed code has a holder, so there are finitely many.
LEMMA PressedFinite ==
  ASSUME NEW K, Idle(K)
  PROVE  IsFiniteSet(RemotePressed(K))
<1> DEFINE h == K.held_keys
           f == K.mod_sent
           A == {h[k] : k \in DOMAIN h}
           B == {f[m] : m \in ModifierKey}
<1>1. K \in Keyboards /\ IsFiniteSet(DOMAIN h) /\ h \in Holdings
  BY OutIsSeq DEF Idle, Holdings
<1>2. IsFiniteSet(A)
  <2>1. h \in Surjection(DOMAIN h, A)
    BY <1>1 DEF Surjection, Holdings
  <2> HIDE DEF A, h
  <2> QED
    BY <1>1, <2>1, FS_Surjection
<1>3. IsFiniteSet(B)
  <2>1. f \in Surjection(ModifierKey, B)
    BY <1>1, OutIsSeq DEF Surjection, SentCodes
  <2> HIDE DEF B, f
  <2> QED
    BY <2>1, ModifiersFinite, FS_Surjection
<1>4. IsFiniteSet(A \cup B)
  <2> HIDE DEF A, B
  <2> QED
    BY <1>2, <1>3, FS_Union
<1>5. ASSUME NEW sc \in RemotePressed(K)
      PROVE  sc \in A \cup B
  <2>1. sc \in Scancodes /\ K.pressed[sc] > 0
    BY <1>1, OutIsSeq DEF RemotePressed
  <2>2. Cardinality(HoldingKeys(h, sc)) # 0 \/ Cardinality(HoldingMods(f, sc)) # 0
    BY <2>1 DEF Idle, Counted
  <2>3. HoldingKeys(h, sc) # {} \/ HoldingMods(f, sc) # {}
    BY <2>2, FS_EmptySet
  <2> QED
    BY <2>3 DEF HoldingKeys, HoldingMods
<1> HIDE DEF A, B
<1>6. RemotePressed(K) \in SUBSET (A \cup B)
  BY <1>5
<1> QED
  BY <1>4, <1>6, FS_Subset

LEMMA ConcatTyped ==
  ASSUME NEW S, NEW a \in Seq(S), NEW b \in Seq(S)
  PROVE  a \o b \in Seq(S) /\ Len(a \o b) = Len(a) + Len(b)
OBVIOUS

Buttons == [type : {"MouseButton"}, button : MouseButton, down : BOOLEAN]

LEMMA EmptySet ==
  ASSUME NEW sc \in Scancodes
  PROVE  /\ Cardinality(HoldingKeys(<< >>, sc)) = 0
         /\ Cardinality(HoldingMods([m \in ModifierKey |-> NoScancode], sc)) = 0
<1>1. HoldingKeys(<< >>, sc) = {}
  BY DEF HoldingKeys
<1>2. HoldingMods([m \in ModifierKey |-> NoScancode], sc) = {}
  BY NoneIsNoCode DEF HoldingMods
<1> QED
  BY <1>1, <1>2, FS_EmptySet

\* Releases of the pressed codes, then of buttons.
LEMMA FocusLostHandled ==
  ASSUME NEW K, Idle(K), NEW ups \in Seq(Buttons)
  PROVE  LET R == [focus_lost(K) EXCEPT !.out = @ \o ups]
         IN  /\ Handled(K.prefs, RemotePressed(K), K.cmd_consumed, R)
             /\ RemotePressed(R) = {} /\ R.cmd_pending = {} /\ R.cmd_consumed = {}
<1> DEFINE H == RemotePressed(K)
           W == [held |-> H, ok |-> TRUE]
           hs == SetToSeq(H)
           n == Len(hs)
           rel == [i \in 1 .. n |-> Key(hs[i], FALSE)]
           s == rel \o ups
           R == [focus_lost(K) EXCEPT !.out = @ \o ups]
<1>1. K \in Keyboards /\ H \in SUBSET Scancodes /\ W \in Wires /\ IsFiniteSet(H)
  BY PressedTyped, PressedFinite DEF Idle, Wires
<1> HIDE DEF H
<1>2. /\ hs \in Seq(H) /\ n \in Nat /\ DOMAIN hs = 1 .. n
      /\ \A i, j \in 1 .. n : hs[i] = hs[j] => i = j
      /\ \A x \in H : \E i \in 1 .. n : hs[i] = x
  BY <1>1, SeqOfSet
<1> HIDE DEF hs, n
<1>3. \A i \in 1 .. n : hs[i] \in H
  BY <1>2 DEF n
<1>4. \A i \in 1 .. n : Key(hs[i], FALSE) \in Events
  BY <1>1, <1>3, KeyEvents
<1>5. rel \in Seq(Events) /\ Len(rel) = n
  <2>1. rel \in [1 .. n -> Events]
    BY <1>4
  <2> HIDE DEF rel
  <2> QED
    BY <1>2, <2>1
<1>6. Buttons \subseteq Events /\ ups \in Seq(Events) /\ Len(ups) \in Nat
        /\ \A i \in 1 .. Len(ups) : ups[i].type # "Key"
  <2>1. Buttons \subseteq Events /\ \A b \in Buttons : b.type # "Key"
    BY DEF Buttons, Events
  <2>2. ups \in [1 .. Len(ups) -> Buttons] /\ Len(ups) \in Nat
    OBVIOUS
  <2>3. ups \in [1 .. Len(ups) -> Events]
    BY <2>1, <2>2
  <2> QED
    BY <2>1, <2>2, <2>3
<1>7. /\ s \in Seq(Events) /\ Len(s) = n + Len(ups)
      /\ \A i \in 1 .. n : s[i] = Key(hs[i], FALSE)
      /\ \A i \in n + 1 .. Len(s) : s[i].type # "Key"
  <2>1. s \in Seq(Events) /\ Len(s) = n + Len(ups)
    <3> HIDE DEF rel
    <3>1. rel \in Seq(Events) /\ ups \in Seq(Events) /\ Len(rel) = n
      BY <1>5, <1>6
    <3> QED
      BY <3>1, ConcatTyped, Zenon
  <2>2. \A i \in 1 .. n : s[i] = rel[i] /\ rel[i] = Key(hs[i], FALSE)
    BY <1>2, <1>5, <1>6
  <2>3. ASSUME NEW i \in n + 1 .. Len(s)
        PROVE  s[i].type # "Key"
    <3>1. i - n \in 1 .. Len(ups) /\ i \in 1 .. Len(s)
      BY <1>2, <1>6, <2>1
    <3> HIDE DEF rel
    <3>2. s[i] = ups[i - n]
      BY <1>2, <1>5, <1>6, <2>1, <3>1
    <3> QED
      BY <1>6, <3>1, <3>2
  <2> QED
    BY <2>1, <2>2, <2>3
<1> HIDE DEF rel
<1>8. R.out = s
  <2>1. K.out = << >>
    BY DEF Idle
  <2>2. R.out = (<< >> \o rel) \o ups
    BY <1>1, <2>1 DEF focus_lost, H, hs, n, rel, Keyboards
  <2>3. << >> \o rel = rel
    BY <1>5
  <2> QED
    BY <2>2, <2>3
<1> HIDE DEF s, W
<1>9. Replay(W, s) = [held |-> {}, ok |-> TRUE]
  <2> DEFINE Done(k) == {hs[i] : i \in {j \in 1 .. n : j <= k}}
             S == [k \in 0 .. Len(s) |-> {[held |-> H \ Done(k), ok |-> TRUE]}]
  <2>1. PICK g : Chain(StepF(s), W, Len(s), Wires, g) /\ Replay(W, s) = g[Len(s)]
    BY <1>1, <1>7, ReplayChain
  <2>2. W \in S[0]
    <3>1. H \ Done(0) = H
      OBVIOUS
    <3>2. 0 \in 0 .. Len(s)
      BY <1>2, <1>6, <1>7
    <3> HIDE DEF Done
    <3> QED
      BY <3>1, <3>2 DEF W
  <2>3. ASSUME NEW k \in 1 .. Len(s), NEW V \in Wires, V \in S[k - 1]
        PROVE  StepF(s)[k][V] \in S[k]
    <3>1. k \in 0 .. Len(s) /\ k - 1 \in 0 .. Len(s) /\ k \in Nat
      BY <1>2, <1>6, <1>7
    <3>2. V = [held |-> H \ Done(k - 1), ok |-> TRUE]
      BY <2>3, <3>1
    <3>3. StepF(s)[k][V] = Step(V, s[k])
      BY DEF StepF
    <3>4. CASE k <= n
      <4>1. k \in 1 .. n /\ s[k] = Key(hs[k], FALSE)
        <5>1. k \in 1 .. n
          BY <1>2, <3>1, <3>4
        <5> HIDE DEF Key
        <5> QED
          BY <1>7, <5>1
      <4>2. \A j \in 1 .. n : j <= k <=> (j <= k - 1 \/ j = k)
        BY <1>2, <3>1
      <4>3. \A j \in {i \in 1 .. n : i <= k - 1} : j \in 1 .. n /\ j # k
        BY <1>2, <3>1
      <4>4. Done(k) = Done(k - 1) \cup {hs[k]} /\ hs[k] \notin Done(k - 1) /\ hs[k] \in H
        BY <1>2, <1>3, <4>1, <4>2, <4>3
      <4> HIDE DEF Done
      <4>5. Step(V, s[k]) = [held |-> H \ Done(k), ok |-> TRUE]
        <5> DEFINE Q == H \ Done(k - 1)
        <5>1. H \ Done(k) = Q \ {hs[k]} /\ hs[k] \in Q /\ V = [held |-> Q, ok |-> TRUE]
          BY <3>2, <4>4
        <5> HIDE DEF Q
        <5>2. Step(V, Key(hs[k], FALSE)) = [held |-> Q \ {hs[k]}, ok |-> TRUE]
          BY <5>1 DEF Step, Key
        <5> QED
          BY <4>1, <5>1, <5>2
      <4> QED
        BY <3>1, <3>3, <4>5
    <3>5. CASE ~ (k <= n)
      <4>1. s[k].type # "Key"
        BY <1>2, <1>7, <3>5
      <4>2. \A j \in 1 .. n : j <= k /\ j <= k - 1
        BY <1>2, <3>1, <3>5
      <4>3. Done(k) = Done(k - 1)
        BY <4>2
      <4> HIDE DEF Done
      <4>4. Step(V, s[k]) = V
        BY <4>1 DEF Step
      <4> QED
        BY <3>1, <3>2, <3>3, <4>3, <4>4
    <3> QED
      BY <3>4, <3>5
  <2>4. Len(s) \in Nat
    BY <1>2, <1>6, <1>7
  <2>5. g[Len(s)] \in S[Len(s)]
    <3> HIDE DEF S
    <3> QED
      BY <2>1, <2>2, <2>3, <2>4, ChainKeeps
  <2>6. H \ Done(Len(s)) = {}
    <3>1. \A i \in 1 .. n : i <= Len(s)
      BY <1>2, <1>6, <1>7
    <3> QED
      BY <1>2, <3>1
  <2>7. Len(s) \in 0 .. Len(s)
    BY <2>4
  <2>8. S[Len(s)] = {[held |-> H \ Done(Len(s)), ok |-> TRUE]}
    <3> HIDE DEF Done
    <3> QED
      BY <2>7
  <2> HIDE DEF S, Done
  <2> QED
    BY <2>1, <2>5, <2>6, <2>8
<1>10. /\ R.pressed = [sc \in Scancodes |-> 0] /\ R.held_keys = << >> /\ R.mods = {}
       /\ R.mod_sent = [m \in ModifierKey |-> NoScancode] /\ R.cmd_pending = {} /\ R.cmd_consumed = {}
       /\ R.prefs = K.prefs
  BY <1>1, OutIsSeq DEF focus_lost, Keyboards
<1>11. R \in Keyboards
  <2>1. << >> \in Holdings
    <3>1. << >> \in [{} -> Scancodes] /\ DOMAIN << >> = {}
      OBVIOUS
    <3> QED
      BY <3>1, FS_EmptySet DEF Holdings
  <2>2. [sc \in Scancodes |-> 0] \in [Scancodes -> Nat]
          /\ [m \in ModifierKey |-> NoScancode] \in [ModifierKey -> Scancodes \cup {NoScancode}]
    OBVIOUS
  <2>3. R = [K EXCEPT !.out = s, !.pressed = [sc \in Scancodes |-> 0], !.held_keys = << >>, !.mods = {},
                      !.mod_sent = [m \in ModifierKey |-> NoScancode], !.cmd_pending = {}, !.cmd_consumed = {}]
    BY <1>1, <1>8, OutIsSeq DEF focus_lost, Keyboards
  <2> QED
    BY <1>1, <1>7, <2>1, <2>2, <2>3 DEF Keyboards
<1> HIDE DEF R
<1>12. RemotePressed(R) = {}
  BY <1>10 DEF RemotePressed
<1>13. Sends(H, R)
  BY <1>8, <1>9, <1>11, <1>12 DEF Sends, Wired, W
<1>14. Counted(R)
  BY <1>10, EmptySet DEF Counted
<1>15. Holds(R, R.mods)
  BY <1>10 DEF Holds
<1>16. Untapped(K.prefs, K.cmd_consumed \ R.cmd_pending, R)
  <2>1. ASSUME NEW i \in 1 .. Len(s) - 1, NEW sc
        PROVE  s[i] # Key(sc, TRUE)
    <3>1. i \in 1 .. n \/ i \in n + 1 .. Len(s)
      BY <1>2, <1>6, <1>7
    <3>2. CASE i \in 1 .. n
      BY <1>7, <3>2, KeysDiffer
    <3>3. CASE i \in n + 1 .. Len(s)
      BY <1>7, <3>3 DEF Key
    <3> QED
      BY <3>1, <3>2, <3>3
  <2> QED
    BY <1>8, <2>1 DEF Untapped
<1>17. Between(K.prefs, H, K.cmd_consumed, R.mods, R)
  BY <1>10, <1>13, <1>14, <1>15 DEF Between
<1> QED
  BY <1>10, <1>12, <1>16, <1>17 DEF Handled, R, H

-----------------------------------------------------------------------------
(* The pointer's buttons, key repeat, and combos the menu does not take.     *)

LEMMA ButtonsTyped ==
  ASSUME NEW e \in Buttons
  PROVE  e \in Events /\ e.type # "Key" /\ \A sc : e # Key(sc, FALSE)
BY DEF Buttons, Events, Key

LEMMA ButtonHandled ==
  ASSUME NEW K, Idle(K), NEW e \in Buttons
  PROVE  /\ Handled(K.prefs, RemotePressed(K), K.cmd_consumed, Send(K, e))
         /\ SameKeys(K, Send(K, e)) /\ Send(K, e).pressed = K.pressed
<1> DEFINE J == Send(K, e)
           H == RemotePressed(K)
<1>1. K \in Keyboards /\ e \in Events /\ e.type # "Key"
  BY ButtonsTyped DEF Idle
<1>2. J \in Keyboards /\ SameKeys(K, J) /\ J.pressed = K.pressed /\ J.out = Append(K.out, e)
  BY <1>1, SendTyped
<1>3. H \in SUBSET Scancodes /\ Sends(H, K)
  BY <1>1, PressedTyped, IdleFalls DEF Falling, Between
<1> HIDE DEF J, H
<1>4. Sends(H, J)
  BY <1>1, <1>2, <1>3, OtherSends
<1> QED
  BY <1>2, <1>4, SameHandled DEF J, H

\* A button press, after the Command keys held back.
LEMMA ButtonAfterFlush ==
  ASSUME NEW K, Idle(K), NEW e \in Buttons
  PROVE  LET R == Send(prepare_pointer_button(K), e)
         IN  /\ Handled(K.prefs, RemotePressed(K), K.cmd_consumed, R)
             /\ R.cmd_pending = {}
             /\ K.cmd_pending = {} => RemotePressed(R) = RemotePressed(K)
<1> DEFINE p == K.prefs
           H == RemotePressed(K)
           M == K.cmd_consumed
           X == K.mods
           F == flush_command(K)
           R == Send(F, e)
<1>1. e \in Events /\ e.type # "Key" /\ \A sc : e # Key(sc, FALSE)
  BY ButtonsTyped
<1>2. H \in SUBSET Scancodes /\ X \in SUBSET ModifierKey /\ Rising(p, H, M, X, K)
  BY PressedTyped, IdleFalls, FallingRises, OutIsSeq DEF Idle
<1> HIDE DEF p, H, M, X
<1>3. /\ Rising(p, H, M, X, F) /\ F.cmd_pending = {} /\ F.mods = K.mods
      /\ K.cmd_pending = {} => F.pressed = K.pressed
  BY <1>2, Flushed
<1> HIDE DEF F
<1>4. /\ Sends(H, F) /\ F.prefs = p /\ Counted(F) /\ Holds(F, X) /\ F \in Keyboards
      /\ Untapped(p, M, F)
  BY <1>3 DEF Rising, Between, Sends
<1>5. R \in Keyboards /\ SameKeys(F, R) /\ R.pressed = F.pressed /\ R.out = Append(F.out, e)
  BY <1>1, <1>4, SendTyped
<1> HIDE DEF R
<1>6. Sends(H, R)
  BY <1>1, <1>2, <1>4, <1>5, OtherSends
<1>7. Untapped(p, M, R)
  <2>1. \A m \in M : \A sc \in Codes(p, m) : e # Key(sc, FALSE)
    BY <1>1
  <2> QED
    BY <1>4, <1>5, <2>1, UntappedMore
<1>8. Rising(p, H, M, R.mods, R) /\ R.cmd_pending = {}
  BY <1>3, <1>4, <1>5, <1>6, <1>7 DEF Rising, Between, Counted, Holds, SameKeys, X
<1>9. Handled(p, H, M, R)
  BY <1>8, RisingHandled
<1>10. ASSUME K.cmd_pending = {}
       PROVE  RemotePressed(R) = RemotePressed(K)
  BY <1>3, <1>5, <1>10 DEF RemotePressed
<1> QED
  BY <1>8, <1>9, <1>10 DEF prepare_pointer_button, p, H, M, F, R

\* A repeated key, and what was dropped, send nothing.
LEMMA NothingHandled ==
  ASSUME NEW K, Idle(K)
  PROVE  Handled(K.prefs, RemotePressed(K), K.cmd_consumed, K)
<1>1. SameKeys(K, K) /\ Sends(RemotePressed(K), K)
  BY IdleFalls DEF SameKeys, Falling, Between
<1> QED
  BY <1>1, SameHandled

LEMMA AnyKeyDownHandled ==
  ASSUME NEW K, Idle(K), NEW flags \in FlagsOf, NEW k \in Keys, NEW is_repeat \in BOOLEAN
  PROVE  Handled(K.prefs, RemotePressed(K), K.cmd_consumed, key_down(K, k, flags, is_repeat))
BY KeyDownHandled, NothingHandled DEF key_down

\* The menu may have taken the combo of every Command key held back.
LEMMA MenuTookIdle ==
  ASSUME NEW K, Idle(K)
  PROVE  LET R == [K EXCEPT !.cmd_consumed = K.cmd_pending]
         IN  /\ Idle(R) /\ R.prefs = K.prefs /\ RemotePressed(R) = RemotePressed(K)
             /\ R.cmd_consumed = K.cmd_pending /\ R.cmd_pending = K.cmd_pending
<1> DEFINE R == [K EXCEPT !.cmd_consumed = K.cmd_pending]
<1>1. K \in Keyboards
  BY DEF Idle
<1>2. /\ R \in Keyboards /\ R.prefs = K.prefs /\ R.pressed = K.pressed /\ R.out = K.out
      /\ R.mods = K.mods /\ R.mod_sent = K.mod_sent /\ R.held_keys = K.held_keys
      /\ R.cmd_consumed = K.cmd_pending /\ R.cmd_pending = K.cmd_pending
  BY <1>1 DEF Keyboards
<1> HIDE DEF R
<1> QED
  BY <1>2 DEF Idle, Counted, Holds, RemotePressed, R

\* A handler's promise is the stronger the more Command keys the menu took.
LEMMA FewerHandled ==
  ASSUME NEW p, NEW H, NEW M, NEW K, Handled(p, H, M, K), NEW N, N \subseteq M
  PROVE  Handled(p, H, N, K)
BY DEF Handled, Between, Untapped

LEMMA PrefsIdle ==
  ASSUME NEW K, Idle(K), NEW p \in Prefs
  PROVE  LET R == set_prefs(K, p)
         IN  /\ Idle(R) /\ RemotePressed(R) = RemotePressed(K)
             /\ R.cmd_consumed = K.cmd_consumed /\ R.cmd_pending = K.cmd_pending
<1> DEFINE R == [K EXCEPT !.prefs = p]
<1>1. K \in Keyboards
  BY DEF Idle
<1>2. /\ R \in Keyboards /\ R.pressed = K.pressed /\ R.out = K.out
      /\ R.mods = K.mods /\ R.mod_sent = K.mod_sent /\ R.held_keys = K.held_keys
      /\ R.cmd_consumed = K.cmd_consumed /\ R.cmd_pending = K.cmd_pending
  BY <1>1 DEF Keyboards
<1> HIDE DEF R
<1> QED
  BY <1>2 DEF Idle, Counted, Holds, RemotePressed, R, set_prefs

\* When the events are handed over, the keyboard is idle again.
LEMMA HandedOver ==
  ASSUME NEW p, NEW H, NEW M, NEW K, Handled(p, H, M, K)
  PROVE  LET R == [K EXCEPT !.out = << >>]
         IN  /\ Idle(R) /\ R.prefs = p /\ RemotePressed(R) = RemotePressed(K)
             /\ R.cmd_consumed = K.cmd_consumed /\ R.cmd_pending = K.cmd_pending
<1> DEFINE R == [K EXCEPT !.out = << >>]
<1>1. K \in Keyboards /\ K.prefs = p /\ Counted(K) /\ Holds(K, K.mods)
  BY DEF Handled, Between, Sends
<1>2. /\ R \in Keyboards /\ R.pressed = K.pressed /\ R.out = << >> /\ R.prefs = K.prefs
      /\ R.mods = K.mods /\ R.mod_sent = K.mod_sent /\ R.held_keys = K.held_keys
      /\ R.cmd_consumed = K.cmd_consumed /\ R.cmd_pending = K.cmd_pending
  <2>1. << >> \in Seq(Events)
    OBVIOUS
  <2> QED
    BY <1>1, <2>1 DEF Keyboards
<1> HIDE DEF R
<1> QED
  BY <1>1, <1>2 DEF Idle, Counted, Holds, RemotePressed, R

-----------------------------------------------------------------------------
(* What the remote holds follows what the view sent.                        *)

LEMMA StepFollows ==
  ASSUME NEW E \in Encoders, NEW W \in Wires, NEW e \in Events, E.keys \subseteq W.held
  PROVE  encode(E, e).keys \subseteq Step(W, e).held
BY DEF encode, Step, Encoders, Wires, Events

LEMMA EncodeAllTyped ==
  ASSUME NEW E \in Encoders, NEW s \in Seq(Events)
  PROVE  encode_all(E, s) \in Encoders
<1>1. PICK h : Chain(EncodeF(s), E, Len(s), Encoders, h) /\ encode_all(E, s) = h[Len(s)]
  BY EncodeChain
<1>2. Len(s) \in 0 .. Len(s)
  OBVIOUS
<1> QED
  BY <1>1, <1>2 DEF Chain

\* t is s without its first n events; d = 1 if everything is released before.
Rest(t, s, n, d) ==
  /\ Len(t) = Len(s) - n + d
  /\ \A i \in 1 .. Len(s) - n : t[i + d] = s[n + i]
  /\ d = 1 => t[1].type = "ReleaseAll"

\* An encoder that holds nothing more than was sent, or nothing, or releases everything first,
\* holds nothing more at the end, whatever it missed.
LEMMA TailFollows ==
  ASSUME NEW s \in Seq(Events), NEW W \in Wires, NEW n \in 0 .. Len(s), NEW t \in Seq(Events), NEW d \in {0, 1},
         Rest(t, s, n, d), NEW E \in Encoders,
         \/ d = 1
         \/ E.keys = {}
         \/ n = 0 /\ E.keys \subseteq W.held
  PROVE  encode_all(E, t).keys \subseteq Replay(W, s).held
<1>1. PICK h : Chain(StepF(s), W, Len(s), Wires, h) /\ Replay(W, s) = h[Len(s)]
  BY ReplayChain
<1>2. PICK g : Chain(EncodeF(t), E, Len(t), Encoders, g) /\ encode_all(E, t) = g[Len(t)]
  BY EncodeChain
<1>3. /\ Len(s) \in Nat /\ Len(t) \in Nat /\ n \in Nat /\ d \in Nat /\ Len(t) = Len(s) - n + d /\ n <= Len(s)
      /\ h \in [0 .. Len(s) -> Wires] /\ h[0] = W
      /\ \A k \in 1 .. Len(s) : h[k] = StepF(s)[k][h[k - 1]]
  BY <1>1 DEF Chain, Rest
<1> DEFINE S == [k \in 0 .. Len(t) |->
                   IF k < d THEN Encoders ELSE {X \in Encoders : X.keys \subseteq h[n + k - d].held}]
<1>4. E \in S[0]
  <2>1. 0 \in 0 .. Len(t)
    BY <1>3
  <2>2. CASE d = 1
    BY <2>1, <2>2
  <2>3. CASE d = 0 /\ E.keys = {}
    BY <2>1, <2>3
  <2>4. CASE d = 0 /\ n = 0 /\ E.keys \subseteq W.held
    BY <1>3, <2>1, <2>4
  <2> QED
    BY <2>2, <2>3, <2>4
<1>5. ASSUME NEW k \in 1 .. Len(t), NEW X \in Encoders, X \in S[k - 1]
      PROVE  EncodeF(t)[k][X] \in S[k]
  <2>1. k \in 0 .. Len(t) /\ k - 1 \in 0 .. Len(t) /\ k \in Nat /\ k >= 1 /\ ~ (k < d) /\ t[k] \in Events
    BY <1>3
  <2>2. EncodeF(t)[k][X] = encode(X, t[k]) /\ encode(X, t[k]) \in Encoders
    BY <2>1, EncodeTyped DEF EncodeF
  <2>3. encode(X, t[k]).keys \subseteq h[n + k - d].held
    <3>1. CASE k - 1 < d
      <4>1. k = 1 /\ d = 1
        BY <2>1, <3>1
      <4>2. t[k].type = "ReleaseAll"
        BY <4>1 DEF Rest
      <4>3. encode(X, t[k]).keys = {}
        BY <4>2 DEF encode
      <4> QED
        BY <4>3
    <3>2. CASE ~ (k - 1 < d)
      <4> DEFINE i == n + k - d
      <4>1. i \in 1 .. Len(s) /\ i - 1 \in 0 .. Len(s) /\ i - 1 = n + (k - 1) - d /\ k - d \in 1 .. Len(s) - n
              /\ (k - d) + d = k /\ n + (k - d) = i
        BY <1>3, <2>1, <3>2
      <4>2. t[k] = s[i]
        BY <4>1 DEF Rest
      <4>3. X.keys \subseteq h[i - 1].held
        BY <1>5, <2>1, <3>2, <4>1
      <4> HIDE DEF i, S
      <4>4. h[i - 1] \in Wires /\ s[i] \in Events
        BY <1>3, <4>1
      <4>5. h[i] = Step(h[i - 1], s[i])
        BY <1>3, <4>1, <4>4 DEF StepF
      <4>6. encode(X, s[i]).keys \subseteq Step(h[i - 1], s[i]).held
        BY <4>3, <4>4, StepFollows
      <4> QED
        BY <4>2, <4>5, <4>6 DEF i
    <3> QED
      BY <3>1, <3>2
  <2> QED
    BY <2>1, <2>2, <2>3
<1>6. g[Len(t)] \in S[Len(t)]
  <2> HIDE DEF S
  <2> QED
    BY <1>2, <1>3, <1>4, <1>5, ChainKeeps
<1>7. g[Len(t)].keys \subseteq h[n + Len(t) - d].held
  <2>1. Len(t) \in 0 .. Len(t) /\ ~ (Len(t) < d)
    BY <1>3
  <2> QED
    BY <1>6, <2>1
<1>8. n + Len(t) - d = Len(s)
  BY <1>3
<1> HIDE DEF S
<1> QED
  BY <1>1, <1>2, <1>7, <1>8

\* The actor's side of the view, which has sent presses of H; and the same after a step.
Followed(H) ==
  /\ keys \in SUBSET Scancodes /\ held_buttons \in SUBSET MouseButton /\ live \in BOOLEAN /\ activated \in BOOLEAN
  /\ live => keys \subseteq H
  /\ ~activated => keys = {} /\ ~live
FollowedNext(Q) ==
  /\ keys' \in SUBSET Scancodes /\ held_buttons' \in SUBSET MouseButton /\ live' \in BOOLEAN /\ activated' \in BOOLEAN
  /\ live' => keys' \subseteq Q
  /\ ~activated' => keys' = {} /\ ~live'

LEMMA RestOfSeq ==
  ASSUME NEW S, NEW s \in Seq(S), NEW n \in 0 .. Len(s)
  PROVE  LET t == SubSeq(s, n + 1, Len(s))
         IN  t \in Seq(S) /\ Len(t) = Len(s) - n /\ \A i \in 1 .. Len(s) - n : t[i] = s[n + i]
OBVIOUS

\* A leg that activates releases everything, but for the first, and then sends what is left of the events.
LEMMA ActivateFollows ==
  ASSUME NEW H \in SUBSET Scancodes, Followed(H), NEW s \in Seq(Events), NEW Q,
         Replay([held |-> H, ok |-> TRUE], s).held = Q,
         NEW n \in 0 .. Len(s), NEW t \in Seq(Events), Len(t) = Len(s) - n, \A i \in 1 .. Len(s) - n : t[i] = s[n + i],
         Activate(t)
  PROVE  FollowedNext(Q)
<1> DEFINE E == [keys |-> keys, buttons |-> held_buttons]
           W == [held |-> H, ok |-> TRUE]
           ra == [type |-> "ReleaseAll"]
           one == <<ra>>
           u == one \o t
<1>1. E \in Encoders /\ W \in Wires /\ E.keys = keys
  BY DEF Followed, Encoders, Wires
<1>2. /\ one \in Seq(Events) /\ Len(one) = 1 /\ one[1] = ra /\ ra.type = "ReleaseAll"
      /\ Len(s) \in Nat /\ n \in Nat /\ n <= Len(s)
  BY DEF Events
<1> HIDE DEF E, ra
<1>3. CASE activated
  <2>1. u \in Seq(Events) /\ Len(u) = 1 + Len(t)
    <3> HIDE DEF one
    <3>1. one \in Seq(Events) /\ t \in Seq(Events) /\ Len(one) = 1
      BY <1>2
    <3>2. one \o t \in Seq(Events) /\ Len(one \o t) = Len(one) + Len(t)
      BY <3>1, ConcatTyped, Zenon
    <3> QED
      BY <3>1, <3>2
  <2>2. u[1] = ra /\ \A i \in 1 .. Len(t) : u[i + 1] = t[i]
    BY <1>2
  <2>3. Rest(u, s, n, 1)
    BY <1>2, <2>1, <2>2 DEF Rest
  <2>4. keys' = encode_all(E, u).keys /\ held_buttons' = encode_all(E, u).buttons
    BY <1>3 DEF Activate, send_input_events, E, ra
  <2> HIDE DEF u, W
  <2>5. encode_all(E, u).keys \subseteq Q
    <3> DEFINE d == 1
    <3>1. d = 1 /\ d \in {0, 1} /\ Rest(u, s, n, d)
      BY <2>3
    <3> HIDE DEF d
    <3>2. encode_all(E, u).keys \subseteq Replay(W, s).held
      BY <1>1, <2>1, <3>1, TailFollows
    <3> QED
      BY <3>2 DEF W
  <2>6. encode_all(E, u) \in Encoders
    BY <1>1, <2>1, EncodeAllTyped
  <2> QED
    BY <2>4, <2>5, <2>6 DEF Activate, FollowedNext, Encoders
<1>4. CASE ~activated
  <2>1. << >> \o t = t
    OBVIOUS
  <2>2. Rest(t, s, n, 0)
    BY <1>2 DEF Rest
  <2>3. keys' = encode_all(E, t).keys /\ held_buttons' = encode_all(E, t).buttons
    BY <1>4, <2>1 DEF Activate, send_input_events, E
  <2>4. E.keys = {}
    BY <1>1, <1>4 DEF Followed
  <2> HIDE DEF W
  <2>5. encode_all(E, t).keys \subseteq Q
    <3> DEFINE d == 0
    <3>1. d \in {0, 1} /\ Rest(t, s, n, d)
      BY <2>2
    <3> HIDE DEF d
    <3>2. encode_all(E, t).keys \subseteq Replay(W, s).held
      BY <1>1, <2>4, <3>1, TailFollows
    <3> QED
      BY <3>2 DEF W
  <2>6. encode_all(E, t) \in Encoders
    BY <1>1, EncodeAllTyped
  <2> QED
    BY <2>3, <2>5, <2>6 DEF Activate, FollowedNext, Encoders
<1> QED
  BY <1>3, <1>4

\* However the batch meets the leg: on it, without it, or losing or gaining it midway.
LEMMA SendAllFollows ==
  ASSUME NEW H \in SUBSET Scancodes, Followed(H), NEW s \in Seq(Events), NEW Q,
         Replay([held |-> H, ok |-> TRUE], s).held = Q,
         SendAll(s)
  PROVE  FollowedNext(Q)
<1> DEFINE E == [keys |-> keys, buttons |-> held_buttons]
           W == [held |-> H, ok |-> TRUE]
<1>1. E \in Encoders /\ W \in Wires /\ E.keys = keys /\ Len(s) \in Nat
  BY DEF Followed, Encoders, Wires
<1>2. ASSUME NEW t \in Seq(Events), send_input_events(t)
      PROVE  /\ keys' = encode_all(E, t).keys /\ keys' \in SUBSET Scancodes
             /\ held_buttons' \in SUBSET MouseButton
  <2>1. keys' = encode_all(E, t).keys /\ held_buttons' = encode_all(E, t).buttons
    BY <1>2 DEF send_input_events
  <2> HIDE DEF E
  <2>2. encode_all(E, t) \in Encoders
    BY <1>1, EncodeAllTyped
  <2> QED
    BY <2>1, <2>2 DEF Encoders
<1> HIDE DEF E, W
<1>3. CASE live /\ send_input_events(s) /\ UNCHANGED <<live, activated>>
  <2> DEFINE d == 0
             n == 0
  <2>1. d \in {0, 1} /\ n \in 0 .. Len(s) /\ Rest(s, s, n, d) /\ n = 0
    BY <1>1 DEF Rest
  <2>2. E.keys \subseteq W.held
    BY <1>1, <1>3 DEF Followed, W
  <2> HIDE DEF d, n
  <2>3. encode_all(E, s).keys \subseteq Replay(W, s).held
    BY <1>1, <2>1, <2>2, TailFollows
  <2>4. encode_all(E, s).keys \subseteq Q
    BY <2>3 DEF W
  <2>5. keys' \subseteq Q /\ keys' \in SUBSET Scancodes /\ held_buttons' \in SUBSET MouseButton
    BY <1>2, <1>3, <2>4
  <2>6. live' \in BOOLEAN /\ activated' \in BOOLEAN /\ activated'
    BY <1>3 DEF Followed
  <2> QED
    BY <2>5, <2>6 DEF FollowedNext
<1>4. CASE ~live /\ UNCHANGED wireVars
  BY <1>4 DEF Followed, FollowedNext, wireVars
<1>5. ASSUME NEW n \in 1 .. Len(s) - 1, live, send_input_events(SubSeq(s, 1, n)), live' = FALSE, UNCHANGED activated
      PROVE  FollowedNext(Q)
  <2>1. SubSeq(s, 1, n) \in Seq(Events)
    OBVIOUS
  <2>2. keys' \in SUBSET Scancodes /\ held_buttons' \in SUBSET MouseButton
    BY <1>2, <1>5, <2>1
  <2>3. activated' \in BOOLEAN /\ activated'
    BY <1>5 DEF Followed
  <2> QED
    BY <1>5, <2>2, <2>3 DEF FollowedNext
<1>6. ASSUME NEW n \in 1 .. Len(s) - 1, ~live, Activate(SubSeq(s, n + 1, Len(s)))
      PROVE  FollowedNext(Q)
  <2> DEFINE t == SubSeq(s, n + 1, Len(s))
  <2>1. n \in 0 .. Len(s)
    BY <1>1
  <2>2. t \in Seq(Events) /\ Len(t) = Len(s) - n /\ \A i \in 1 .. Len(s) - n : t[i] = s[n + i]
    BY <2>1, RestOfSeq
  <2>3. Activate(t)
    BY <1>6
  <2> HIDE DEF t
  <2> QED
    BY <2>1, <2>2, <2>3, ActivateFollows
<1> QED
  BY <1>3, <1>4, <1>5, <1>6 DEF SendAll

-----------------------------------------------------------------------------
(* The inductive invariant.                                                 *)

\* Between two callbacks nothing is left to send, every Command key whose combo the menu took is
\* still held back as taken, and what the view has sent so far the remote has followed, or missed.
WireInv ==
  /\ Idle(kb)
  /\ taken \subseteq kb.cmd_consumed
  /\ alternates = TRUE /\ tapped = FALSE
  /\ Followed(RemotePressed(kb))

ViewInv ==
  /\ user \in Users /\ hardware \in SUBSET ModifierKey /\ buttons \in SUBSET MouseButton
  /\ responder \in BOOLEAN /\ keyWindow \in BOOLEAN /\ focused \in BOOLEAN /\ last \in BOOLEAN
  /\ KeyFocus => focused

\* Without the focus the view holds no key, and holds none back.
LostInv == ~focused => RemotePressed(kb) = {} /\ kb.cmd_pending = {}

InputInv == WireInv /\ ViewInv /\ LostInv

LEMMA EmitKeeps ==
  ASSUME WireInv, NEW K, NEW M, taken \subseteq M, Handled(kb.prefs, RemotePressed(kb), M, K), emit(K)
  PROVE  WireInv' /\ RemotePressed(kb') = RemotePressed(K) /\ kb'.cmd_pending = K.cmd_pending
<1> DEFINE H == RemotePressed(kb)
           p == kb.prefs
           J == [K EXCEPT !.out = << >>]
<1>1. kb \in Keyboards /\ H \in SUBSET Scancodes /\ Followed(H)
  BY PressedTyped DEF WireInv, Idle
<1>2. /\ Idle(J) /\ RemotePressed(J) = RemotePressed(K)
      /\ J.cmd_consumed = K.cmd_consumed /\ J.cmd_pending = K.cmd_pending
  BY HandedOver
<1>3. kb' = J
  BY DEF emit
<1> HIDE DEF J
<1>4. /\ K \in Keyboards /\ Replay([held |-> H, ok |-> TRUE], K.out) = [held |-> RemotePressed(K), ok |-> TRUE]
      /\ M \cap K.cmd_pending \subseteq K.cmd_consumed
      /\ Untapped(p, M \ K.cmd_pending, K)
  BY DEF Handled, Between, Sends, Wired
<1>5. K.out \in Seq(Events)
  BY <1>4, OutIsSeq
<1>6. \A m : ScancodeOf(kb, m) = Codes(p, m)
  BY <1>1, CodesAre
<1> HIDE DEF H, p
<1>7. FollowedNext(RemotePressed(K))
  <2>1. Replay([held |-> H, ok |-> TRUE], K.out).held = RemotePressed(K) /\ SendAll(K.out)
    BY <1>4 DEF emit
  <2> QED
    BY <1>1, <1>5, <2>1, SendAllFollows
<1>8. alternates' = TRUE
  <2>1. Replay([held |-> H, ok |-> TRUE], K.out).ok = TRUE
    BY <1>4
  <2> QED
    BY <2>1 DEF emit, WireInv, H
<1>9. taken' \subseteq K.cmd_consumed
  BY <1>4 DEF emit
<1>10. tapped' = FALSE
  <2> DEFINE taps == {m \in taken \ K.cmd_pending : \E i \in 1..Len(K.out) - 1, sc \in ScancodeOf(kb, m) :
                        K.out[i] = Key(sc, TRUE) /\ K.out[i + 1] = Key(sc, FALSE)}
  <2>1. taps = {}
    BY <1>4, <1>6 DEF Untapped
  <2>2. tapped' = (tapped \/ taps # {})
    BY DEF emit
  <2> HIDE DEF taps
  <2> QED
    BY <2>1, <2>2 DEF WireInv
<1>11. Followed(RemotePressed(kb))'
  BY <1>2, <1>3, <1>7 DEF Followed, FollowedNext
<1>12. Idle(kb)' /\ taken' \subseteq kb'.cmd_consumed
  BY <1>2, <1>3, <1>9
<1> QED
  BY <1>2, <1>3, <1>8, <1>10, <1>11, <1>12 DEF WireInv

\* A handler that has the keyboard as it is.
LEMMA HandlerKeeps ==
  ASSUME WireInv, NEW K, Handled(kb.prefs, RemotePressed(kb), kb.cmd_consumed, K), emit(K)
  PROVE  WireInv' /\ RemotePressed(kb') = RemotePressed(K) /\ kb'.cmd_pending = K.cmd_pending
<1> DEFINE M == kb.cmd_consumed
<1>1. taken \subseteq M /\ Handled(kb.prefs, RemotePressed(kb), M, K)
  BY DEF WireInv
<1> HIDE DEF M
<1> QED
  BY <1>1, EmitKeeps

LEMMA NewIsIdle ==
  ASSUME NEW p \in Prefs
  PROVE  LET K == NewKeyboard(p, "Ansi", Scancodes)
         IN  Idle(K) /\ RemotePressed(K) = {} /\ K.cmd_pending = {} /\ K.cmd_consumed = {}
<1> DEFINE K == NewKeyboard(p, "Ansi", Scancodes)
<1>1. << >> \in Holdings
  <2>1. << >> \in [{} -> Scancodes] /\ DOMAIN << >> = {}
    OBVIOUS
  <2> QED
    BY <2>1, FS_EmptySet DEF Holdings
<1>2. [sc \in Scancodes |-> 0] \in [Scancodes -> Nat]
        /\ [m \in ModifierKey |-> NoScancode] \in [ModifierKey -> Scancodes \cup {NoScancode}]
        /\ << >> \in Seq(Events)
  OBVIOUS
<1>3. K \in Keyboards
  BY <1>1, <1>2 DEF NewKeyboard, Keyboards
<1>4. /\ K.pressed = [sc \in Scancodes |-> 0] /\ K.held_keys = << >> /\ K.mods = {} /\ K.out = << >>
      /\ K.mod_sent = [m \in ModifierKey |-> NoScancode] /\ K.cmd_pending = {} /\ K.cmd_consumed = {}
  BY DEF NewKeyboard
<1> HIDE DEF K
<1>5. Counted(K)
  BY <1>4, EmptySet DEF Counted
<1>6. Holds(K, K.mods)
  BY <1>4 DEF Holds
<1>7. RemotePressed(K) = {}
  BY <1>4 DEF RemotePressed
<1> QED
  BY <1>3, <1>4, <1>5, <1>6, <1>7 DEF Idle, K

LEMMA InputInvInit == InputInit => InputInv
<1> SUFFICES ASSUME InputInit PROVE InputInv
  OBVIOUS
<1>1. PICK p \in Prefs : kb = NewKeyboard(p, "Ansi", Scancodes)
  BY DEF InputInit
<1>2. Idle(kb) /\ RemotePressed(kb) = {} /\ kb.cmd_pending = {} /\ kb.cmd_consumed = {}
  BY <1>1, NewIsIdle
<1> QED
  BY <1>2 DEF InputInit, InputInv, WireInv, ViewInv, LostInv, Followed, KeyFocus

-----------------------------------------------------------------------------
(* Every step keeps it.                                                     *)

LEMMA FlagsAreOfUsers ==
  ASSUME NEW mods \in SUBSET ModifierKey, NEW flags \in FlagWords(mods)
  PROVE  flags \in FlagsOf
BY DEF FlagsOf

LEMMA LegKeeps ==
  ASSUME InputInv, LegActivates \/ LegEnds
  PROVE  InputInv'
<1>1. UNCHANGED <<kb, user, hardware, viewVars, pointerVars, historyVars>>
  BY DEF LegActivates, LegEnds
<1>2. ViewInv' /\ LostInv'
  BY <1>1 DEF InputInv, ViewInv, LostInv, KeyFocus, viewVars, pointerVars
<1> DEFINE H == RemotePressed(kb)
           W == [held |-> H, ok |-> TRUE]
<1>3. kb \in Keyboards /\ H \in SUBSET Scancodes /\ Followed(H)
  BY PressedTyped DEF InputInv, WireInv, Idle
<1>4. CASE LegActivates
  <2> DEFINE e == << >>
             n == 0
  <2>1. e \in Seq(Events) /\ Len(e) = 0 /\ Activate(e) /\ n \in 0 .. Len(e) /\ Len(e) = Len(e) - n
          /\ \A i \in 1 .. Len(e) - n : e[i] = e[n + i]
    BY <1>4 DEF LegActivates
  <2>2. Replay(W, e).held = H
    <3>1. W \in Wires
      BY <1>3 DEF Wires
    <3> HIDE DEF W
    <3>2. Replay(W, << >>) = W
      BY <3>1, ReplayEmpty
    <3> QED
      BY <3>2 DEF W
  <2> HIDE DEF e, n, H
  <2>3. FollowedNext(H)
    BY <1>3, <2>1, <2>2, ActivateFollows
  <2>4. Followed(RemotePressed(kb))'
    BY <1>1, <2>3 DEF Followed, FollowedNext, H
  <2> QED
    BY <1>1, <1>2, <2>4 DEF InputInv, WireInv, historyVars
<1>5. CASE LegEnds
  BY <1>1, <1>2, <1>5 DEF LegEnds, InputInv, WireInv, Followed, historyVars
<1> QED
  BY <1>4, <1>5

LEMMA FlagsChangedKeeps ==
  ASSUME InputInv, FlagsChanged
  PROVE  InputInv'
<1>1. PICK m \in user.mods :
        /\ hardware' = IF m \in hardware THEN hardware \ {m} ELSE hardware \union {m}
        /\ IF KeyFocus THEN \E flags \in FlagWords(hardware') : emit(flags_changed(kb, kvk_of(m), flags))
           ELSE UNCHANGED <<kb, wireVars, historyVars>>
  BY DEF FlagsChanged
<1>2. UNCHANGED <<user, viewVars, pointerVars>>
  BY DEF FlagsChanged
<1>3. m \in ModifierKey
  BY InputAssumption DEF InputInv, ViewInv
<1>4. hardware' \in SUBSET ModifierKey
  BY <1>1, <1>3 DEF InputInv, ViewInv
<1>5. ViewInv'
  BY <1>2, <1>4 DEF InputInv, ViewInv, KeyFocus, viewVars, pointerVars
<1>6. CASE KeyFocus
  <2>1. PICK flags \in FlagWords(hardware') : emit(flags_changed(kb, kvk_of(m), flags))
    BY <1>1, <1>6
  <2>2. Handled(kb.prefs, RemotePressed(kb), kb.cmd_consumed, flags_changed(kb, kvk_of(m), flags))
    BY <1>4, FlagsAreOfUsers, FlagsChangedHandled DEF InputInv, WireInv
  <2>3. WireInv'
    BY <2>1, <2>2, HandlerKeeps DEF InputInv
  <2>4. focused'
    BY <1>2, <1>6 DEF InputInv, ViewInv, viewVars
  <2> QED
    BY <1>5, <2>3, <2>4 DEF InputInv, LostInv
<1>7. CASE ~KeyFocus
  BY <1>1, <1>2, <1>5, <1>7 DEF InputInv, WireInv, LostInv, Followed, wireVars, historyVars, viewVars
<1> QED
  BY <1>6, <1>7

LEMMA InsertTextEmitted ==
  ASSUME WireInv, NEW text \in BOOLEAN, emit(insert_text(kb, text))
  PROVE  WireInv' /\ RemotePressed(kb') = RemotePressed(kb) /\ kb'.cmd_pending = kb.cmd_pending
<1> DEFINE K == insert_text(kb, text)
<1>1. /\ Handled(kb.prefs, RemotePressed(kb), kb.cmd_consumed, K)
      /\ SameKeys(kb, K) /\ K.pressed = kb.pressed
  BY InsertTextHandled DEF WireInv
<1>2. emit(K)
  OBVIOUS
<1> HIDE DEF K
<1>3. WireInv' /\ RemotePressed(kb') = RemotePressed(K) /\ kb'.cmd_pending = K.cmd_pending
  BY <1>1, <1>2, HandlerKeeps
<1> QED
  BY <1>1, <1>3 DEF RemotePressed, SameKeys

LEMMA KeyDownEmitted ==
  ASSUME WireInv, NEW flags \in FlagsOf, NEW k \in Keys, NEW is_repeat \in BOOLEAN,
         emit(key_down(kb, k, flags, is_repeat))
  PROVE  WireInv'
<1>1. Handled(kb.prefs, RemotePressed(kb), kb.cmd_consumed, key_down(kb, k, flags, is_repeat))
  BY AnyKeyDownHandled DEF WireInv
<1> QED
  BY <1>1, HandlerKeeps

LEMMA HandleKeyDownKeeps ==
  ASSUME WireInv, NEW flags \in FlagsOf, NEW k \in Keys, NEW is_repeat \in BOOLEAN,
         handle_key_down(k, flags, is_repeat)
  PROVE  WireInv'
<1>1. ASSUME emit(key_down(kb, k, flags, is_repeat))
      PROVE  WireInv'
  BY <1>1, KeyDownEmitted
<1>2. ASSUME NEW text \in BOOLEAN, emit(insert_text(kb, text))
      PROVE  WireInv'
  BY <1>2, InsertTextEmitted
<1>3. ASSUME emit(key_down_scancode(kb, k, flags))
      PROVE  WireInv'
  <2>1. Handled(kb.prefs, RemotePressed(kb), kb.cmd_consumed, key_down_scancode(kb, k, flags))
    BY KeyDownHandled DEF WireInv
  <2> QED
    BY <1>3, <2>1, HandlerKeeps
<1>4. ASSUME emit(kb)
      PROVE  WireInv'
  <2>1. Handled(kb.prefs, RemotePressed(kb), kb.cmd_consumed, kb)
    BY NothingHandled DEF WireInv
  <2> QED
    BY <1>4, <2>1, HandlerKeeps
<1> QED
  BY <1>1, <1>2, <1>3, <1>4 DEF handle_key_down

LEMMA KeyEquivalentKeeps ==
  ASSUME WireInv, NEW flags \in FlagsOf, NEW k \in Keys, NEW is_repeat \in BOOLEAN,
         key_equivalent(k, flags, is_repeat)
  PROVE  WireInv'
<1> DEFINE J == [kb EXCEPT !.cmd_consumed = kb.cmd_pending]
<1>1. /\ Idle(J) /\ J.prefs = kb.prefs /\ RemotePressed(J) = RemotePressed(kb)
      /\ J.cmd_consumed = kb.cmd_pending
  BY MenuTookIdle DEF WireInv
<1>2. menu_shortcut_taken(kb) = J
  BY DEF menu_shortcut_taken
<1>3. ASSUME kb' = menu_shortcut_taken(kb), taken' = kb.cmd_pending, UNCHANGED <<marked, wireVars, alternates, tapped>>
      PROVE  WireInv'
  <2>1. kb' = J
    BY <1>2, <1>3
  <2> HIDE DEF J
  <2>2. Followed(RemotePressed(kb))'
    BY <1>1, <1>3, <2>1 DEF WireInv, Followed, wireVars
  <2>3. Idle(kb)' /\ taken' \subseteq kb'.cmd_consumed
    BY <1>1, <1>3, <2>1
  <2> QED
    BY <1>3, <2>2, <2>3 DEF WireInv
<1>4. ASSUME emit(key_down(J, k, flags, is_repeat))
      PROVE  WireInv'
  <2> DEFINE M == kb.cmd_pending
             K == key_down(J, k, flags, is_repeat)
  <2>1. taken \subseteq M
    BY DEF WireInv, Idle, Holds
  <2> HIDE DEF J
  <2>2. Handled(J.prefs, RemotePressed(J), J.cmd_consumed, K)
    BY <1>1, AnyKeyDownHandled
  <2>3. Handled(kb.prefs, RemotePressed(kb), M, K)
    BY <1>1, <2>2
  <2>4. emit(K)
    BY <1>4
  <2> HIDE DEF K, M
  <2> QED
    BY <2>1, <2>3, <2>4, EmitKeeps
<1>5. ASSUME emit(key_down(kb, k, flags, is_repeat))
      PROVE  WireInv'
  BY <1>5, KeyDownEmitted
<1> QED
  BY <1>3, <1>4, <1>5 DEF key_equivalent

LEMMA KeyDownKeeps ==
  ASSUME InputInv, KeyDown
  PROVE  InputInv'
<1>1. PICK k \in Keys, flags \in FlagWords(hardware), is_repeat \in BOOLEAN :
        handle_key_equivalent(k, flags, is_repeat)
  BY DEF KeyDown
<1>2. UNCHANGED <<user, hardware, responder, keyWindow, focused, pointerVars>> /\ focused
  BY DEF KeyDown, InputInv, ViewInv
<1>3. flags \in FlagsOf
  BY FlagsAreOfUsers DEF InputInv, ViewInv
<1>4. WireInv'
  BY <1>1, <1>3, HandleKeyDownKeeps, KeyEquivalentKeeps DEF handle_key_equivalent, InputInv
<1>5. ViewInv' /\ LostInv'
  BY <1>2 DEF InputInv, ViewInv, LostInv, KeyFocus, pointerVars
<1> QED
  BY <1>4, <1>5 DEF InputInv

LEMMA KeyUpKeeps ==
  ASSUME InputInv, KeyUp
  PROVE  InputInv'
<1>1. PICK k \in Keys : emit(key_up(kb, k))
  BY DEF KeyUp
<1>2. Handled(kb.prefs, RemotePressed(kb), kb.cmd_consumed, key_up(kb, k))
  BY KeyUpHandled DEF InputInv, WireInv
<1>3. WireInv'
  BY <1>1, <1>2, HandlerKeeps DEF InputInv
<1>4. ViewInv' /\ LostInv'
  BY DEF KeyUp, InputInv, ViewInv, LostInv, KeyFocus, viewVars, pointerVars
<1> QED
  BY <1>3, <1>4 DEF InputInv

LEMMA InsertTextKeeps ==
  ASSUME InputInv, InsertText
  PROVE  InputInv'
<1>1. WireInv' /\ RemotePressed(kb') = RemotePressed(kb) /\ kb'.cmd_pending = kb.cmd_pending
  <2> DEFINE text == TRUE
  <2>1. text \in BOOLEAN /\ emit(insert_text(kb, text))
    BY DEF InsertText
  <2> HIDE DEF text
  <2> QED
    BY <2>1, InsertTextEmitted DEF InputInv
<1>2. ViewInv' /\ LostInv'
  BY <1>1 DEF InsertText, InputInv, ViewInv, LostInv, KeyFocus, pointerVars
<1> QED
  BY <1>1, <1>2 DEF InputInv

LEMMA CtrlAltDelKeeps ==
  ASSUME InputInv, CtrlAltDel
  PROVE  InputInv'
<1> DEFINE K == ctrl_alt_del(kb)
<1>1. /\ Handled(kb.prefs, RemotePressed(kb), kb.cmd_consumed, K)
      /\ SameKeys(kb, K) /\ K.pressed = kb.pressed
  BY CtrlAltDelHandled DEF InputInv, WireInv
<1>2. emit(K) /\ UNCHANGED <<user, hardware, viewVars, pointerVars>>
  BY DEF CtrlAltDel
<1> HIDE DEF K
<1>3. WireInv' /\ RemotePressed(kb') = RemotePressed(K) /\ kb'.cmd_pending = K.cmd_pending
  BY <1>1, <1>2, HandlerKeeps DEF InputInv
<1>4. RemotePressed(K) = RemotePressed(kb) /\ K.cmd_pending = kb.cmd_pending
  BY <1>1 DEF RemotePressed, SameKeys
<1>5. ViewInv' /\ LostInv'
  BY <1>2, <1>3, <1>4 DEF InputInv, ViewInv, LostInv, KeyFocus, viewVars, pointerVars
<1> QED
  BY <1>3, <1>5 DEF InputInv

LEMMA SetPrefsKeeps ==
  ASSUME InputInv, SetPrefs
  PROVE  InputInv'
<1>1. PICK p \in Prefs : kb' = set_prefs(kb, p)
  BY DEF SetPrefs
<1>2. UNCHANGED <<user, hardware, viewVars, pointerVars, wireVars, historyVars>>
  BY DEF SetPrefs
<1>3. /\ Idle(kb)' /\ RemotePressed(kb') = RemotePressed(kb)
      /\ kb'.cmd_consumed = kb.cmd_consumed /\ kb'.cmd_pending = kb.cmd_pending
  BY <1>1, PrefsIdle DEF InputInv, WireInv
<1>4. Followed(RemotePressed(kb))'
  BY <1>2, <1>3 DEF InputInv, WireInv, Followed, wireVars
<1>5. WireInv'
  BY <1>2, <1>3, <1>4 DEF InputInv, WireInv, historyVars
<1>6. ViewInv' /\ LostInv'
  BY <1>2, <1>3 DEF InputInv, ViewInv, LostInv, KeyFocus, viewVars, pointerVars
<1> QED
  BY <1>5, <1>6 DEF InputInv

\* The buttons a loss of the focus releases.
LEMMA ReleasedButtons ==
  ASSUME NEW set \in SUBSET MouseButton, NEW ups,
         ups = SetToSeq({Button(b, FALSE) : b \in set}) \/ ups = << >>
  PROVE  ups \in Seq(Buttons)
<1> DEFINE B == {Button(b, FALSE) : b \in set}
<1>1. B \in SUBSET Buttons
  <2>1. \A b \in set : Button(b, FALSE) \in Buttons
    BY DEF Button, Buttons
  <2> QED
    BY <2>1
<1>2. IsFiniteSet(B)
  <2>1. IsFiniteSet(MouseButton)
    <3>1. {"Left", "Right", "Middle", "X1", "X2"} = {"Left"} \cup {"Right"} \cup {"Middle"} \cup {"X1"} \cup {"X2"}
      OBVIOUS
    <3>2. /\ IsFiniteSet({"Left"}) /\ IsFiniteSet({"Right"}) /\ IsFiniteSet({"Middle"})
          /\ IsFiniteSet({"X1"}) /\ IsFiniteSet({"X2"})
      BY FS_Singleton
    <3>3. IsFiniteSet({"Left"} \cup {"Right"} \cup {"Middle"} \cup {"X1"} \cup {"X2"})
      BY <3>2, FS_Union
    <3> QED
      BY <3>1, <3>3 DEF MouseButton
  <2>2. IsFiniteSet(set)
    BY <2>1, FS_Subset
  <2> DEFINE f == [b \in set |-> Button(b, FALSE)]
  <2>3. f \in Surjection(set, B)
    BY DEF Surjection
  <2> HIDE DEF f, B
  <2> QED
    BY <2>2, <2>3, FS_Surjection
<1> HIDE DEF B
<1>3. SetToSeq(B) \in Seq(B)
  BY <1>2, SeqOfSet
<1>4. SetToSeq(B) \in Seq(Buttons)
  BY <1>1, <1>3
<1>5. << >> \in Seq(Buttons)
  OBVIOUS
<1> QED
  BY <1>4, <1>5 DEF B

LEMMA ReleaseHeldHandled ==
  ASSUME InputInv
  PROVE  /\ Handled(kb.prefs, RemotePressed(kb), kb.cmd_consumed, ReleaseHeld)
         /\ RemotePressed(ReleaseHeld) = {} /\ ReleaseHeld.cmd_pending = {} /\ ReleaseHeld.cmd_consumed = {}
<1> DEFINE ups == IF last THEN SetToSeq({Button(b, FALSE) : b \in buttons}) ELSE << >>
           R == [focus_lost(kb) EXCEPT !.out = @ \o ups]
<1>1. ups = SetToSeq({Button(b, FALSE) : b \in buttons}) \/ ups = << >>
  OBVIOUS
<1>2. ReleaseHeld = R
  BY DEF ReleaseHeld
<1>3. buttons \in SUBSET MouseButton /\ Idle(kb)
  BY DEF InputInv, ViewInv, WireInv
<1> HIDE DEF ups
<1>4. ups \in Seq(Buttons)
  BY <1>1, <1>3, ReleasedButtons
<1>5. /\ Handled(kb.prefs, RemotePressed(kb), kb.cmd_consumed, R)
      /\ RemotePressed(R) = {} /\ R.cmd_pending = {} /\ R.cmd_consumed = {}
  BY <1>3, <1>4, FocusLostHandled
<1> HIDE DEF R
<1> QED
  BY <1>2, <1>5

LEMMA FocusGainedKeeps ==
  ASSUME InputInv, FocusGained, responder' \in BOOLEAN, keyWindow' \in BOOLEAN
  PROVE  InputInv'
<1>1. PICK flags \in FlagWords(hardware) : emit(focus_gained(kb, flags))
  BY DEF FocusGained
<1>2. flags \in FlagsOf
  BY FlagsAreOfUsers DEF InputInv, ViewInv
<1>3. Handled(kb.prefs, RemotePressed(kb), kb.cmd_consumed, focus_gained(kb, flags))
  BY <1>2, FocusGainedHandled DEF InputInv, WireInv
<1>4. WireInv'
  BY <1>1, <1>3, HandlerKeeps DEF InputInv
<1>5. ViewInv' /\ LostInv'
  BY DEF FocusGained, InputInv, ViewInv, LostInv, pointerVars
<1> QED
  BY <1>4, <1>5 DEF InputInv

LEMMA FocusLostKeeps ==
  ASSUME InputInv, FocusLost, responder' \in BOOLEAN, keyWindow' \in BOOLEAN, ~ (responder' /\ keyWindow')
  PROVE  InputInv'
<1>1. emit(ReleaseHeld)
  BY DEF FocusLost
<1>2. WireInv' /\ RemotePressed(kb') = {} /\ kb'.cmd_pending = {}
  <2> DEFINE K == ReleaseHeld
  <2>1. Handled(kb.prefs, RemotePressed(kb), kb.cmd_consumed, K) /\ RemotePressed(K) = {} /\ K.cmd_pending = {}
    BY ReleaseHeldHandled
  <2>2. emit(K)
    BY <1>1
  <2> HIDE DEF K
  <2> QED
    BY <2>1, <2>2, HandlerKeeps DEF InputInv
<1>3. ViewInv' /\ LostInv'
  BY <1>2 DEF FocusLost, InputInv, ViewInv, LostInv, KeyFocus
<1> QED
  BY <1>2, <1>3 DEF InputInv

LEMMA FocusKeeps ==
  ASSUME InputInv,
         BecomeFirstResponder \/ ResignFirstResponder \/ WindowDidBecomeKey \/ WindowDidResignKey
  PROVE  InputInv'
<1>1. responder \in BOOLEAN /\ keyWindow \in BOOLEAN
  BY DEF InputInv, ViewInv
<1>2. ASSUME UNCHANGED <<kb, user, hardware, focused, marked, pointerVars, wireVars, historyVars, responder>>,
             ~responder, keyWindow' \in BOOLEAN
      PROVE  InputInv'
  <2>1. WireInv'
    BY <1>2 DEF InputInv, WireInv, Followed, wireVars, historyVars
  <2>2. ViewInv' /\ LostInv'
    BY <1>2 DEF InputInv, ViewInv, LostInv, KeyFocus, pointerVars
  <2> QED
    BY <2>1, <2>2 DEF InputInv
<1>3. CASE BecomeFirstResponder
  BY <1>1, <1>3, FocusGainedKeeps DEF BecomeFirstResponder
<1>4. CASE ResignFirstResponder
  BY <1>1, <1>4, FocusLostKeeps DEF ResignFirstResponder
<1>5. CASE WindowDidBecomeKey
  BY <1>1, <1>2, <1>5, FocusGainedKeeps DEF WindowDidBecomeKey
<1>6. CASE WindowDidResignKey
  BY <1>1, <1>2, <1>6, FocusLostKeeps DEF WindowDidResignKey
<1> QED
  BY <1>3, <1>4, <1>5, <1>6

LEMMA ReleaseSessionKeeps ==
  ASSUME InputInv, ReleaseSession
  PROVE  InputInv'
<1> DEFINE K == ReleaseHeld
           J == [K EXCEPT !.out = << >>]
<1>1. kb' = J
  BY DEF ReleaseSession
<1>2. Handled(kb.prefs, RemotePressed(kb), kb.cmd_consumed, K) /\ RemotePressed(K) = {} /\ K.cmd_pending = {}
  BY ReleaseHeldHandled
<1> HIDE DEF K
<1>3. Idle(J) /\ RemotePressed(J) = RemotePressed(K) /\ J.cmd_pending = K.cmd_pending
  BY <1>2, HandedOver
<1> HIDE DEF J
<1>4. Idle(kb)' /\ RemotePressed(kb') = {} /\ kb'.cmd_pending = {}
  BY <1>1, <1>2, <1>3
<1>5. WireInv'
  BY <1>4 DEF ReleaseSession, InputInv, WireInv, Followed
<1>6. ViewInv' /\ LostInv'
  BY <1>4 DEF ReleaseSession, InputInv, ViewInv, LostInv, KeyFocus, viewVars
<1> QED
  BY <1>5, <1>6 DEF InputInv

LEMMA MouseDownKeeps ==
  ASSUME InputInv, MouseDown
  PROVE  InputInv'
<1>1. PICK b \in user.buttons : pointer_button(b, TRUE)
  BY DEF MouseDown
<1> DEFINE e == Button(b, TRUE)
           K == Send(prepare_pointer_button(kb), e)
<1>2. b \in MouseButton
  BY InputAssumption DEF InputInv, ViewInv
<1>3. e \in Buttons
  BY <1>2 DEF Button, Buttons
<1>4. emit(K) /\ buttons' = buttons \union {b}
  BY <1>1 DEF pointer_button
<1> HIDE DEF e
<1>5. /\ Handled(kb.prefs, RemotePressed(kb), kb.cmd_consumed, K)
      /\ K.cmd_pending = {}
      /\ kb.cmd_pending = {} => RemotePressed(K) = RemotePressed(kb)
  BY <1>3, ButtonAfterFlush DEF InputInv, WireInv
<1> HIDE DEF K
<1>6. WireInv' /\ RemotePressed(kb') = RemotePressed(K) /\ kb'.cmd_pending = K.cmd_pending
  BY <1>4, <1>5, HandlerKeeps DEF InputInv
<1>7. ViewInv'
  BY <1>2, <1>4 DEF MouseDown, mouse_moved, InputInv, ViewInv, KeyFocus, viewVars
<1>8. LostInv'
  BY <1>5, <1>6 DEF MouseDown, InputInv, LostInv, viewVars
<1> QED
  BY <1>6, <1>7, <1>8 DEF InputInv

LEMMA MouseUpKeeps ==
  ASSUME InputInv, MouseUp
  PROVE  InputInv'
<1>1. PICK b \in buttons : pointer_button(b, FALSE)
  BY DEF MouseUp
<1> DEFINE e == Button(b, FALSE)
           K == Send(kb, e)
<1>2. e \in Buttons
  BY DEF InputInv, ViewInv, Button, Buttons
<1>3. emit(K) /\ buttons' = buttons \ {b}
  BY <1>1 DEF pointer_button
<1> HIDE DEF e
<1>4. /\ Handled(kb.prefs, RemotePressed(kb), kb.cmd_consumed, K)
      /\ SameKeys(kb, K) /\ K.pressed = kb.pressed
  BY <1>2, ButtonHandled DEF InputInv, WireInv
<1> HIDE DEF K
<1>5. WireInv' /\ RemotePressed(kb') = RemotePressed(K) /\ kb'.cmd_pending = K.cmd_pending
  BY <1>3, <1>4, HandlerKeeps DEF InputInv
<1>6. RemotePressed(K) = RemotePressed(kb) /\ K.cmd_pending = kb.cmd_pending
  BY <1>4 DEF RemotePressed, SameKeys
<1>7. ViewInv'
  BY <1>3 DEF MouseUp, mouse_moved, InputInv, ViewInv, KeyFocus, viewVars
<1>8. LostInv'
  BY <1>5, <1>6 DEF MouseUp, InputInv, LostInv, viewVars
<1> QED
  BY <1>5, <1>7, <1>8 DEF InputInv

LEMMA DesktopKeeps ==
  ASSUME InputInv, MouseMove \/ SetDesktop \/ ClearDesktop
  PROVE  InputInv'
<1>1. UNCHANGED <<kb, user, hardware, viewVars, buttons, wireVars, historyVars>> /\ last' \in BOOLEAN
  BY DEF MouseMove, SetDesktop, ClearDesktop, mouse_moved, Replaced
<1>2. WireInv'
  BY <1>1 DEF InputInv, WireInv, Followed, wireVars, historyVars
<1>3. ViewInv' /\ LostInv'
  BY <1>1 DEF InputInv, ViewInv, LostInv, KeyFocus, viewVars
<1> QED
  BY <1>2, <1>3 DEF InputInv

LEMMA InputInvNext == InputInv /\ [InputNext]_inputVars => InputInv'
<1> SUFFICES ASSUME InputInv, [InputNext]_inputVars PROVE InputInv'
  OBVIOUS
<1>1. CASE UNCHANGED inputVars
  <2>1. WireInv'
    BY <1>1 DEF inputVars, InputInv, WireInv, Followed, wireVars, historyVars
  <2>2. ViewInv' /\ LostInv'
    BY <1>1 DEF inputVars, InputInv, ViewInv, LostInv, KeyFocus, viewVars, pointerVars
  <2> QED
    BY <2>1, <2>2 DEF InputInv
<1> QED
  BY <1>1, LegKeeps, FlagsChangedKeeps, KeyDownKeeps, KeyUpKeeps, InsertTextKeeps, CtrlAltDelKeeps,
     SetPrefsKeeps, FocusKeeps, ReleaseSessionKeeps, MouseDownKeeps, MouseUpKeeps, DesktopKeeps DEF InputNext

-----------------------------------------------------------------------------
(* The theorems.                                                            *)

\* The keyboard between two callbacks, and the remote that follows it: the inductive invariant of
\* the view's handlers (input.rs), the translator's methods (keyboard.rs) and the actor's on_activated.
THEOREM InputSafe == InputSpec => []InputInv
<1> QED
  BY InputInvInit, InputInvNext, PTL DEF InputSpec

\* The translator counts the Mac keys that hold each scancode, so a press is sent when the first of
\* them goes down and a release when the last goes up, through deferred Command keys, text, key
\* repeats, preference changes and focus changes; and a Command combo the menu took is never a tap
\* on the remote (press, release, flush_command and menu_shortcut_taken of keyboard.rs).
THEOREM SoundWire == InputSpec => []WireIsSound
<1>1. InputInv => WireIsSound
  BY DEF InputInv, WireInv, Idle, Counted, HoldingKeys, HoldingMods,
         WireIsSound, HoldersCounted, WireAlternates, MenuCombosStayLocal
<1> QED
  BY <1>1, InputSafe, PTL

\* A view without the focus leaves no key held on the remote while a leg is up: focus_lost releases
\* what is pressed, and an activation after the first sends ReleaseAll before anything else, so it
\* does not matter which of the events were dropped in between.
THEOREM NothingStuck == InputSpec => []NoStuckKeys
<1>1. InputInv => NoStuckKeys
  BY DEF InputInv, WireInv, LostInv, Followed, NoStuckKeys
<1> QED
  BY <1>1, InputSafe, PTL
=============================================================================
