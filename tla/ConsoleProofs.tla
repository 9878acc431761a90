--------------------------- MODULE ConsoleProofs ---------------------------
(***************************************************************************)
(* Proofs about Console: keys are popped each once and in their order      *)
(* through every wrap of the buffer and of its counters, and the screen    *)
(* shows the line that the program will get.  They hold for every size of  *)
(* the buffer, the counters, the line and the screen.                      *)
(***************************************************************************)
EXTENDS Console, Extrema, SequenceTheorems

(* ----- The counters ----- *)

LEMMA SizeFacts ==
  /\ Size \in Nat \ {0} /\ Wrap \in Nat \ {0}
  /\ \A x \in Nat : x % Size \in Slots /\ x % Wrap \in 0 .. (Wrap - 1) /\ x % Wrap \in Nat
<1>1. Size \in Nat \ {0} /\ Wrap \in Nat \ {0}
  BY BufferAssumption
<1> QED BY <1>1, DivMod DEF Slots

(* Size divides Wrap, so that a counter that wraps tells the same slot. *)
LEMMA WrapSlot ==
  ASSUME NEW x \in Nat, NEW j \in Nat
  PROVE  ((x % Wrap) + j) % Size = (x + j) % Size
<1> DEFINE w == x % Wrap
           q == x \div Wrap
           k == Wrap \div Size
           a == w + j
           b == x + j
<1>1. Size \in Nat \ {0} /\ Wrap \in Nat \ {0}
  BY SizeFacts
<1>2. x = Wrap * q + w /\ q \in Nat /\ w \in Nat
  BY <1>1, DivMod
<1>3. Wrap = Size * k /\ k \in Nat
  <2>1. Wrap = Size * k + (Wrap % Size) /\ k \in Nat
    BY <1>1, DivMod
  <2> HIDE DEF k
  <2> QED BY <1>1, <2>1, BufferAssumption
<1> HIDE DEF w, q, k
<1>4. a \in Nat /\ b \in Nat
  BY <1>2
<1>5. a = Size * (a \div Size) + (a % Size) /\ a \div Size \in Nat /\ a % Size \in 0 .. (Size - 1)
  BY <1>1, <1>4, DivMod
<1>6. b = Size * (b \div Size) + (b % Size) /\ b \div Size \in Nat /\ b % Size \in 0 .. (Size - 1)
  BY <1>1, <1>4, DivMod
<1>7. b = (Size * k) * q + a
  BY <1>1, <1>2, <1>3
<1>8. (Size * k) * q = Size * (k * q) /\ k * q \in Nat
  BY <1>1, <1>2, <1>3
<1>9. a % Size = b % Size
  <2> DEFINE m == a \div Size
             n == b \div Size
             r == a % Size
             s == b % Size
             y == k * q
  <2>1. a = Size * m + r /\ m \in Nat /\ b = Size * n + s /\ n \in Nat /\ y \in Nat
        /\ r \in 0 .. (Size - 1) /\ s \in 0 .. (Size - 1) /\ b = Size * y + a
    BY <1>5, <1>6, <1>7, <1>8
  <2> HIDE DEF m, n, r, s, y, a, b
  <2>2. Size * (y + m) + r = Size * n + s /\ y + m \in Nat
    BY <1>1, <2>1
  <2>3. r = s
    BY <1>1, <2>1, <2>2, ModUnique
  <2> QED BY <2>3 DEF r, s
<1> QED BY <1>9 DEF w

(* Size places in a row are in different slots. *)
LEMMA SlotsApart ==
  ASSUME NEW h \in Nat, NEW i \in Slots, NEW j \in Slots, (h + i) % Size = (h + j) % Size
  PROVE  i = j
<1> DEFINE m == (h + i) \div Size
           n == (h + j) \div Size
           r == (h + i) % Size
<1>1. Size \in Nat \ {0} /\ i \in Nat /\ j \in Nat /\ i < Size /\ j < Size
  BY SizeFacts DEF Slots
<1>2. h + i = Size * m + r /\ m \in Nat /\ h + j = Size * n + r /\ n \in Nat
  <2>1. h + i \in Nat /\ h + j \in Nat
    BY <1>1
  <2>2. h + i = Size * m + r /\ m \in Nat
    BY <1>1, <2>1, DivMod
  <2>3. h + j = Size * n + r /\ n \in Nat
    BY <1>1, <2>1, DivMod
  <2> QED BY <2>2, <2>3
<1>3. r \in Nat
  BY <1>1, SizeFacts
<1> HIDE DEF m, n, r
<1>4. Size * m + j = Size * n + i
  <2>1. Size * m \in Nat /\ Size * n \in Nat
    BY <1>1, <1>2
  <2> QED BY <1>1, <1>2, <1>3, <2>1
<1>5. j \in 0 .. (Size - 1) /\ i \in 0 .. (Size - 1)
  BY DEF Slots
<1> QED BY <1>1, <1>2, <1>4, <1>5, ModUnique

(* Once around. *)
LEMMA OnceAround ==
  ASSUME NEW h \in Nat
  PROVE  (h + Size) % Size = h % Size
<1> DEFINE m == h \div Size
           r == h % Size
           n == (h + Size) \div Size
           s == (h + Size) % Size
<1>1. Size \in Nat \ {0}
  BY SizeFacts
<1>2. h = Size * m + r /\ m \in Nat /\ r \in 0 .. (Size - 1)
  BY <1>1, DivMod
<1>3. h + Size = Size * n + s /\ n \in Nat /\ s \in 0 .. (Size - 1)
  <2>1. h + Size \in Nat
    BY <1>1
  <2> QED BY <1>1, <2>1, DivMod
<1> HIDE DEF m, r, n, s
<1>4. Size * (m + 1) + r = Size * n + s /\ m + 1 \in Nat
  BY <1>1, <1>2, <1>3
<1>5. r = s
  BY <1>1, <1>2, <1>3, <1>4, ModUnique
<1> QED BY <1>5 DEF r, s

(* Slots that agree agree one further on. *)
LEMMA NextSlot ==
  ASSUME NEW a \in Nat, NEW b \in Nat, a % Size = b % Size
  PROVE  (a + 1) % Size = (b + 1) % Size
<1> DEFINE m == a \div Size
           n == b \div Size
           r == a % Size
           j == (a + 1) \div Size
           k == (b + 1) \div Size
           x == (a + 1) % Size
           y == (b + 1) % Size
<1>1. Size \in Nat \ {0} /\ a + 1 \in Nat /\ b + 1 \in Nat
  BY SizeFacts
<1>2. a = Size * m + r /\ m \in Nat /\ b = Size * n + r /\ n \in Nat /\ r \in Nat
  <2>1. a = Size * m + r /\ m \in Nat /\ r \in 0 .. (Size - 1)
    BY <1>1, DivMod
  <2>2. b = Size * n + r /\ n \in Nat
    BY <1>1, DivMod
  <2> HIDE DEF m, n, r
  <2> QED BY <1>1, <2>1, <2>2
<1>3. a + 1 = Size * j + x /\ j \in Nat /\ x \in 0 .. (Size - 1)
  BY <1>1, DivMod
<1>4. b + 1 = Size * k + y /\ k \in Nat /\ y \in 0 .. (Size - 1)
  BY <1>1, DivMod
<1> HIDE DEF m, n, r, j, k, x, y
<1>5. Size * (j + n) + x = Size * (k + m) + y /\ j + n \in Nat /\ k + m \in Nat
  BY <1>1, <1>2, <1>3, <1>4
<1>6. x = y
  BY <1>1, <1>3, <1>4, <1>5, ModUnique
<1> QED BY <1>6 DEF x, y

-----------------------------------------------------------------------------
(* ----- The buffers ----- *)

KeysTyped ==
  /\ live \subseteq Procs /\ cur \in live
  /\ buffer \in [Procs -> [Slots -> Keys \cup {NUL}]]
  /\ head \in [Procs -> 0 .. Wrap - 1] /\ tail \in [Procs -> 0 .. Wrap - 1]
  /\ unread \in [Procs -> Seq(Keys)]

(* A buffer with slots B from h to t holds the keys u.  The bound on their *)
(* number is what makes KeysInOrder inductive: with more, a key would be   *)
(* put over one that was not popped.                                       *)
Holds(B, h, t, u) ==
  /\ Len(u) <= Size
  /\ t % Size = (h + Len(u)) % Size
  /\ \A i \in 1 .. Size : B[(h + i - 1) % Size] = IF i <= Len(u) THEN u[i] ELSE NUL

BuffersHold == \A p \in live : Holds(buffer[p], head[p], tail[p], unread[p])

LEMMA HoldsPush ==
  ASSUME NEW B \in [Slots -> Keys \cup {NUL}], NEW h \in Nat, NEW t \in Nat,
         NEW u \in Seq(Keys), NEW c \in Keys, Len(u) < Size, Holds(B, h, t, u)
  PROVE  Holds([B EXCEPT ![t % Size] = c], h, (t + 1) % Wrap, Append(u, c))
<1> DEFINE n == Len(u)
           C == [B EXCEPT ![t % Size] = c]
           v == Append(u, c)
<1>1. Size \in Nat \ {0} /\ n \in Nat /\ n + 1 \in Nat /\ t % Size \in Slots
  <2>1. n \in Nat /\ n + 1 \in Nat
    OBVIOUS
  <2> QED BY <2>1, SizeFacts
<1>2. Len(v) = n + 1 /\ v[n + 1] = c /\ \A i \in 1 .. n : v[i] = u[i]
  OBVIOUS
<1>3. t % Size = (h + n) % Size
  BY DEF Holds
<1>4. ((t + 1) % Wrap) % Size = (h + Len(v)) % Size
  <2>1. (((t + 1) % Wrap) + 0) % Size = ((t + 1) + 0) % Size
    BY WrapSlot
  <2>2. ((t + 1) % Wrap) + 0 = (t + 1) % Wrap /\ (t + 1) + 0 = t + 1
    BY SizeFacts
  <2>3. (t + 1) % Size = (h + n + 1) % Size
    <3>1. h + n \in Nat
      BY <1>1
    <3> QED BY <1>3, <3>1, NextSlot
  <2> QED BY <1>2, <2>1, <2>2, <2>3
<1>5. ASSUME NEW i \in 1 .. Size
      PROVE  C[(h + i - 1) % Size] = IF i <= Len(v) THEN v[i] ELSE NUL
  <2>1. i - 1 \in Slots /\ n \in Slots /\ h + (i - 1) = h + i - 1
    BY <1>1 DEF Slots
  <2>2. (h + i - 1) % Size \in Slots
    <3>1. h + i - 1 \in Nat
      BY <1>1
    <3> QED BY <3>1, SizeFacts
  <2>3. B[(h + i - 1) % Size] = IF i <= n THEN u[i] ELSE NUL
    BY DEF Holds
  <2>4. CASE i - 1 = n
    <3>1. C[(h + i - 1) % Size] = c
      BY <1>1, <1>3, <2>1, <2>4
    <3> QED BY <1>1, <1>2, <2>4, <3>1
  <2>5. CASE i - 1 # n
    <3>1. (h + i - 1) % Size # t % Size
      BY <1>3, <2>1, <2>5, SlotsApart
    <3>2. C[(h + i - 1) % Size] = B[(h + i - 1) % Size]
      BY <2>2, <3>1
    <3> HIDE DEF C, v
    <3>3. i <= Len(v) <=> i <= n
      BY <1>1, <1>2, <2>5
    <3>4. i <= n => v[i] = u[i]
      BY <1>1, <1>2
    <3> QED BY <2>3, <3>2, <3>3, <3>4
  <2> QED BY <2>4, <2>5
<1>6. Len(v) <= Size
  BY <1>1, <1>2
<1> HIDE DEF C, v
<1> QED BY <1>4, <1>5, <1>6 DEF Holds, C, v

LEMMA HoldsPop ==
  ASSUME NEW B \in [Slots -> Keys \cup {NUL}], NEW h \in Nat, NEW t \in Nat,
         NEW u \in Seq(Keys), Holds(B, h, t, u), B[h % Size] # NUL
  PROVE  /\ u # <<>> /\ B[h % Size] = Head(u)
         /\ Holds([B EXCEPT ![h % Size] = NUL], (h + 1) % Wrap, t, Tail(u))
<1> DEFINE n == Len(u)
           g == (h + 1) % Wrap
           C == [B EXCEPT ![h % Size] = NUL]
           v == Tail(u)
<1>1. Size \in Nat \ {0} /\ n \in Nat /\ h % Size \in Slots /\ g \in Nat /\ n <= Size
  <2>1. n \in Nat /\ h + 1 \in Nat
    OBVIOUS
  <2>2. n <= Size
    BY DEF Holds
  <2> QED BY <2>1, <2>2, SizeFacts
<1>2. B[h % Size] = IF 1 <= n THEN u[1] ELSE NUL
  <2>1. h + 1 - 1 = h /\ 1 \in 1 .. Size
    BY <1>1
  <2> QED BY <2>1 DEF Holds
<1>3. 1 <= n /\ B[h % Size] = u[1]
  BY <1>1, <1>2
<1>4. u # <<>> /\ Head(u) = u[1]
  BY <1>3
<1>5. v \in Seq(Keys) /\ Len(v) = n - 1 /\ \A i \in 1 .. (n - 1) : v[i] = u[i + 1]
  BY <1>4, HeadTailProperties
<1>6. \A j \in Nat : (g + j) % Size = (h + 1 + j) % Size
  <2>1. ASSUME NEW j \in Nat PROVE (g + j) % Size = (h + 1 + j) % Size
    BY WrapSlot
  <2> QED BY <2>1
<1> HIDE DEF g
<1>7. t % Size = (g + Len(v)) % Size
  <2>1. t % Size = (h + n) % Size
    BY DEF Holds
  <2>2. n - 1 \in Nat /\ h + 1 + (n - 1) = h + n
    BY <1>1, <1>3
  <2> QED BY <1>5, <1>6, <2>1, <2>2
<1>8. ASSUME NEW i \in 1 .. Size
      PROVE  C[(g + i - 1) % Size] = IF i <= Len(v) THEN v[i] ELSE NUL
  <2>1. (g + i - 1) % Size = (h + i) % Size
    <3>1. i - 1 \in Nat /\ g + (i - 1) = g + i - 1 /\ h + 1 + (i - 1) = h + i
      BY <1>1
    <3> QED BY <1>6, <3>1
  <2>2. CASE i = Size
    <3>1. (h + i) % Size = h % Size
      BY <2>2, OnceAround
    <3>2. C[(g + i - 1) % Size] = NUL
      BY <1>1, <2>1, <3>1
    <3>3. ~(i <= Len(v))
      BY <1>1, <1>5, <2>2
    <3> QED BY <3>2, <3>3
  <2>3. CASE i # Size
    <3>1. i \in Slots /\ 0 \in Slots /\ i # 0 /\ h + 0 = h /\ i + 1 \in 1 .. Size
          /\ h + (i + 1) - 1 = h + i /\ h + i \in Nat
      BY <1>1, <2>3 DEF Slots
    <3>2. (h + i) % Size # h % Size
      BY <3>1, SlotsApart
    <3>3. (h + i) % Size \in Slots
      BY <3>1, SizeFacts
    <3>4. C[(h + i) % Size] = B[(h + i) % Size]
      BY <3>2, <3>3
    <3>5. B[(h + i) % Size] = IF i + 1 <= n THEN u[i + 1] ELSE NUL
      BY <3>1 DEF Holds
    <3> HIDE DEF C, v
    <3>6. i <= Len(v) <=> i + 1 <= n
      BY <1>1, <1>5
    <3>7. i <= Len(v) => v[i] = u[i + 1]
      BY <1>1, <1>5
    <3> QED BY <2>1, <3>4, <3>5, <3>6, <3>7
  <2> QED BY <2>2, <2>3
<1>9. Len(v) <= Size
  BY <1>1, <1>5
<1> HIDE DEF C, v
<1>10. Holds(C, g, t, v)
  BY <1>7, <1>8, <1>9 DEF Holds
<1> QED BY <1>3, <1>4, <1>10 DEF C, v, g

KeysInv == KeysTyped /\ BuffersHold

(* The keys that reach a buffer. *)
LEMMA KeyChars ==
  ASSUME NEW s \in Nat, NEW c \in scancode_to_char(s) \ {NUL}
  PROVE  lowercase(c) \in Keys
<1>1. c \in {"A"} \cup Keys
  <2>1. CASE s < Len(ScanSet)
    <3>1. ScanSet \in Seq({NUL, "A"} \cup Keys) /\ s + 1 \in 1 .. Len(ScanSet)
      BY <2>1, KeyboardAssumption
    <3>2. ScanSet[s + 1] \in {NUL, "A"} \cup Keys
      BY <3>1
    <3>3. c = ScanSet[s + 1]
      BY <2>1 DEF scancode_to_char
    <3> QED BY <3>2, <3>3
  <2>2. CASE ~(s < Len(ScanSet))
    BY <2>2, KeyboardAssumption DEF scancode_to_char
  <2> QED BY <2>1, <2>2
<1> QED BY <1>1 DEF lowercase, Keys, BS, CR

LEMMA CountersNat ==
  ASSUME KeysTyped, NEW p \in Procs
  PROVE  /\ head[p] \in Nat /\ tail[p] \in Nat
         /\ buffer[p] \in [Slots -> Keys \cup {NUL}] /\ unread[p] \in Seq(Keys)
  BY SizeFacts DEF KeysTyped

LEMMA PushKeeps ==
  ASSUME KeysInv, NEW c \in Keys, keyboard_push(c), Len(unread[cur]) < Size,
         UNCHANGED <<live, cur>>
  PROVE  KeysInv'
<1>1. KeysTyped /\ BuffersHold /\ cur \in Procs /\ cur \in live
  BY DEF KeysInv, KeysTyped
<1>2. /\ head[cur] \in Nat /\ tail[cur] \in Nat
      /\ buffer[cur] \in [Slots -> Keys \cup {NUL}] /\ unread[cur] \in Seq(Keys)
  BY <1>1, CountersNat
<1> DEFINE x == tail[cur] % Size
           C == [buffer[cur] EXCEPT ![x] = c]
           t == (tail[cur] + 1) % Wrap
           v == Append(unread[cur], c)
<1>3. x \in Slots /\ t \in 0 .. (Wrap - 1)
  <2>1. tail[cur] + 1 \in Nat
    BY <1>2
  <2> QED BY <1>2, <2>1, SizeFacts
<1>4. Holds(C, head[cur], t, v)
  BY <1>1, <1>2, HoldsPush DEF BuffersHold
<1>5. C \in [Slots -> Keys \cup {NUL}] /\ v \in Seq(Keys)
  BY <1>2, <1>3
<1> HIDE DEF x, C, t, v
<1>6. /\ buffer' = [buffer EXCEPT ![cur] = C] /\ tail' = [tail EXCEPT ![cur] = t]
      /\ unread' = [unread EXCEPT ![cur] = v] /\ head' = head
  BY DEF keyboard_push, x, C, t, v
<1>7. KeysTyped'
  BY <1>1, <1>3, <1>5, <1>6 DEF KeysTyped, Keys, Slots
<1>8. BuffersHold'
  <2>1. ASSUME NEW p \in live PROVE Holds(buffer'[p], head'[p], tail'[p], unread'[p])
    <3>1. p \in Procs
      BY <1>1 DEF KeysTyped
    <3>2. CASE p = cur
      <4>1. /\ buffer'[p] = C /\ head'[p] = head[cur] /\ tail'[p] = t /\ unread'[p] = v
        BY <1>1, <1>6, <3>2 DEF KeysTyped
      <4> QED BY <1>4, <4>1
    <3>3. CASE p # cur
      <4>1. /\ buffer'[p] = buffer[p] /\ head'[p] = head[p]
            /\ tail'[p] = tail[p] /\ unread'[p] = unread[p]
        BY <1>1, <1>6, <3>1, <3>3 DEF KeysTyped
      <4>2. Holds(buffer[p], head[p], tail[p], unread[p])
        BY <1>1 DEF BuffersHold
      <4> QED BY <4>1, <4>2
    <3> QED BY <3>2, <3>3
  <2> QED BY <2>1 DEF BuffersHold, Holds
<1> QED BY <1>7, <1>8 DEF KeysInv

LEMMA PopKeeps ==
  ASSUME KeysInv, NEW c \in Keys \cup {NUL}, keyboard_pop(c), UNCHANGED <<live, cur>>
  PROVE  KeysInv'
<1>1. KeysTyped /\ BuffersHold /\ cur \in Procs /\ cur \in live
  BY DEF KeysInv, KeysTyped
<1>2. CASE UNCHANGED keyboard
  BY <1>1, <1>2 DEF keyboard, KeysInv, KeysTyped, BuffersHold, Holds
<1>3. CASE c # NUL /\ c = buffer[cur][head[cur] % Size]
             /\ buffer' = [buffer EXCEPT ![cur][head[cur] % Size] = NUL]
             /\ head'   = [head EXCEPT ![cur] = (head[cur] + 1) % Wrap]
             /\ unread' = [unread EXCEPT ![cur] = IF @ = <<>> THEN @ ELSE Tail(@)]
             /\ UNCHANGED tail
  <2>1. /\ head[cur] \in Nat /\ tail[cur] \in Nat
        /\ buffer[cur] \in [Slots -> Keys \cup {NUL}] /\ unread[cur] \in Seq(Keys)
    BY <1>1, CountersNat
  <2> DEFINE x == head[cur] % Size
             C == [buffer[cur] EXCEPT ![x] = NUL]
             g == (head[cur] + 1) % Wrap
             v == Tail(unread[cur])
  <2>2. x \in Slots /\ g \in 0 .. (Wrap - 1)
    <3>1. head[cur] + 1 \in Nat
      BY <2>1
    <3> QED BY <2>1, <3>1, SizeFacts
  <2>3. Holds(C, g, tail[cur], v) /\ unread[cur] # <<>>
    BY <1>1, <1>3, <2>1, HoldsPop DEF BuffersHold
  <2>4. C \in [Slots -> Keys \cup {NUL}] /\ v \in Seq(Keys)
    BY <2>1, <2>2, <2>3
  <2>5. /\ buffer' = [buffer EXCEPT ![cur] = C] /\ head' = [head EXCEPT ![cur] = g]
        /\ unread' = [unread EXCEPT ![cur] = v] /\ tail' = tail
    BY <1>1, <1>3, <2>3 DEF KeysTyped
  <2> HIDE DEF x, C, g, v
  <2>6. KeysTyped'
    BY <1>1, <2>2, <2>4, <2>5 DEF KeysTyped, Keys, Slots
  <2>7. BuffersHold'
    <3>1. ASSUME NEW p \in live PROVE Holds(buffer'[p], head'[p], tail'[p], unread'[p])
      <4>1. p \in Procs
        BY <1>1 DEF KeysTyped
      <4>2. CASE p = cur
        <5>1. buffer'[p] = C /\ head'[p] = g /\ tail'[p] = tail[cur] /\ unread'[p] = v
          BY <1>1, <2>5, <4>2 DEF KeysTyped
        <5> QED BY <2>3, <5>1
      <4>3. CASE p # cur
        <5>1. /\ buffer'[p] = buffer[p] /\ head'[p] = head[p]
              /\ tail'[p] = tail[p] /\ unread'[p] = unread[p]
          BY <1>1, <2>5, <4>1, <4>3 DEF KeysTyped
        <5>2. Holds(buffer[p], head[p], tail[p], unread[p])
          BY <1>1 DEF BuffersHold
        <5> QED BY <5>1, <5>2
      <4> QED BY <4>2, <4>3
    <3> QED BY <3>1 DEF BuffersHold, Holds
  <2> QED BY <2>6, <2>7 DEF KeysInv
<1> QED BY <1>2, <1>3 DEF keyboard_pop

(* An empty buffer. *)
LEMMA HoldsNone == Holds([i \in Slots |-> NUL], 0, 0, <<>>)
<1>1. \A i \in 1 .. Size : (0 + i - 1) % Size \in Slots
  <2>1. \A i \in 1 .. Size : 0 + i - 1 \in Nat
    BY SizeFacts
  <2> QED BY <2>1, SizeFacts
<1> QED BY <1>1, SizeFacts DEF Holds

LEMMA ClearedKeeps ==
  ASSUME KeysInv, NEW p \in Procs, Cleared(p), live' \subseteq Procs,
         live' \subseteq live \cup {p}, cur' \in live'
  PROVE  KeysInv'
<1> DEFINE N == [i \in Slots |-> NUL]
<1>1. KeysTyped /\ BuffersHold
  BY DEF KeysInv
<1>2. /\ buffer' = [buffer EXCEPT ![p] = N] /\ head' = [head EXCEPT ![p] = 0]
      /\ tail' = [tail EXCEPT ![p] = 0] /\ unread' = [unread EXCEPT ![p] = <<>>]
  BY DEF Cleared
<1>3. N \in [Slots -> Keys \cup {NUL}] /\ 0 \in 0 .. (Wrap - 1) /\ <<>> \in Seq(Keys)
  BY SizeFacts
<1>4. Holds(N, 0, 0, <<>>)
  BY HoldsNone
<1> HIDE DEF N
<1>5. KeysTyped'
  BY <1>1, <1>2, <1>3 DEF KeysTyped, Keys, Slots
<1>6. BuffersHold'
  <2>1. ASSUME NEW q \in live' PROVE Holds(buffer'[q], head'[q], tail'[q], unread'[q])
    <3>1. CASE q = p
      <4>1. buffer'[q] = N /\ head'[q] = 0 /\ tail'[q] = 0 /\ unread'[q] = <<>>
        BY <1>1, <1>2, <3>1 DEF KeysTyped
      <4> QED BY <1>4, <4>1
    <3>2. CASE q # p
      <4>1. q \in live /\ q \in Procs
        BY <3>2
      <4>2. /\ buffer'[q] = buffer[q] /\ head'[q] = head[q]
            /\ tail'[q] = tail[q] /\ unread'[q] = unread[q]
        BY <1>1, <1>2, <3>2, <4>1 DEF KeysTyped
      <4>3. Holds(buffer[q], head[q], tail[q], unread[q])
        BY <1>1, <4>1 DEF BuffersHold
      <4> QED BY <4>2, <4>3
    <3> QED BY <3>1, <3>2
  <2> QED BY <2>1 DEF BuffersHold, Holds
<1> QED BY <1>5, <1>6 DEF KeysInv

LEMMA KeysInit == Init => KeysInv
<1> SUFFICES ASSUME Init PROVE KeysInv
  OBVIOUS
<1>1. KeysTyped
  BY ProcsAssumption, SizeFacts DEF Init, KeysTyped
<1>2. \A p \in live : /\ buffer[p] = [i \in Slots |-> NUL] /\ head[p] = 0 /\ tail[p] = 0
                      /\ unread[p] = <<>>
  BY <1>1 DEF Init, KeysTyped
<1> QED BY <1>1, <1>2, HoldsNone DEF KeysInv, BuffersHold

LEMMA KeysNext == KeysInv /\ [Next]_vars => KeysInv'
<1> SUFFICES ASSUME KeysInv, [Next]_vars PROVE KeysInv'
  OBVIOUS
<1>1. live \subseteq Procs /\ cur \in live
  BY DEF KeysInv, KeysTyped
<1>2. ASSUME NEW s \in 0 .. 2 * HighBit - 1, key(s) PROVE KeysInv'
  <2>1. s \in Nat
    BY KeyboardAssumption
  <2>2. PICK c \in scancode_to_char(s) \ {NUL} : keyboard_push(lowercase(c))
    BY <1>2 DEF key
  <2>3. lowercase(c) \in Keys
    BY <2>1, KeyChars
  <2> QED BY <1>2, <2>2, <2>3, PushKeeps DEF key
<1>3. CASE drain \/ line
  BY <1>3, PopKeeps DEF drain, line
<1>4. CASE readline \/ print \/ timer \/ UNCHANGED vars
  <2>1. keyboard' = keyboard /\ live' = live /\ cur' \in live
    BY <1>1, <1>4 DEF readline, print, timer, vars
  <2> QED BY <2>1 DEF KeysInv, KeysTyped, BuffersHold, Holds, keyboard
<1>5. CASE fork
  BY <1>1, <1>5, ClearedKeeps DEF fork
<1>6. CASE exit
  BY <1>1, <1>6, ClearedKeeps DEF exit
<1> QED BY <1>2, <1>3, <1>4, <1>5, <1>6 DEF Next

(***************************************************************************)
(* keyboard_pop gives a process the keys that keyboard_push put in its     *)
(* buffer, each once and in their order, for every size of the buffer and  *)
(* through every wrap of the counters, as long as nobody types more ahead  *)
(* than the buffer holds.                                                  *)
(***************************************************************************)
THEOREM ConsoleKeysInOrder == Spec => []KeysInOrder
<1>1. KeysInv => KeysInOrder
  BY DEF KeysInv, BuffersHold, Holds, KeysInOrder
<1> QED BY <1>1, KeysInit, KeysNext, PTL DEF Spec

-----------------------------------------------------------------------------
(* ----- The terminal ----- *)

Terminals == [screen : [Cells -> Glyphs], row : 0 .. Height - 1, col : 0 .. Width - 1]

(* The cell of the cursor. *)
At(t) == t.row * Width + t.col

LEMMA ScreenFacts ==
  /\ Width \in Nat \ {0} /\ Height \in Nat \ {0} /\ Width * Height \in Nat
  /\ Cells = 0 .. (Width * Height - 1)
  BY ScreenAssumption DEF Cells

LEMMA CellOf ==
  ASSUME NEW r \in 0 .. (Height - 1), NEW c \in 0 .. (Width - 1)
  PROVE  r * Width + c \in Cells /\ r * Width \in Nat
<1>1. r \in Nat /\ c \in Nat /\ r <= Height - 1 /\ c <= Width - 1
  BY ScreenFacts
<1>2. r * Width \in Nat
  BY <1>1, ScreenFacts
<1>3. (Height - 1 - r) * Width \in Nat
  <2>1. Height - 1 - r \in Nat
    BY <1>1, ScreenFacts
  <2> QED BY <2>1, ScreenFacts
<1>4. Width * Height = r * Width + (Height - 1 - r) * Width + Width
  BY <1>1, ScreenFacts
<1>5. r * Width + c <= Width * Height - 1
  BY <1>1, <1>2, <1>3, <1>4, ScreenFacts
<1> QED BY <1>1, <1>2, <1>5, ScreenFacts

LEMMA AtFacts ==
  ASSUME NEW t \in Terminals
  PROVE  At(t) \in Cells /\ At(t) \in Nat /\ t.screen \in [Cells -> Glyphs]
<1>1. t.row \in 0 .. (Height - 1) /\ t.col \in 0 .. (Width - 1) /\ t.screen \in [Cells -> Glyphs]
  BY DEF Terminals
<1>2. At(t) \in Cells
  BY <1>1, CellOf DEF At
<1> QED BY <1>1, <1>2, ScreenFacts

LEMMA PutFacts ==
  ASSUME NEW t \in Terminals, NEW c \in Glyphs
  PROVE  /\ Put(t, c) \in Terminals
         /\ Put(t, c).row = t.row /\ Put(t, c).col = t.col
         /\ Put(t, c).screen = [t.screen EXCEPT ![At(t)] = c]
<1>1. At(t) \in Cells
  BY CellOf DEF Terminals, At
<1>2. Put(t, c) = [t EXCEPT !.screen = [t.screen EXCEPT ![At(t)] = c]]
  BY DEF Put, At
<1> DEFINE S == [t.screen EXCEPT ![At(t)] = c]
<1>3. S \in [Cells -> Glyphs]
  BY <1>1 DEF Terminals
<1> HIDE DEF S
<1>4. Put(t, c) = [t EXCEPT !.screen = S]
  BY <1>2 DEF S
<1>5. Put(t, c) \in Terminals /\ Put(t, c).row = t.row /\ Put(t, c).col = t.col
      /\ Put(t, c).screen = S
  BY <1>3, <1>4 DEF Terminals
<1> QED BY <1>5 DEF S

LEMMA ScrollTyped ==
  ASSUME NEW S \in [Cells -> Glyphs]
  PROVE  scroll(S) \in [Cells -> Glyphs]
<1>1. \A p \in Cells : (IF p + Width \in Cells THEN S[p + Width] ELSE Sp) \in Glyphs
  BY DEF Glyphs
<1> QED BY <1>1 DEF scroll

LEMMA RowTyped ==
  ASSUME NEW t \in Terminals
  PROVE  new_row(t) \in Terminals
<1>1. t.screen \in [Cells -> Glyphs] /\ t.row \in 0 .. (Height - 1)
  BY DEF Terminals
<1>2. 0 \in 0 .. (Width - 1) /\ Height - 1 \in 0 .. (Height - 1)
  BY ScreenFacts
<1>3. CASE t.row + 1 < Height
  <2>1. t.row + 1 \in 0 .. (Height - 1)
    BY <1>1, <1>3, ScreenFacts
  <2>2. new_row(t) = [t EXCEPT !.row = t.row + 1, !.col = 0]
    BY <1>3 DEF new_row
  <2> QED BY <1>2, <2>1, <2>2 DEF Terminals
<1>4. CASE ~(t.row + 1 < Height)
  <2>1. new_row(t) = [screen |-> scroll(t.screen), row |-> Height - 1, col |-> 0]
    BY <1>4 DEF new_row
  <2>2. scroll(t.screen) \in [Cells -> Glyphs]
    BY <1>1, ScrollTyped
  <2> QED BY <1>2, <2>1, <2>2 DEF Terminals
<1> QED BY <1>3, <1>4

(* A backspace, where there is a column to go back to. *)
LEMMA BackFacts ==
  ASSUME NEW t \in Terminals
  PROVE  /\ writechar(t, BS) \in Terminals
         /\ t.col > 0 => /\ At(writechar(t, BS)) = At(t) - 1
                         /\ writechar(t, BS).screen = [t.screen EXCEPT ![At(t) - 1] = Sp]
<1> DEFINE d == IF t.col > 0 THEN t.col - 1 ELSE 0
           u == [t EXCEPT !.col = d]
<1>1. t.col \in 0 .. (Width - 1) /\ t.row \in 0 .. (Height - 1)
  BY DEF Terminals
<1>2. d \in 0 .. (Width - 1)
  BY <1>1, ScreenFacts
<1>3. writechar(t, BS) = Put(u, Sp)
  BY DEF writechar, BS, LF
<1> HIDE DEF d
<1>4. u \in Terminals /\ u.row = t.row /\ u.col = d /\ u.screen = t.screen
  BY <1>2 DEF Terminals
<1>5. Sp \in Glyphs
  BY DEF Glyphs
<1> HIDE DEF u
<1>6. /\ Put(u, Sp) \in Terminals /\ Put(u, Sp).row = u.row /\ Put(u, Sp).col = u.col
      /\ Put(u, Sp).screen = [u.screen EXCEPT ![At(u)] = Sp]
  BY <1>4, <1>5, PutFacts
<1>7. PICK w \in Nat : w = t.row * Width
  BY <1>1, CellOf
<1>8. ASSUME t.col > 0 PROVE At(u) = At(t) - 1 /\ At(Put(u, Sp)) = At(t) - 1
  <2>1. d = t.col - 1
    BY <1>8 DEF d
  <2>2. At(t) = w + t.col /\ At(u) = w + d /\ At(Put(u, Sp)) = w + d
    BY <1>4, <1>6, <1>7 DEF At
  <2> QED BY <1>1, <2>1, <2>2
<1> QED BY <1>3, <1>4, <1>6, <1>8

(***************************************************************************)
(* Any other character but a line feed.  It is the last before the cursor, *)
(* and what was before it still is, unless it scrolled out.                *)
(***************************************************************************)
LEMMA WriteFacts ==
  ASSUME NEW t \in Terminals, NEW c \in Glyphs, c # BS, c # LF
  PROVE  /\ writechar(t, c) \in Terminals
         /\ At(writechar(t, c)) \in 0 .. (At(t) + 1)
         /\ \A j \in 0 .. (At(writechar(t, c)) - 1) :
              writechar(t, c).screen[At(writechar(t, c)) - 1 - j] =
                IF j = 0 THEN c ELSE t.screen[At(t) - j]
<1> DEFINE P == Put(t, c)
           S == [t.screen EXCEPT ![At(t)] = c]
           u == writechar(t, c)
           k == At(t)
<1>1. t.col \in 0 .. (Width - 1) /\ t.row \in 0 .. (Height - 1) /\ t.screen \in [Cells -> Glyphs]
  BY DEF Terminals
<1>2. P \in Terminals /\ P.row = t.row /\ P.col = t.col /\ P.screen = S
  BY PutFacts
<1>3. k \in Cells /\ t.row * Width \in Nat /\ k = t.row * Width + t.col /\ k \in Nat
  <2>1. k = t.row * Width + t.col
    BY DEF At
  <2>2. k \in Cells /\ t.row * Width \in Nat
    BY <1>1, <2>1, CellOf
  <2> HIDE DEF k
  <2> QED BY <2>1, <2>2, ScreenFacts
<1>4. u = IF t.col + 1 < Width THEN [P EXCEPT !.col = t.col + 1] ELSE new_row(P)
  BY DEF writechar
<1>5. \A j \in 0 .. k : k - j \in Cells /\ S[k - j] = IF j = 0 THEN c ELSE t.screen[k - j]
  <2>1. \A j \in 0 .. k : k - j \in Cells /\ (k - j = k <=> j = 0)
    BY <1>3, ScreenFacts
  <2> QED BY <1>1, <1>3, <2>1
<1> HIDE DEF P, S, u, k
<1>6. CASE t.col + 1 < Width
  <2>1. u = [P EXCEPT !.col = t.col + 1]
    BY <1>4, <1>6
  <2>2. t.col + 1 \in 0 .. (Width - 1)
    BY <1>1, <1>6, ScreenFacts
  <2>3. u \in Terminals /\ u.row = t.row /\ u.col = t.col + 1 /\ u.screen = S
    BY <1>2, <2>1, <2>2 DEF Terminals
  <2>4. At(u) = k + 1
    <3>1. PICK w \in Nat : w = t.row * Width
      BY <1>3
    <3>2. At(u) = w + (t.col + 1) /\ k = w + t.col
      BY <1>3, <2>3, <3>1 DEF At
    <3> QED BY <1>1, <3>2
  <2>5. \A j \in 0 .. (At(u) - 1) : j \in 0 .. k /\ At(u) - 1 - j = k - j
    BY <1>3, <2>4
  <2> QED BY <1>3, <1>5, <2>3, <2>4, <2>5 DEF u, k
<1>7. CASE ~(t.col + 1 < Width) /\ t.row + 1 < Height
  <2>1. u = [P EXCEPT !.row = t.row + 1, !.col = 0]
    BY <1>2, <1>4, <1>7 DEF new_row
  <2>2. u \in Terminals
    BY <1>2, <1>4, <1>7, RowTyped
  <2>3. u.row = t.row + 1 /\ u.col = 0 /\ u.screen = S
    BY <1>2, <2>1 DEF Terminals
  <2>4. t.col + 1 = Width
    BY <1>1, <1>7, ScreenFacts
  <2>5. (t.row + 1) * Width = t.row * Width + Width
    BY <1>1, ScreenFacts
  <2>6. At(u) = k + 1
    <3>1. PICK w \in Nat : w = t.row * Width
      BY <1>3
    <3>2. At(u) = (w + Width) + 0 /\ k = w + t.col
      BY <1>3, <2>3, <2>5, <3>1 DEF At
    <3> QED BY <1>1, <2>4, <3>2, ScreenFacts
  <2>7. \A j \in 0 .. (At(u) - 1) : j \in 0 .. k /\ At(u) - 1 - j = k - j
    BY <1>3, <2>6
  <2> QED BY <1>3, <1>5, <2>2, <2>3, <2>6, <2>7 DEF u, k
<1>8. CASE ~(t.col + 1 < Width) /\ ~(t.row + 1 < Height)
  <2>1. u = [screen |-> scroll(S), row |-> Height - 1, col |-> 0]
    BY <1>2, <1>4, <1>8 DEF new_row
  <2>2. u \in Terminals
    BY <1>2, <1>4, <1>8, RowTyped
  <2>3. u.row = Height - 1 /\ u.col = 0 /\ u.screen = scroll(S)
    BY <2>1
  <2>4. t.col + 1 = Width /\ t.row = Height - 1
    BY <1>1, <1>8, ScreenFacts
  <2>5. At(u) = k + 1 - Width /\ At(u) \in Nat
    BY <1>1, <1>3, <2>3, <2>4, ScreenFacts DEF At
  <2>6. ASSUME NEW j \in 0 .. (At(u) - 1)
        PROVE  u.screen[At(u) - 1 - j] = IF j = 0 THEN c ELSE t.screen[k - j]
    <3>1. /\ j \in 0 .. k /\ (At(u) - 1 - j) + Width = k - j
          /\ At(u) - 1 - j \in Nat /\ At(u) - 1 - j <= k
      BY <1>3, <2>5, ScreenFacts
    <3>2. At(u) - 1 - j \in Cells
      BY <1>3, <3>1, ScreenFacts
    <3>3. scroll(S)[At(u) - 1 - j] = S[k - j]
      BY <1>5, <3>1, <3>2 DEF scroll
    <3> QED BY <1>5, <2>3, <3>1, <3>3
  <2>7. At(u) \in 0 .. (k + 1)
    BY <1>3, <2>5, ScreenFacts
  <2> QED BY <2>2, <2>6, <2>7 DEF u, k
<1> QED BY <1>6, <1>7, <1>8

LEMMA WriteTyped ==
  ASSUME NEW t \in Terminals, NEW c \in Glyphs \cup {LF}
  PROVE  writechar(t, c) \in Terminals
<1>1. CASE c = LF
  <2>1. writechar(t, c) = new_row(t)
    BY <1>1 DEF writechar, BS, LF
  <2> QED BY <2>1, RowTyped
<1>2. CASE c = BS
  BY <1>2, BackFacts
<1>3. CASE c # LF /\ c # BS
  BY <1>3, WriteFacts
<1> QED BY <1>1, <1>2, <1>3

(***************************************************************************)
(* print leaves the terminal in order, whatever the length of the string:  *)
(* by induction on the characters written, as the least number of them     *)
(* after which it is not.  That the recursion has a solution comes first.  *)
(***************************************************************************)
LEMMA PrintedTyped ==
  ASSUME NEW t \in Terminals, NEW s \in Seq(Glyphs \cup {LF})
  PROVE  Printed(t, s) \in Terminals
<1> DEFINE L == Len(s)
           Runs(g, n) == /\ g \in [0 .. n -> Terminals] /\ g[0] = t
                         /\ \A m \in 1 .. n : g[m] = writechar(g[m - 1], s[m])
           B == {n \in Nat : n <= L /\ ~ \E g : Runs(g, n)}
           F(g) == [n \in 0 .. Len(s) |-> IF n = 0 THEN t ELSE writechar(g[n - 1], s[n])]
           at == CHOOSE g : g = F(g)
<1>1. L \in Nat /\ \A n \in 1 .. L : s[n] \in Glyphs \cup {LF}
  OBVIOUS
<1>2. \E g : Runs(g, L)
  <2>1. SUFFICES ASSUME B # {} PROVE FALSE
    BY <1>1
  <2>2. B \subseteq Nat
    OBVIOUS
  <2> HIDE DEF B
  <2>3. Min(B) \in B /\ \A n \in B : Min(B) <= n
    BY <2>1, <2>2, MinIn
  <2>4. PICK n \in B : \A m \in B : n <= m
    BY <2>3
  <2>5. n \in Nat /\ n <= L /\ ~ \E g : Runs(g, n)
    BY <2>4 DEF B
  <2>6. CASE n = 0
    <3> DEFINE g == [m \in 0 .. 0 |-> t]
    <3>1. Runs(g, 0)
      OBVIOUS
    <3> QED BY <2>5, <2>6, <3>1
  <2>7. CASE n # 0
    <3>1. n - 1 \in Nat /\ n - 1 <= L /\ ~(n <= n - 1)
      BY <1>1, <2>5, <2>7
    <3>2. n - 1 \notin B
      BY <2>4, <3>1
    <3>3. PICK f : Runs(f, n - 1)
      BY <3>1, <3>2 DEF B
    <3> DEFINE g == [m \in 0 .. n |-> IF m = n THEN writechar(f[n - 1], s[n]) ELSE f[m]]
    <3>4. f \in [0 .. (n - 1) -> Terminals] /\ f[0] = t
          /\ \A m \in 1 .. (n - 1) : f[m] = writechar(f[m - 1], s[m])
      BY <3>3
    <3>5. writechar(f[n - 1], s[n]) \in Terminals
      <4>1. f[n - 1] \in Terminals /\ n \in 1 .. L
        BY <2>5, <3>1, <3>4
      <4> QED BY <1>1, <4>1, WriteTyped
    <3>6. g \in [0 .. n -> Terminals]
      <4>1. \A m \in 0 .. n : m # n => m \in 0 .. (n - 1)
        BY <2>5
      <4> QED BY <3>4, <3>5, <4>1
    <3>7. g[0] = t
      BY <2>5, <2>7, <3>4
    <3>8. \A m \in 1 .. n : g[m] = writechar(g[m - 1], s[m])
      <4>1. ASSUME NEW m \in 1 .. n PROVE g[m] = writechar(g[m - 1], s[m])
        <5>1. m \in 0 .. n /\ m - 1 \in 0 .. n /\ m - 1 # n
          BY <2>5
        <5>2. g[m - 1] = f[m - 1]
          BY <5>1
        <5>3. CASE m = n
          BY <5>1, <5>2, <5>3
        <5>4. CASE m # n
          <6>1. m \in 1 .. (n - 1)
            BY <2>5, <5>4
          <6>2. g[m] = f[m]
            BY <5>1, <5>4
          <6> QED BY <3>4, <5>2, <6>1, <6>2
        <5> QED BY <5>3, <5>4
      <4> QED BY <4>1
    <3> HIDE DEF g
    <3>9. Runs(g, n)
      BY <3>6, <3>7, <3>8
    <3> QED BY <2>5, <3>9
  <2> QED BY <2>6, <2>7
<1>3. PICK g : Runs(g, L)
  BY <1>2
<1>4. g = F(g)
  <2>1. g \in [0 .. L -> Terminals] /\ g[0] = t
        /\ \A m \in 1 .. L : g[m] = writechar(g[m - 1], s[m])
    BY <1>3
  <2>2. ASSUME NEW m \in 0 .. L
        PROVE  g[m] = IF m = 0 THEN t ELSE writechar(g[m - 1], s[m])
    <3>1. m # 0 => m \in 1 .. L
      BY <1>1
    <3> QED BY <2>1, <3>1
  <2> QED BY <2>1, <2>2
<1>5. at = F(at)
  <2> HIDE DEF F
  <2> QED BY <1>4
<1>6. Printed(t, s) = at[L]
  BY DEF Printed
<1>7. \A n \in 0 .. L : at[n] = IF n = 0 THEN t ELSE writechar(at[n - 1], s[n])
  <2> HIDE DEF at
  <2> QED BY <1>5
<1> DEFINE C == {n \in Nat : n <= L /\ at[n] \notin Terminals}
<1> HIDE DEF at
<1>8. C = {}
  <2>1. SUFFICES ASSUME C # {} PROVE FALSE
    OBVIOUS
  <2>2. C \subseteq Nat
    OBVIOUS
  <2> HIDE DEF C
  <2>3. Min(C) \in C /\ \A n \in C : Min(C) <= n
    BY <2>1, <2>2, MinIn
  <2>4. PICK n \in C : \A m \in C : n <= m
    BY <2>3
  <2>5. n \in Nat /\ n <= L /\ at[n] \notin Terminals
    BY <2>4 DEF C
  <2>6. n # 0
    BY <1>1, <1>7, <2>5
  <2>7. n - 1 \in Nat /\ n - 1 <= L /\ ~(n <= n - 1) /\ n \in 1 .. L /\ n \in 0 .. L
    BY <1>1, <2>5, <2>6
  <2>8. at[n - 1] \in Terminals
    BY <2>4, <2>7 DEF C
  <2>9. at[n] = writechar(at[n - 1], s[n])
    BY <1>7, <2>6, <2>7
  <2> QED BY <1>1, <2>5, <2>7, <2>8, <2>9, WriteTyped
<1> QED BY <1>1, <1>6, <1>8

-----------------------------------------------------------------------------
(* ----- The line ----- *)

LineTyped ==
  /\ pc \in {"user", "drain", "line"}
  /\ kbuf \in Seq(Keys) /\ Len(kbuf) < MaxLine
  /\ before \in Seq(Glyphs)
  /\ stuck \in BOOLEAN
  /\ pc = "drain" => kbuf = <<>>

ScreenTyped == Terminal \in Terminals

(* Up to the cursor the terminal t shows the end of the text. *)
Shows(t, text) ==
  \A j \in 0 .. (At(t) - 1) : j < Len(text) => t.screen[At(t) - 1 - j] = text[Len(text) - j]

LineShown == pc \in {"drain", "line"} /\ ~stuck => Shows(Terminal, before \o kbuf)

LEMMA ShowsWritten ==
  ASSUME NEW t \in Terminals, NEW c \in Glyphs, c # BS, c # LF, NEW b \in Seq(Glyphs),
         NEW l \in Seq(Keys), Shows(t, b \o l)
  PROVE  Shows(writechar(t, c), b \o Append(l, c))
<1> DEFINE u == writechar(t, c)
           x == b \o l
           v == b \o Append(l, c)
           k == At(t)
           n == Len(x)
<1>1. k \in Nat
  BY AtFacts
<1>2. /\ At(u) \in 0 .. (k + 1)
      /\ \A j \in 0 .. (At(u) - 1) : u.screen[At(u) - 1 - j] = IF j = 0 THEN c ELSE t.screen[k - j]
  BY WriteFacts
<1>3. n \in Nat /\ Len(v) = n + 1 /\ v[n + 1] = c /\ \A i \in 1 .. n : v[i] = x[i]
  OBVIOUS
<1>4. \A j \in 0 .. (k - 1) : j < n => t.screen[k - 1 - j] = x[n - j]
  BY DEF Shows
<1> HIDE DEF u, x, v, k, n
<1>5. ASSUME NEW j \in 0 .. (At(u) - 1), j < Len(v)
      PROVE  u.screen[At(u) - 1 - j] = v[Len(v) - j]
  <2>1. j \in Nat /\ j <= k
    BY <1>1, <1>2
  <2>2. CASE j = 0
    BY <1>2, <1>3, <2>2
  <2>3. CASE j # 0
    <3>1. /\ j - 1 \in 0 .. (k - 1) /\ j - 1 < n /\ k - 1 - (j - 1) = k - j
          /\ n - (j - 1) = Len(v) - j /\ Len(v) - j \in 1 .. n
      BY <1>1, <1>3, <1>5, <2>1, <2>3
    <3>2. t.screen[k - j] = x[Len(v) - j]
      BY <1>4, <3>1
    <3> QED BY <1>2, <1>3, <2>3, <3>1, <3>2
  <2> QED BY <2>2, <2>3
<1> QED BY <1>5 DEF Shows, u, v

LEMMA FrontFacts ==
  ASSUME NEW l \in Seq(Keys), l # <<>>
  PROVE  /\ Front(l) \in Seq(Keys) /\ Len(Front(l)) = Len(l) - 1
         /\ \A i \in 1 .. (Len(l) - 1) : Front(l)[i] = l[i]
<1>1. Len(l) \in Nat /\ Len(l) >= 1 /\ \A i \in 1 .. (Len(l) - 1) : l[i] \in Keys
  OBVIOUS
<1>2. Front(l) = SubSeq(l, 1, Len(l) - 1)
  BY DEF Front
<1>3. /\ SubSeq(l, 1, Len(l) - 1) \in Seq(Keys)
      /\ Len(SubSeq(l, 1, Len(l) - 1)) =
           IF 1 <= Len(l) - 1 THEN (Len(l) - 1) - 1 + 1 ELSE 0
      /\ \A i \in 1 .. ((Len(l) - 1) - 1 + 1) : SubSeq(l, 1, Len(l) - 1)[i] = l[1 + i - 1]
  BY <1>1, SubSeqProperties
<1>4. (Len(l) - 1) - 1 + 1 = Len(l) - 1 /\ \A i \in 1 .. (Len(l) - 1) : 1 + i - 1 = i
  BY <1>1
<1> QED BY <1>1, <1>2, <1>3, <1>4

LEMMA ShowsErased ==
  ASSUME NEW t \in Terminals, t.col > 0, NEW b \in Seq(Glyphs),
         NEW l \in Seq(Keys), l # <<>>, Shows(t, b \o l)
  PROVE  Shows(writechar(t, BS), b \o Front(l))
<1> DEFINE u == writechar(t, BS)
           x == b \o l
           v == b \o Front(l)
           k == At(t)
           n == Len(x)
<1>1. k \in Nat /\ k \in Cells /\ t.screen \in [Cells -> Glyphs]
  BY AtFacts
<1>2. At(u) = k - 1 /\ u.screen = [t.screen EXCEPT ![k - 1] = Sp]
  BY BackFacts
<1>3. /\ Front(l) \in Seq(Keys) /\ Len(Front(l)) = Len(l) - 1
      /\ \A i \in 1 .. (Len(l) - 1) : Front(l)[i] = l[i]
  BY FrontFacts
<1>4. n \in Nat /\ Len(v) = n - 1 /\ \A i \in 1 .. (n - 1) : v[i] = x[i]
  <2> DEFINE m == Front(l)
  <2>1. m \in Seq(Keys) /\ Len(m) = Len(l) - 1 /\ \A i \in 1 .. (Len(l) - 1) : m[i] = l[i]
    BY <1>3
  <2> HIDE DEF m
  <2>2. l \in Seq(Glyphs) /\ m \in Seq(Glyphs)
    BY <2>1 DEF Glyphs
  <2>3. /\ Len(b \o l) = Len(b) + Len(l)
        /\ \A i \in 1 .. (Len(b) + Len(l)) :
             (b \o l)[i] = IF i <= Len(b) THEN b[i] ELSE l[i - Len(b)]
    BY <2>2, ConcatProperties
  <2>4. /\ Len(b \o m) = Len(b) + Len(m)
        /\ \A i \in 1 .. (Len(b) + Len(m)) :
             (b \o m)[i] = IF i <= Len(b) THEN b[i] ELSE m[i - Len(b)]
    BY <2>2, ConcatProperties
  <2>5. Len(b) \in Nat /\ Len(l) \in Nat /\ Len(l) >= 1
    OBVIOUS
  <2>6. ASSUME NEW i \in 1 .. (Len(b) + Len(l) - 1) PROVE (b \o m)[i] = (b \o l)[i]
    <3>1. i \in 1 .. (Len(b) + Len(m)) /\ i \in 1 .. (Len(b) + Len(l))
      BY <2>1, <2>5
    <3>2. ~(i <= Len(b)) => i - Len(b) \in 1 .. (Len(l) - 1)
      BY <2>5
    <3> QED BY <2>1, <2>3, <2>4, <3>1, <3>2
  <2>7. n = Len(b) + Len(l) /\ n \in Nat /\ Len(b \o m) = n - 1
    BY <2>1, <2>3, <2>4, <2>5
  <2> HIDE DEF n
  <2> QED BY <2>6, <2>7 DEF m
<1>5. \A j \in 0 .. (k - 1) : j < n => t.screen[k - 1 - j] = x[n - j]
  BY DEF Shows
<1> HIDE DEF u, x, v, k, n
<1>6. ASSUME NEW j \in 0 .. (At(u) - 1), j < Len(v)
      PROVE  u.screen[At(u) - 1 - j] = v[Len(v) - j]
  <2>1. /\ j + 1 \in 0 .. (k - 1) /\ j + 1 < n /\ k - 1 - (j + 1) = At(u) - 1 - j
        /\ n - (j + 1) = Len(v) - j /\ Len(v) - j \in 1 .. (n - 1)
        /\ At(u) - 1 - j # k - 1 /\ At(u) - 1 - j \in 0 .. k
    BY <1>1, <1>2, <1>4, <1>6
  <2>2. At(u) - 1 - j \in Cells
    BY <1>1, <2>1, ScreenFacts
  <2>3. u.screen[At(u) - 1 - j] = t.screen[At(u) - 1 - j]
    BY <1>1, <1>2, <2>1, <2>2
  <2>4. t.screen[At(u) - 1 - j] = x[Len(v) - j]
    BY <1>5, <2>1
  <2> QED BY <1>4, <2>1, <2>3, <2>4
<1> QED BY <1>6 DEF Shows, u, v

LEMMA EchoTyped ==
  ASSUME ScreenTyped, NEW c \in Glyphs \cup {LF}, Echo(c)
  PROVE  ScreenTyped' /\ Terminal' = writechar(Terminal, c)
<1>1. writechar(Terminal, c) \in Terminals
  BY WriteTyped DEF ScreenTyped
<1> DEFINE u == writechar(Terminal, c)
<1>2. Terminal' = [screen |-> u.screen, row |-> u.row, col |-> u.col]
  BY DEF Echo, Becomes, Terminal
<1> HIDE DEF u
<1>3. u \in Terminals
  BY <1>1 DEF u
<1>4. Terminal' = u
  BY <1>2, <1>3 DEF Terminals
<1> QED BY <1>3, <1>4 DEF ScreenTyped, u, Terminals, Cells, Glyphs, Keys

LineInv == LineTyped /\ ScreenTyped /\ LineShown

LEMMA NoLine == <<>> \in Seq(Keys) /\ <<>> \in Seq(Glyphs) /\ Len(<<>>) < MaxLine
<1>1. Len(<<>>) = 0 /\ MaxLine \in Nat /\ 0 < MaxLine
  BY LineAssumption
<1> QED BY <1>1

(* The line goes on, or the call is over. *)
LEMMA CollectFacts ==
  ASSUME NEW l \in Seq(Keys), NEW off \in BOOLEAN, NEW ended \in BOOLEAN,
         LineTyped, Collect(l, ended, off)
  PROVE  /\ LineTyped'
         /\ \/ pc' = "user"
            \/ pc' = "line" /\ kbuf' = l /\ before' = before /\ (stuck' <=> stuck \/ off)
<1>1. MaxLine \in Nat /\ MaxLine > 1 /\ Len(l) \in Nat
  BY LineAssumption
<1>2. CASE ended \/ Len(l) >= MaxLine - 1
  <2>1. pc' = "user" /\ kbuf' = <<>> /\ before' = <<>> /\ stuck' = FALSE
    BY <1>2 DEF Collect
  <2> QED BY <2>1, NoLine DEF LineTyped, Keys, Glyphs
<1>3. CASE ~(ended \/ Len(l) >= MaxLine - 1)
  <2>1. pc' = "line" /\ kbuf' = l /\ before' = before /\ stuck' = (stuck \/ off)
    BY <1>3 DEF Collect
  <2>2. Len(l) < MaxLine
    BY <1>1, <1>3
  <2>3. stuck' \in BOOLEAN /\ (stuck' <=> stuck \/ off)
    BY <2>1
  <2> QED BY <2>1, <2>2, <2>3 DEF LineTyped, Keys, Glyphs
<1> QED BY <1>2, <1>3

LEMMA ShownPrime ==
  ASSUME (pc' \in {"drain", "line"} /\ ~stuck') => Shows(Terminal', before' \o kbuf')
  PROVE  LineShown'
  BY DEF LineShown, Shows, At

LEMMA FrameKeeps ==
  ASSUME LineInv, UNCHANGED <<pc, kbuf, terminal, ghosts>>
  PROVE  LineInv'
<1>1. /\ Terminal' = Terminal /\ pc' = pc /\ kbuf' = kbuf /\ before' = before
      /\ stuck' = stuck
  BY DEF terminal, ghosts, Terminal
<1>2. LineTyped'
  BY <1>1 DEF LineInv, LineTyped, Keys, Glyphs
<1>3. ScreenTyped'
  BY <1>1 DEF LineInv, ScreenTyped, Terminals, Cells, Glyphs, Keys
<1>4. LineShown'
  BY <1>1, ShownPrime DEF LineInv, LineShown
<1> QED BY <1>2, <1>3, <1>4 DEF LineInv

LEMMA LineInit == Init => LineInv
<1> SUFFICES ASSUME Init PROVE LineInv
  OBVIOUS
<1>1. LineTyped
  BY NoLine DEF Init, LineTyped
<1>2. ScreenTyped
  BY ScreenFacts DEF Init, ScreenTyped, Terminal, Terminals, Glyphs
<1> QED BY <1>1, <1>2 DEF LineInv, LineShown, Init

LEMMA ReadlineKeeps ==
  ASSUME LineInv, readline
  PROVE  LineInv'
<1> DEFINE k == row * Width + col
           b == [i \in 1 .. k |-> screen[i - 1]]
<1>1. k \in Nat /\ k \in Cells /\ screen \in [Cells -> Glyphs] /\ At(Terminal) = k
  <2>1. /\ At(Terminal) \in Cells /\ At(Terminal) \in Nat
        /\ Terminal.screen \in [Cells -> Glyphs]
    BY AtFacts DEF LineInv, ScreenTyped
  <2> QED BY <2>1 DEF At, Terminal
<1> HIDE DEF k
<1>2. b \in Seq(Glyphs) /\ Len(b) = k
  <2>1. \A i \in 1 .. k : i - 1 \in Cells
    BY <1>1, ScreenFacts
  <2> QED BY <1>1, <2>1
<1>3. pc' = "drain" /\ kbuf' = <<>> /\ before' = b /\ stuck' = FALSE /\ Terminal' = Terminal
  BY DEF readline, terminal, Terminal, k
<1>4. LineTyped'
  BY <1>2, <1>3, NoLine DEF LineTyped, Glyphs, Keys
<1>5. ScreenTyped'
  BY <1>3 DEF LineInv, ScreenTyped, Terminals, Cells, Glyphs, Keys
<1>6. b \o <<>> = b
  BY <1>2, ConcatEmptySeq
<1>7. Shows(Terminal, b)
  <2>1. ASSUME NEW j \in 0 .. (k - 1) PROVE screen[k - 1 - j] = b[k - j]
    <3>1. k - j \in 1 .. k /\ k - j - 1 = k - 1 - j
      BY <1>1
    <3> QED BY <3>1
  <2>2. Terminal.screen = screen
    BY DEF Terminal
  <2> HIDE DEF b
  <2> QED BY <1>1, <1>2, <2>1, <2>2 DEF Shows
<1>8. LineShown'
  <2> HIDE DEF b
  <2>1. Shows(Terminal', before' \o kbuf')
    BY <1>3, <1>6, <1>7
  <2> QED BY <2>1, ShownPrime
<1> QED BY <1>4, <1>5, <1>8 DEF LineInv

LEMMA DrainKeeps ==
  ASSUME LineInv, drain
  PROVE  LineInv'
<1> USE DEF LineInv
<1>1. PICK c \in Keys \cup {NUL} :
        /\ pc = "drain"
        /\ \/ c = CR /\ UNCHANGED <<pc, kbuf, terminal, ghosts>>
           \/ c = NUL /\ Collect(<<>>, FALSE, FALSE) /\ UNCHANGED terminal
           \/ c \notin {NUL, CR} /\ Collect(<<c>>, FALSE, c = BS) /\ Echo(c)
  BY DEF drain
<1>2. kbuf = <<>> /\ before \in Seq(Glyphs)
  BY <1>1 DEF LineTyped
<1>3. CASE UNCHANGED <<pc, kbuf, terminal, ghosts>>
  BY <1>3, FrameKeeps
<1>4. CASE Collect(<<>>, FALSE, FALSE) /\ UNCHANGED terminal
  <2>1. <<>> \in Seq(Keys)
    OBVIOUS
  <2>2. /\ LineTyped'
        /\ \/ pc' = "user"
           \/ pc' = "line" /\ kbuf' = <<>> /\ before' = before /\ (stuck' <=> stuck \/ FALSE)
    BY <1>4, <2>1, CollectFacts
  <2>3. Terminal' = Terminal
    BY <1>4 DEF terminal, Terminal
  <2>4. ScreenTyped'
    BY <2>3 DEF ScreenTyped, Terminals, Cells, Glyphs, Keys
  <2>5. LineShown'
    BY <1>1, <1>2, <2>2, <2>3, ShownPrime DEF LineShown
  <2> QED BY <2>2, <2>4, <2>5
<1>5. CASE c \notin {NUL, CR} /\ Collect(<<c>>, FALSE, c = BS) /\ Echo(c)
  <2>1. <<c>> \in Seq(Keys) /\ c \in Keys /\ c \in Glyphs /\ c # LF
    BY <1>5 DEF Glyphs, Keys, LF, BS, CR, NUL
  <2>2. /\ LineTyped'
        /\ \/ pc' = "user"
           \/ /\ pc' = "line" /\ kbuf' = <<c>> /\ before' = before
              /\ (stuck' <=> stuck \/ (c = BS))
    BY <1>5, <2>1, CollectFacts
  <2>3. ScreenTyped' /\ Terminal' = writechar(Terminal, c)
    BY <1>5, <2>1, EchoTyped
  <2>4. LineShown'
    <3>1. SUFFICES ASSUME pc' \in {"drain", "line"}, ~stuck'
                   PROVE  Shows(Terminal', before' \o kbuf')
      BY ShownPrime
    <3>2. c # BS /\ ~stuck /\ kbuf' = <<c>> /\ before' = before
      BY <2>2, <3>1
    <3>3. Shows(Terminal, before \o <<>>)
      BY <1>1, <1>2, <3>2 DEF LineShown
    <3>4. Shows(writechar(Terminal, c), before \o Append(<<>>, c))
      BY <1>2, <2>1, <3>2, <3>3, NoLine, ShowsWritten DEF ScreenTyped
    <3>5. Append(<<>>, c) = <<c>>
      OBVIOUS
    <3> QED BY <2>3, <3>2, <3>4, <3>5
  <2> QED BY <2>2, <2>3, <2>4
<1> QED BY <1>1, <1>3, <1>4, <1>5

LEMMA LineKeeps ==
  ASSUME LineInv, line
  PROVE  LineInv'
<1> USE DEF LineInv
<1>1. PICK c \in Keys \cup {NUL} :
        /\ pc = "line"
        /\ \/ UNCHANGED <<pc, kbuf, terminal, ghosts>>
           \/ c = BS /\ kbuf # <<>> /\ Collect(Front(kbuf), FALSE, col = 0) /\ Echo(BS)
           \/ /\ c \notin {NUL, BS} /\ Collect(Append(kbuf, c), c = CR, FALSE)
              /\ Echo(IF c = CR THEN LF ELSE c)
  BY DEF line
<1>2. kbuf \in Seq(Keys) /\ before \in Seq(Glyphs)
  BY DEF LineTyped
<1>3. CASE UNCHANGED <<pc, kbuf, terminal, ghosts>>
  BY <1>3, FrameKeeps
<1>4. CASE kbuf # <<>> /\ Collect(Front(kbuf), FALSE, col = 0) /\ Echo(BS)
  <2>1. Front(kbuf) \in Seq(Keys)
    BY <1>2, <1>4, FrontFacts
  <2>2. /\ LineTyped'
        /\ \/ pc' = "user"
           \/ /\ pc' = "line" /\ kbuf' = Front(kbuf) /\ before' = before
              /\ (stuck' <=> stuck \/ (col = 0))
    BY <1>4, <2>1, CollectFacts
  <2>3. ScreenTyped' /\ Terminal' = writechar(Terminal, BS)
    BY <1>4, EchoTyped DEF Glyphs, Keys
  <2>4. LineShown'
    <3>1. SUFFICES ASSUME pc' \in {"drain", "line"}, ~stuck'
                   PROVE  Shows(Terminal', before' \o kbuf')
      BY ShownPrime
    <3>2. col # 0 /\ ~stuck /\ kbuf' = Front(kbuf) /\ before' = before
      BY <2>2, <3>1
    <3>3. Terminal.col > 0
      BY <3>2, ScreenFacts DEF ScreenTyped, Terminals, Terminal
    <3>4. Shows(Terminal, before \o kbuf)
      BY <1>1, <3>2 DEF LineShown
    <3>5. Shows(writechar(Terminal, BS), before \o Front(kbuf))
      BY <1>2, <1>4, <3>3, <3>4, ShowsErased DEF ScreenTyped
    <3> QED BY <2>3, <3>2, <3>5
  <2> QED BY <2>2, <2>3, <2>4
<1>5. CASE c \notin {NUL, BS} /\ Collect(Append(kbuf, c), c = CR, FALSE)
           /\ Echo(IF c = CR THEN LF ELSE c)
  <2>1. c \in Keys /\ c \in Glyphs /\ c # LF /\ Append(kbuf, c) \in Seq(Keys)
    BY <1>2, <1>5 DEF Glyphs, Keys, LF, BS, CR, NUL
  <2>2. /\ LineTyped'
        /\ \/ pc' = "user"
           \/ /\ pc' = "line" /\ kbuf' = Append(kbuf, c) /\ before' = before
              /\ (stuck' <=> stuck \/ FALSE)
    BY <1>5, <2>1, CollectFacts
  <2>3. CASE c = CR
    <3>1. pc' = "user"
      BY <1>5, <2>3 DEF Collect
    <3>2. ScreenTyped'
      BY <1>5, <2>3, EchoTyped
    <3>3. LineShown'
      BY <3>1 DEF LineShown
    <3> QED BY <2>2, <3>2, <3>3
  <2>4. CASE c # CR
    <3>1. ScreenTyped' /\ Terminal' = writechar(Terminal, c)
      BY <1>5, <2>1, <2>4, EchoTyped
    <3>2. LineShown'
      <4>1. SUFFICES ASSUME pc' \in {"drain", "line"}, ~stuck'
                     PROVE  Shows(Terminal', before' \o kbuf')
        BY ShownPrime
      <4>2. ~stuck /\ kbuf' = Append(kbuf, c) /\ before' = before
        BY <2>2, <4>1
      <4>3. Shows(Terminal, before \o kbuf)
        BY <1>1, <4>2 DEF LineShown
      <4>4. Shows(writechar(Terminal, c), before \o Append(kbuf, c))
        BY <1>2, <1>5, <2>1, <4>3, ShowsWritten DEF ScreenTyped
      <4> QED BY <3>1, <4>2, <4>4
    <3> QED BY <2>2, <3>1, <3>2
  <2> QED BY <2>3, <2>4
<1> QED BY <1>1, <1>3, <1>4, <1>5

LEMMA PrintKeeps ==
  ASSUME LineInv, print
  PROVE  LineInv'
<1> USE DEF LineInv
<1>1. PICK s \in Output : Becomes(Printed(Terminal, s))
  BY DEF print
<1>2. pc = "user" /\ UNCHANGED <<pc, kbuf, ghosts>>
  BY DEF print
<1> DEFINE u == Printed(Terminal, s)
<1>3. u \in Terminals
  BY PrintedTyped, OutputAssumption DEF ScreenTyped
<1>4. Terminal' = [screen |-> u.screen, row |-> u.row, col |-> u.col]
  BY <1>1 DEF Becomes, Terminal
<1> HIDE DEF u
<1>5. Terminal' = u
  BY <1>3, <1>4 DEF Terminals
<1>6. ScreenTyped'
  BY <1>3, <1>5 DEF ScreenTyped, Terminals, Cells, Glyphs, Keys
<1>7. LineTyped' /\ LineShown'
  BY <1>2 DEF LineTyped, LineShown, ghosts
<1> QED BY <1>6, <1>7

LEMMA LineNext == LineInv /\ [Next]_vars => LineInv'
<1> SUFFICES ASSUME LineInv, [Next]_vars PROVE LineInv'
  OBVIOUS
<1>1. CASE (\E s \in 0 .. 2 * HighBit - 1 : key(s)) \/ fork \/ exit \/ timer \/ UNCHANGED vars
  <2>1. UNCHANGED <<pc, kbuf, terminal, ghosts>>
    BY <1>1 DEF key, fork, exit, timer, vars
  <2> QED BY <2>1, FrameKeeps
<1> QED BY <1>1, ReadlineKeeps, DrainKeeps, LineKeeps, PrintKeeps DEF Next

(***************************************************************************)
(* The kernel's data stay in their ranges: the cursor never leaves the     *)
(* screen, however long the strings that are printed and the lines that    *)
(* are typed, and the line never outgrows the buffer it is collected in.   *)
(***************************************************************************)
THEOREM ConsoleTyped == Spec => []TypeOK
<1>1. KeysInv /\ LineInv => TypeOK
  <2> SUFFICES ASSUME KeysInv, LineInv PROVE TypeOK
    OBVIOUS
  <2>1. screen \in [Cells -> Glyphs] /\ row \in 0 .. Height - 1 /\ col \in 0 .. Width - 1
    BY DEF LineInv, ScreenTyped, Terminal, Terminals
  <2> QED BY <2>1 DEF KeysInv, KeysTyped, LineInv, LineTyped, TypeOK
<1> QED BY <1>1, KeysInit, KeysNext, LineInit, LineNext, PTL DEF Spec

(***************************************************************************)
(* While sys_readline collects a line, terminal_writechar has put on the   *)
(* screen what the program will get, over the end of a row and through a   *)
(* scroll, for every size of the screen and of the line, unless a          *)
(* backspace came at column 0 or first of all.                             *)
(***************************************************************************)
THEOREM ConsoleScreenShowsLine == Spec => []ScreenShowsLine
<1>1. LineInv => ScreenShowsLine
  BY DEF LineInv, LineShown, Shows, At, Terminal, ScreenShowsLine
<1> QED BY <1>1, LineInit, LineNext, PTL DEF Spec
=============================================================================
