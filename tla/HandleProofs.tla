---------------------------- MODULE HandleProofs ----------------------------
(***************************************************************************)
(* No handle word is returned twice, and a stale handle resolves to        *)
(* nothing, for any number of objects, slots and epochs.                   *)
(***************************************************************************)
EXTENDS SlotProofs

-------------------------------------------------------------------------------
(* Arithmetic of tokens. *)

\* A product with a positive factor is at least the other factor.
LEMMA Multiple ==
    ASSUME NEW b \in Nat, NEW d \in Int, d >= 1
    PROVE  b * d >= b
  OBVIOUS

\* Quotient and remainder are unique.
LEMMA DivUnique ==
    ASSUME NEW b \in Nat, b > 0, NEW x \in Int, NEW q \in Int, NEW r \in 0 .. b - 1,
           x = b * q + r
    PROVE  x \div b = q /\ x % b = r
<1> DEFINE p == x \div b
           s == x % b
<1>1. p \in Int /\ s \in 0 .. b - 1 /\ x = b * p + s
  OBVIOUS
<1> HIDE DEF p, s
<1>2. b * (p - q) = r - s /\ b * (q - p) = s - r
  BY <1>1
<1>3. p = q
  <2>1. CASE p - q >= 1
    <3>1. b * (p - q) >= b
      BY <1>1, <2>1, Multiple
    <3> QED
      BY <1>1, <1>2, <3>1
  <2>2. CASE q - p >= 1
    <3>1. b * (q - p) >= b
      BY <1>1, <2>2, Multiple
    <3> QED
      BY <1>1, <1>2, <3>1
  <2> QED
    BY <1>1, <2>1, <2>2
<1>4. s = r
  BY <1>1, <1>3
<1> QED
  BY <1>3, <1>4 DEF p, s

\* The constants of the encoding.
LEMMA HandleConstants ==
    /\ MaxEpoch \in Nat /\ MaxEpoch > 0
    /\ Multipliers \subseteq 1 .. MaxEpoch /\ Addends \subseteq 0 .. MaxEpoch - 1
    /\ \A m \in Multipliers, k \in 1 .. MaxEpoch - 1 : (k * m) % MaxEpoch # 0
    /\ FamilySpan \in Nat /\ Family \in 1 .. FamilySpan - 1
    /\ ShiftSpan \in Nat /\ ShiftSpan > MaxEpoch * FamilySpan + Family
<1>1. MaxEpoch \in Nat \ {0}
  BY PublicSlotConstants, Zenon
<1>2. /\ Multipliers \subseteq 1 .. MaxEpoch /\ Addends \subseteq 0 .. MaxEpoch - 1
      /\ \A m \in Multipliers, k \in 1 .. MaxEpoch - 1 : (k * m) % MaxEpoch # 0
      /\ FamilySpan \in Nat /\ Family \in 1 .. FamilySpan - 1
      /\ ShiftSpan \in Nat /\ ShiftSpan > MaxEpoch * FamilySpan + Family
  BY PublicSlotConstants, Zenon
<1>3. MaxEpoch \in Nat /\ MaxEpoch > 0
  BY <1>1
<1> QED
  BY <1>2, <1>3, Zenon

\* The token and the generation of a slot in its n-th epoch.
Token(e, n) == ((e.addend + (n - 1) * e.multiplier) % MaxEpoch) + 1
Generation(e, n) == FamilyGeneration(Token(e, n))

\* One affine step, by a conditional subtraction, is a step modulo N.
LEMMA AffineStep ==
    ASSUME NEW N \in Nat, N > 0, NEW m \in 1 .. N, NEW x \in Int
    PROVE  (x + m) % N = IF (x % N) + m >= N THEN (x % N) + m - N ELSE (x % N) + m
<1> DEFINE q == x \div N
           r == x % N
           y == x + m
<1>1. q \in Int /\ r \in 0 .. N - 1 /\ x = N * q + r /\ y \in Int
  OBVIOUS
<1>2. y = N * q + (r + m) /\ y = N * (q + 1) + (r + m - N)
  <2>1. x = N * q + r /\ q \in Int /\ r \in Int
    BY <1>1
  <2> HIDE DEF q, r
  <2> QED
    BY <2>1
<1> HIDE DEF q, r, y
<1>3. CASE r + m >= N
  <2> DEFINE q1 == q + 1
             r1 == r + m - N
  <2>1. r1 \in 0 .. N - 1 /\ q1 \in Int /\ y = N * q1 + r1
    BY <1>1, <1>2, <1>3
  <2>2. y % N = r1
    <3> HIDE DEF q1, r1
    <3> QED
      BY <1>1, <2>1, DivUnique
  <2> QED
    BY <1>3, <2>2 DEF y, r
<1>4. CASE ~(r + m >= N)
  <2> DEFINE r1 == r + m
  <2>1. r1 \in 0 .. N - 1 /\ y = N * q + r1
    BY <1>1, <1>2, <1>4
  <2>2. y % N = r1
    <3> HIDE DEF r1
    <3> QED
      BY <1>1, <2>1, DivUnique
  <2> QED
    BY <1>4, <2>2 DEF y, r
<1> QED
  BY <1>3, <1>4

\* The tokens of one ring of epochs differ.
LEMMA AffineInjective ==
    ASSUME NEW N \in Nat, N > 0, NEW m \in Int, NEW a \in Int,
           \A k \in 1 .. N - 1 : (k * m) % N # 0,
           NEW i \in 1 .. N, NEW j \in 1 .. N, i < j
    PROVE  (a + (i - 1) * m) % N # (a + (j - 1) * m) % N
<1> DEFINE x == a + (i - 1) * m
           y == a + (j - 1) * m
           k == j - i
<1>1. x \in Int /\ y \in Int /\ k \in 1 .. N - 1 /\ y - x = k * m
  OBVIOUS
<1> SUFFICES ASSUME x % N = y % N PROVE FALSE
  OBVIOUS
<1> HIDE DEF x, y, k
<1> DEFINE p == x \div N
           q == y \div N
           r == x % N
<1>2. p \in Int /\ q \in Int /\ r \in Int /\ x = N * p + r /\ y = N * q + r
  BY <1>1
<1> HIDE DEF p, q, r
<1>3. k * m = N * (q - p) + 0
  BY <1>1, <1>2
<1>4. (k * m) % N = 0
  <2>1. q - p \in Int /\ 0 \in 0 .. N - 1 /\ k * m \in Int
    BY <1>1, <1>2
  <2> QED
    BY <1>3, <2>1, DivUnique
<1> QED
  BY <1>1, <1>4

\* A token is one of the ring, and its generation has the token in its high
\* part and fits a handle word.
LEMMA GenerationRange ==
    ASSUME NEW k \in 1 .. MaxEpoch
    PROVE  /\ FamilyGeneration(k) \in 1 .. ShiftSpan - 1
           /\ FamilyGeneration(k) \div FamilySpan = k
<1>1. /\ MaxEpoch \in Nat /\ k \in Nat /\ k <= MaxEpoch
      /\ FamilySpan \in Nat /\ FamilySpan > 0 /\ Family \in 0 .. FamilySpan - 1
      /\ Family >= 1 /\ ShiftSpan \in Nat /\ ShiftSpan > MaxEpoch * FamilySpan + Family
  BY HandleConstants
<1>2. k * FamilySpan <= MaxEpoch * FamilySpan /\ k * FamilySpan >= 0
  <2>1. MaxEpoch * FamilySpan - k * FamilySpan = (MaxEpoch - k) * FamilySpan
    BY <1>1
  <2>2. (MaxEpoch - k) * FamilySpan >= 0 /\ k * FamilySpan >= 0
    <3>1. \A b, d \in Nat : b * d >= 0
      OBVIOUS
    <3>2. MaxEpoch - k \in Nat
      BY <1>1
    <3> QED
      BY <1>1, <3>1, <3>2
  <2> QED
    BY <1>1, <2>1, <2>2
<1> DEFINE g == FamilyGeneration(k)
<1>3. g \in Int /\ g = FamilySpan * k + Family
  BY <1>1 DEF FamilyGeneration
<1>4. g \div FamilySpan = k
  <2> HIDE DEF g
  <2> QED
    BY <1>1, <1>3, DivUnique
<1>5. g >= 1 /\ g < ShiftSpan
  BY <1>1, <1>2 DEF FamilyGeneration
<1> QED
  BY <1>1, <1>3, <1>4, <1>5

\* A handle word decodes to its slot and its generation.
LEMMA DecodeEncode ==
    ASSUME NEW s \in Int, NEW g \in 0 .. ShiftSpan - 1
    PROVE  /\ DecodeHandle(EncodeHandle(s, g)).slot = s
           /\ DecodeHandle(EncodeHandle(s, g)).generation = g
<1> DEFINE w == EncodeHandle(s, g)
<1>1. ShiftSpan \in Nat /\ ShiftSpan > 0 /\ g \in Int
  BY HandleConstants
<1>2. w \in Int /\ w = ShiftSpan * s + g
  BY <1>1 DEF EncodeHandle
<1> HIDE DEF w
<1>3. w \div ShiftSpan = s /\ w % ShiftSpan = g
  BY <1>1, <1>2, DivUnique
<1> QED
  BY <1>3 DEF DecodeHandle, w

\* So two words are equal only if slot and generation are.
LEMMA EncodeInjective ==
    ASSUME NEW s \in Int, NEW t \in Int,
           NEW g \in 0 .. ShiftSpan - 1, NEW k \in 0 .. ShiftSpan - 1,
           EncodeHandle(s, g) = EncodeHandle(t, k)
    PROVE  s = t /\ g = k
<1>1. /\ DecodeHandle(EncodeHandle(s, g)).slot = s
      /\ DecodeHandle(EncodeHandle(s, g)).generation = g
  BY DecodeEncode
<1>2. /\ DecodeHandle(EncodeHandle(t, k)).slot = t
      /\ DecodeHandle(EncodeHandle(t, k)).generation = k
  BY DecodeEncode
<1> QED
  BY <1>1, <1>2

-------------------------------------------------------------------------------
(* Entries of the slot table. *)

\* The generation of a slot is the one of its epoch.
Good(e) == e.epoch \in 1 .. MaxEpoch /\ e.generation = Generation(e, e.epoch)

AllGood(tbl) == \A x \in 1 .. Len(tbl) : Good(tbl[x])

\* What reuse of a slot may do to its entry.
Advanced(e, f) ==
    f.multiplier = e.multiplier /\ f.addend = e.addend /\ f.epoch >= e.epoch

\* The fields of an entry.
LEMMA EntryFields ==
    ASSUME NEW e \in SlotEntry
    PROVE  /\ e.multiplier \in Multipliers /\ e.multiplier \in 1 .. MaxEpoch
           /\ e.addend \in 0 .. MaxEpoch - 1 /\ e.epoch \in Int
  BY HandleConstants, Zenon DEF SlotEntry

\* A token is one of the ring.
LEMMA TokenRange ==
    ASSUME NEW e \in SlotEntry, NEW n \in Int
    PROVE  Token(e, n) \in 1 .. MaxEpoch
<1> DEFINE x == e.addend + (n - 1) * e.multiplier
<1>1. x \in Int /\ MaxEpoch \in Nat /\ MaxEpoch > 0
  BY EntryFields, HandleConstants
<1> HIDE DEF x
<1>2. x % MaxEpoch \in 0 .. MaxEpoch - 1
  BY <1>1
<1> QED
  BY <1>1, <1>2 DEF Token, x

\* The generations of one slot differ from epoch to epoch.
LEMMA GenerationInjective ==
    ASSUME NEW e \in SlotEntry, NEW i \in 1 .. MaxEpoch, NEW j \in 1 .. MaxEpoch,
           Generation(e, i) = Generation(e, j)
    PROVE  i = j
<1>1. Token(e, i) \in 1 .. MaxEpoch /\ Token(e, j) \in 1 .. MaxEpoch
  BY TokenRange, HandleConstants
<1>2. Token(e, i) = Token(e, j)
  BY <1>1, GenerationRange DEF Generation
<1> DEFINE x == (e.addend + (i - 1) * e.multiplier) % MaxEpoch
           y == (e.addend + (j - 1) * e.multiplier) % MaxEpoch
<1>3. x = y
  <2>1. x + 1 = y + 1
    BY <1>2 DEF Token
  <2>2. x \in Int /\ y \in Int
    BY EntryFields, HandleConstants
  <2> HIDE DEF x, y
  <2> QED
    BY <2>1, <2>2
<1>4. /\ MaxEpoch \in Nat /\ MaxEpoch > 0 /\ e.multiplier \in Int /\ e.addend \in Int
      /\ \A k \in 1 .. MaxEpoch - 1 : (k * e.multiplier) % MaxEpoch # 0
  BY EntryFields, HandleConstants
<1>5. ~(i < j)
  BY <1>3, <1>4, AffineInjective, Zenon
<1>6. ~(j < i)
  BY <1>3, <1>4, AffineInjective, Zenon
<1> QED
  BY <1>4, <1>5, <1>6

\* The next generation of a slot is that of its next epoch.
LEMMA RefreshGood ==
    ASSUME NEW e \in SlotEntry, e.epoch < MaxEpoch,
           Good(e) \/ (e.epoch = 0 /\ e.generation = 0),
           NEW f, f = RefreshFamilyGeneration(e)
    PROVE  /\ Good(f) /\ f.epoch = e.epoch + 1
           /\ f.multiplier = e.multiplier /\ f.addend = e.addend
<1> DEFINE n == e.epoch
           N == MaxEpoch
           m == e.multiplier
           a == e.addend
           g == FamilyGeneration(NextAffineToken(e))
<1>1. f = [[e EXCEPT !.epoch = n + 1] EXCEPT !.generation = g]
  BY DEF RefreshFamilyGeneration
<1>2. N \in Nat /\ N > 0 /\ m \in 1 .. N /\ a \in 0 .. N - 1 /\ n \in Int
  BY EntryFields, HandleConstants
<1>3. NextAffineToken(e) = ((a + n * m) % N) + 1
  <2>1. CASE Good(e)
    <3>1. Token(e, n) \in 1 .. N /\ e.generation = FamilyGeneration(Token(e, n))
      BY <1>2, <2>1, TokenRange DEF Good, Generation
    <3>2. e.generation # 0 /\ e.generation \div FamilySpan = Token(e, n)
      BY <3>1, GenerationRange
    <3> DEFINE x == a + (n - 1) * m
               y == x % N
               z == y + m
    <3>3. Token(e, n) - 1 + m = z
      <4>1. y \in Int /\ Token(e, n) = y + 1
        BY <1>2 DEF Token
      <4> HIDE DEF y
      <4> QED
        BY <1>2, <4>1
    <3>4. (a + n * m) % N = IF z >= N THEN z - N ELSE z
      <4>1. x \in Int /\ a + n * m = x + m
        BY <1>2
      <4> HIDE DEF x
      <4>2. (x + m) % N = IF (x % N) + m >= N THEN (x % N) + m - N ELSE (x % N) + m
        BY <1>2, <4>1, AffineStep, Zenon
      <4>3. (x + m) % N = IF z >= N THEN z - N ELSE z
        BY <1>2, <4>1, <4>2
      <4>4. (a + n * m) % N = (x + m) % N
        BY <4>1
      <4> HIDE DEF z
      <4> QED
        BY <4>3, <4>4
    <3> HIDE DEF y, z
    <3>5. NextAffineToken(e) = (IF z >= N THEN z - N ELSE z) + 1
      BY <3>2, <3>3 DEF NextAffineToken
    <3> QED
      BY <3>4, <3>5
  <2>2. CASE e.epoch = 0 /\ e.generation = 0
    <3>1. NextAffineToken(e) = a + 1
      BY <2>2 DEF NextAffineToken
    <3>2. a + n * m = a /\ a = N * 0 + a /\ 0 \in Int /\ a \in Int
      BY <1>2, <2>2
    <3>3. a % N = a
      BY <1>2, <3>2, DivUnique, Zenon
    <3> QED
      BY <3>1, <3>2, <3>3
  <2> QED
    BY <2>1, <2>2
<1> HIDE DEF g
<1>4. /\ f.epoch = n + 1 /\ f.generation = g
      /\ f.multiplier = m /\ f.addend = a
  BY <1>1 DEF SlotEntry
<1>5. Token(f, n + 1) = ((a + n * m) % N) + 1
  <2>1. (n + 1) - 1 = n
    BY <1>2
  <2> QED
    BY <1>4, <2>1 DEF Token
<1>6. g = Generation(f, f.epoch)
  BY <1>3, <1>4, <1>5 DEF g, Generation
<1>7. n + 1 \in 1 .. N
  BY <1>2 DEF Good
<1> QED
  BY <1>4, <1>6, <1>7 DEF Good

\* A reservation advances the epoch of the slot it takes, and no other.
LEMMA ReserveEntries ==
    ASSUME NEW tbl, NEW list, NEW o \in Objects,
           NEW m \in Multipliers, NEW a \in Addends,
           TableTypes(tbl, list), Frees(tbl, list), AllGood(tbl),
           NEW r, r = Reserve(tbl, list, o, m, a)
    PROVE  /\ AllGood(r.slots)
           /\ \A x \in 1 .. Len(tbl) :
                /\ Advanced(tbl[x], r.slots[x])
                /\ x = r.slot => r.slots[x].epoch > tbl[x].epoch
<1>0. /\ tbl \in Seq(SlotEntry) /\ list \in Seq(1 .. Len(tbl))
      /\ Len(tbl) \in Nat /\ Len(list) \in Nat
  BY LenProperties DEF TableTypes
<1>a. \A x \in 1 .. Len(tbl) : tbl[x] \in SlotEntry /\ tbl[x].epoch \in Int
  BY <1>0, ElementOfSeq, EntryFields
<1>1. CASE Usable(tbl, list) # {}
  <2> DEFINE i == CHOOSE x \in Usable(tbl, list) : \A j \in Usable(tbl, list) : x <= j
             k == list[i]
             f == RefreshFamilyGeneration(tbl[k])
             e == [f EXCEPT !.object = o]
             new == [tbl EXCEPT ![k] = e]
  <2>1. r.slot = k /\ r.slots = new
    BY <1>1 DEF Reserve
  <2>2. i \in Usable(tbl, list)
    BY <1>0, <1>1, FirstUsable
  <2> HIDE DEF i
  <2>3. i \in 1 .. Len(list) /\ ~Exhausted(tbl[k])
    BY <2>2 DEF Usable
  <2>4. k \in 1 .. Len(tbl)
    BY <1>0, <2>3, ElementOfSeq
  <2>5. tbl[k] \in SlotEntry /\ tbl[k].epoch < MaxEpoch /\ Good(tbl[k])
    BY <1>a, <2>3, <2>4, HandleConstants DEF Exhausted, AllGood
  <2>6. /\ Good(f) /\ f.epoch = tbl[k].epoch + 1
        /\ f.multiplier = tbl[k].multiplier /\ f.addend = tbl[k].addend
        /\ f \in SlotEntry
    BY <2>5, RefreshGood, RefreshEntry
  <2> HIDE DEF f, k
  <2>7. /\ e \in SlotEntry /\ e.epoch = f.epoch /\ e.generation = f.generation
        /\ e.multiplier = f.multiplier /\ e.addend = f.addend
    BY <2>6 DEF SlotEntry
  <2> HIDE DEF e
  <2>8. Good(e)
    BY <2>6, <2>7 DEF Good, Generation, Token
  <2>9. /\ Len(new) = Len(tbl)
        /\ \A x \in 1 .. Len(tbl) : new[x] = IF x = k THEN e ELSE tbl[x]
    BY <1>0, <2>4, <2>7, ExceptSeq
  <2> HIDE DEF new
  <2>10. AllGood(new)
    BY <2>8, <2>9 DEF AllGood
  <2>11. ASSUME NEW x \in 1 .. Len(tbl)
         PROVE  Advanced(tbl[x], new[x]) /\ (x = k => new[x].epoch > tbl[x].epoch)
    <3>1. CASE x = k
      <4>1. new[x] = e /\ e.epoch = tbl[x].epoch + 1 /\ tbl[x].epoch \in Int
        BY <1>a, <2>6, <2>7, <2>9, <3>1
      <4>2. e.multiplier = tbl[x].multiplier /\ e.addend = tbl[x].addend
        BY <2>6, <2>7, <3>1
      <4> QED
        BY <4>1, <4>2 DEF Advanced
    <3>2. CASE x # k
      BY <1>a, <2>9, <3>2 DEF Advanced
    <3> QED
      BY <3>1, <3>2
  <2> QED
    BY <2>1, <2>10, <2>11
<1>2. CASE Usable(tbl, list) = {} /\ Len(tbl) < MaxSlots
  <2> DEFINE e0 == [object |-> o, generation |-> 0, epoch |-> 0,
                    multiplier |-> m, addend |-> a]
             e == RefreshFamilyGeneration(e0)
             new == Append(tbl, e)
  <2>1. r.slot = Len(tbl) + 1 /\ r.slots = new
    BY <1>2 DEF Reserve
  <2>2. e0 \in SlotEntry /\ e0.epoch = 0 /\ e0.generation = 0
    BY DEF SlotEntry
  <2> HIDE DEF e0
  <2>3. e \in SlotEntry /\ Good(e)
    <3>1. e0.epoch < MaxEpoch
      BY <2>2, HandleConstants
    <3> QED
      BY <2>2, <3>1, RefreshGood, RefreshEntry
  <2> HIDE DEF e
  <2>4. /\ Len(new) = Len(tbl) + 1 /\ new[Len(tbl) + 1] = e
        /\ \A x \in 1 .. Len(tbl) : new[x] = tbl[x]
    BY <1>0, <2>3, AppendProperties
  <2> HIDE DEF new
  <2>5. ASSUME NEW x \in 1 .. Len(new) PROVE Good(new[x])
    <3>1. x \in 1 .. Len(tbl) \/ x = Len(tbl) + 1
      BY <1>0, <2>4
    <3> QED
      BY <2>3, <2>4, <3>1 DEF AllGood
  <2>6. \A x \in 1 .. Len(tbl) : x # Len(tbl) + 1 /\ Advanced(tbl[x], new[x])
    BY <1>0, <1>a, <2>4 DEF Advanced
  <2> QED
    BY <2>1, <2>5, <2>6 DEF AllGood
<1>3. CASE Usable(tbl, list) = {} /\ ~(Len(tbl) < MaxSlots)
  <2>1. r.slot = 0 /\ r.slots = tbl
    BY <1>3 DEF Reserve
  <2>2. \A x \in 1 .. Len(tbl) : x # 0 /\ Advanced(tbl[x], tbl[x])
    BY <1>0, <1>a DEF Advanced
  <2> QED
    BY <2>1, <2>2
<1> QED
  BY <1>1, <1>2, <1>3

-------------------------------------------------------------------------------
(* The handles that were returned. *)

\* A slot in use belongs to the object that names it.
Backs ==
    \A x \in 1 .. Len(slots) : slots[x].object # None =>
        /\ obj[slots[x].object].slot = x
        /\ obj[slots[x].object].live \/ taskFamily

\* A registered object, also a task between two spawns, carries the generation
\* of its slot.
Prepared ==
    \A o \in Objects : (obj[o].live \/ taskFamily) /\ obj[o].slot # 0 =>
        obj[o].generation = slots[obj[o].slot].generation

\* Handle h was returned for epoch n of slot x; if that is the slot's epoch
\* still, the slot is free or h's object is in the use h was returned for.
IssuedFor(h, x, n) ==
    /\ n \in 1 .. MaxEpoch /\ n <= slots[x].epoch
    /\ h.raw = EncodeHandle(x, Generation(slots[x], n))
    /\ n = slots[x].epoch /\ slots[x].object # None =>
         /\ slots[x].object = h.object
         /\ obj[h.object].live /\ obj[h.object].birth = h.birth

Issued(h) ==
    /\ h.object \in Objects
    /\ \E x \in 1 .. Len(slots), n \in Int : IssuedFor(h, x, n)

AllIssued == \A h \in handles : Issued(h)

TableInv == SlotInv /\ AllGood(slots) /\ Backs /\ Prepared

HandleInv == TableInv /\ AllIssued /\ HandlesUnique

\* A step that moves object o, in its slot or to another slot, and no other
\* object.  A slot that o comes to use has a later epoch, unless o is a task
\* that is spawned with the slot it has.
Moved(o) ==
    /\ \A p \in Objects : p # o => obj'[p] = obj[p]
    /\ \A x \in 1 .. Len(slots) :
         /\ x \in 1 .. Len(slots') /\ Advanced(slots[x], slots'[x])
         /\ slots[x].object \notin {o, None} => slots'[x] = slots[x]
    /\ \A x \in 1 .. Len(slots') : slots'[x].object # None =>
         \/ x \in 1 .. Len(slots) /\ slots'[x] = slots[x] /\ slots[x].object # o
         \/ /\ slots'[x].object = o /\ obj'[o].slot = x
            /\ obj'[o].live \/ taskFamily
            /\ x \in 1 .. Len(slots) /\ slots'[x].epoch <= slots[x].epoch =>
                 slots'[x].object = slots[x].object /\ ~obj[o].live
    /\ (obj'[o].live \/ taskFamily) /\ obj'[o].slot # 0 =>
         obj'[o].generation = slots'[obj'[o].slot].generation

\* The generation of an epoch is that of the slot's seal.
LEMMA SameSeal ==
    ASSUME NEW e, NEW f, Advanced(e, f), NEW n
    PROVE  Generation(f, n) = Generation(e, n)
  BY DEF Advanced, Generation, Token

\* The entries of a table, and the objects in them.
LEMMA Entries ==
    ASSUME SlotInv, AllGood(slots), NEW x \in 1 .. Len(slots)
    PROVE  /\ slots[x] \in SlotEntry /\ slots[x].object \in Objects \cup {None}
           /\ slots[x].epoch \in 1 .. MaxEpoch /\ slots[x].epoch \in Int
           /\ slots[x].generation = Generation(slots[x], slots[x].epoch)
<1>1. slots[x] \in SlotEntry
  BY ElementOfSeq DEF SlotInv, TableTypes
<1>2. Good(slots[x])
  BY DEF AllGood
<1> QED
  BY <1>1, <1>2 DEF Good, SlotEntry

\* Moving an object keeps its slot and its generation, and those of all others.
LEMMA MovedTable ==
    ASSUME TableInv, NEW o \in Objects, Moved(o), taskFamily' = taskFamily
    PROVE  Backs' /\ Prepared'
<1>0. SlotInv /\ AllGood(slots) /\ Backs /\ Prepared /\ Owns
  BY DEF TableInv, SlotInv
<1>1. ASSUME NEW x \in 1 .. Len(slots'), slots'[x].object # None
      PROVE  /\ obj'[slots'[x].object].slot = x
             /\ obj'[slots'[x].object].live \/ taskFamily
  <2>1. CASE x \in 1 .. Len(slots) /\ slots'[x] = slots[x] /\ slots[x].object # o
    <3>1. slots[x].object \in Objects /\ slots[x].object # o
      BY <1>0, <1>1, <2>1, Entries
    <3>2. obj'[slots[x].object] = obj[slots[x].object]
      BY <3>1 DEF Moved
    <3> QED
      BY <1>0, <1>1, <2>1, <3>2 DEF Backs
  <2>2. CASE slots'[x].object = o /\ obj'[o].slot = x /\ (obj'[o].live \/ taskFamily)
    BY <2>2
  <2> QED
    BY <1>1, <2>1, <2>2 DEF Moved
<1>2. ASSUME NEW p \in Objects, (obj'[p].live \/ taskFamily) /\ obj'[p].slot # 0
      PROVE  obj'[p].generation = slots'[obj'[p].slot].generation
  <2>1. CASE p = o
    BY <1>2, <2>1 DEF Moved
  <2>2. CASE p # o
    <3>1. obj'[p] = obj[p]
      BY <2>2 DEF Moved
    <3>2. obj[p].slot \in 1 .. Len(slots) /\ slots[obj[p].slot].object = p
      BY <1>0, <1>2, <3>1 DEF Owns
    <3>3. p \notin {o, None}
      BY <2>2, SlotConstants
    <3>4. slots'[obj[p].slot] = slots[obj[p].slot]
      BY <3>2, <3>3 DEF Moved
    <3> QED
      BY <1>0, <1>2, <3>1, <3>4 DEF Prepared
  <2> QED
    BY <2>1, <2>2
<1> QED
  BY <1>1, <1>2 DEF Backs, Prepared

\* Moving an object keeps what is known of a handle that was returned before.
LEMMA MovedIssued ==
    ASSUME TableInv, NEW o \in Objects, Moved(o), (SlotInv /\ AllGood(slots))',
           NEW h, Issued(h)
    PROVE  /\ h.object \in Objects
           /\ \E x \in 1 .. Len(slots'), n \in Int : IssuedFor(h, x, n)'
<1>0. SlotInv /\ AllGood(slots)
  BY DEF TableInv
<1>1. PICK x \in 1 .. Len(slots), n \in Int : IssuedFor(h, x, n)
  BY DEF Issued
<1>2. h.object \in Objects
  BY DEF Issued
<1>3. /\ n \in 1 .. MaxEpoch /\ n <= slots[x].epoch
      /\ h.raw = EncodeHandle(x, Generation(slots[x], n))
      /\ n = slots[x].epoch /\ slots[x].object # None =>
           /\ slots[x].object = h.object
           /\ obj[h.object].live /\ obj[h.object].birth = h.birth
  BY <1>1 DEF IssuedFor
<1>4. /\ x \in 1 .. Len(slots') /\ Advanced(slots[x], slots'[x])
  BY DEF Moved
<1>5. slots[x].epoch \in Int /\ slots[x].object \in Objects \cup {None}
  BY <1>0, Entries
<1>6. slots'[x].epoch \in Int
  BY <1>4, EntryFields, ElementOfSeq DEF SlotInv, TableTypes
<1>7. slots'[x].epoch >= slots[x].epoch
  BY <1>4 DEF Advanced
<1>8. h.raw = EncodeHandle(x, Generation(slots'[x], n))
  BY <1>3, <1>4, SameSeal
<1>9. ASSUME n = slots'[x].epoch, slots'[x].object # None
      PROVE  /\ slots'[x].object = h.object
             /\ obj'[h.object].live /\ obj'[h.object].birth = h.birth
  <2>1. n = slots[x].epoch /\ slots'[x].epoch <= slots[x].epoch
    BY <1>3, <1>5, <1>6, <1>7, <1>9
  <2>2. CASE slots'[x] = slots[x] /\ slots[x].object # o
    <3>1. h.object = slots[x].object /\ obj[h.object].live /\ obj[h.object].birth = h.birth
      BY <1>3, <1>9, <2>1, <2>2
    <3>2. obj'[h.object] = obj[h.object]
      BY <1>2, <2>2, <3>1 DEF Moved
    <3> QED
      BY <2>2, <3>1, <3>2
  <2>3. CASE slots'[x].object = o /\ slots'[x].object = slots[x].object /\ ~obj[o].live
    BY <1>3, <1>9, <2>1, <2>3
  <2> QED
    BY <1>4, <1>9, <2>1, <2>2, <2>3, Zenon DEF Moved
<1>10. n <= slots'[x].epoch
  BY <1>3, <1>5, <1>6, <1>7
<1>11. IssuedFor(h, x, n)'
  BY <1>3, <1>8, <1>9, <1>10, Zenon DEF IssuedFor
<1> QED
  BY <1>2, <1>4, <1>11

\* A handle word that names the generation of a slot was returned for the
\* slot's epoch.
LEMMA SameWord ==
    ASSUME SlotInv, AllGood(slots), NEW h, Issued(h),
           NEW y \in Int, NEW f \in SlotEntry, Good(f),
           y \in 1 .. Len(slots) => Advanced(slots[y], f),
           h.raw = EncodeHandle(y, f.generation)
    PROVE  /\ y \in 1 .. Len(slots) /\ f.epoch <= slots[y].epoch
           /\ f.epoch = slots[y].epoch /\ slots[y].object # None =>
                /\ slots[y].object = h.object
                /\ obj[h.object].live /\ obj[h.object].birth = h.birth
<1>1. PICK x \in 1 .. Len(slots), n \in Int : IssuedFor(h, x, n)
  BY DEF Issued
<1>2. /\ n \in 1 .. MaxEpoch /\ n <= slots[x].epoch
      /\ h.raw = EncodeHandle(x, Generation(slots[x], n))
      /\ n = slots[x].epoch /\ slots[x].object # None =>
           /\ slots[x].object = h.object
           /\ obj[h.object].live /\ obj[h.object].birth = h.birth
  BY <1>1 DEF IssuedFor
<1>3. slots[x] \in SlotEntry /\ x \in Int
  BY Entries
<1>4. /\ Generation(slots[x], n) \in 0 .. ShiftSpan - 1
      /\ f.generation \in 0 .. ShiftSpan - 1
      /\ f.epoch \in 1 .. MaxEpoch /\ f.generation = Generation(f, f.epoch)
  <2>1. Token(slots[x], n) \in 1 .. MaxEpoch /\ Token(f, f.epoch) \in 1 .. MaxEpoch
    BY <1>3, TokenRange, EntryFields, Zenon
  <2> QED
    BY <2>1, GenerationRange DEF Good, Generation
<1>5. x = y /\ Generation(slots[x], n) = f.generation
  <2> DEFINE g == Generation(slots[x], n)
  <2>1. EncodeHandle(x, g) = EncodeHandle(y, f.generation)
    BY <1>2
  <2> HIDE DEF g
  <2> QED
    BY <1>3, <1>4, <2>1, EncodeInjective DEF g
<1>6. Generation(f, n) = Generation(f, f.epoch)
  BY <1>4, <1>5, SameSeal
<1>7. n = f.epoch
  BY <1>2, <1>4, <1>6, GenerationInjective
<1> QED
  BY <1>2, <1>5, <1>7

\* A step that moves one object and returns no handle keeps the invariant.
LEMMA NoNewHandle ==
    ASSUME HandleInv, SlotInv', AllGood(slots)', taskFamily' = taskFamily,
           NEW o \in Objects, Moved(o), handles' = handles
    PROVE  HandleInv'
<1>0. TableInv /\ AllIssued /\ HandlesUnique
  BY DEF HandleInv
<1>1. Backs' /\ Prepared'
  BY <1>0, MovedTable
<1>2. ASSUME NEW h \in handles'
      PROVE  /\ h.object \in Objects
             /\ \E x \in 1 .. Len(slots'), n \in Int : IssuedFor(h, x, n)'
  BY <1>0, <1>2, MovedIssued DEF AllIssued
<1>3. AllIssued'
  BY <1>2 DEF AllIssued, Issued
<1>4. HandlesUnique'
  BY <1>0 DEF HandlesUnique
<1> QED
  BY <1>1, <1>3, <1>4 DEF HandleInv, TableInv

\* A step that moves one object and returns a handle for it keeps the
\* invariant: the word was never returned before.
LEMMA NewHandle ==
    ASSUME HandleInv, SlotInv', AllGood(slots)', taskFamily' = taskFamily,
           NEW o \in Objects, Moved(o), ~obj[o].live,
           NEW y \in 1 .. Len(slots'), slots'[y].object = o, obj'[o].live,
           NEW g, g.raw = EncodeHandle(y, slots'[y].generation), g.object = o,
           g.birth = obj'[o].birth, handles' = handles \cup {g}
    PROVE  HandleInv'
<1>0. TableInv /\ AllIssued /\ HandlesUnique /\ SlotInv /\ AllGood(slots)
  BY DEF HandleInv, TableInv
<1>1. Backs' /\ Prepared'
  BY <1>0, MovedTable
<1> DEFINE f == slots'[y]
<1>2. f \in SlotEntry /\ Good(f) /\ y \in Int /\ o # None
  BY ElementOfSeq, SlotConstants DEF SlotInv, TableTypes, AllGood
<1>3. f.epoch \in 1 .. MaxEpoch /\ f.epoch \in Int /\ f.generation = Generation(f, f.epoch)
  BY <1>2, EntryFields DEF Good
<1>4. ASSUME NEW h \in handles, h.raw = g.raw PROVE FALSE
  <2>1. y \in 1 .. Len(slots) => Advanced(slots[y], f)
    BY DEF Moved
  <2>2. Issued(h) /\ h.raw = EncodeHandle(y, f.generation)
    BY <1>0, <1>4 DEF AllIssued
  <2>3. /\ y \in 1 .. Len(slots) /\ f.epoch <= slots[y].epoch
        /\ f.epoch = slots[y].epoch /\ slots[y].object # None =>
             /\ slots[y].object = h.object /\ obj[h.object].live
    <3> HIDE DEF f
    <3> QED
      BY <1>0, <1>2, <2>1, <2>2, SameWord
  <2>4. slots[y].object = o
    BY <1>2, <2>3 DEF Moved
  <2>5. f.epoch = slots[y].epoch
    <3>1. f.epoch >= slots[y].epoch /\ slots[y].epoch \in Int
      BY <1>0, <2>1, <2>3, Entries DEF Advanced
    <3> QED
      BY <1>3, <2>3, <3>1
  <2> QED
    BY <1>2, <2>3, <2>4, <2>5
<1>a. PICK k \in Int : k = f.epoch
  BY <1>3
<1>5. IssuedFor(g, y, k)'
  BY <1>3, <1>a DEF IssuedFor
<1>6. ASSUME NEW h \in handles'
      PROVE  /\ h.object \in Objects
             /\ \E x \in 1 .. Len(slots'), n \in Int : IssuedFor(h, x, n)'
  <2>1. CASE h \in handles
    BY <1>0, <2>1, MovedIssued DEF AllIssued
  <2>2. CASE h = g
    BY <1>5, <2>2
  <2> QED
    BY <2>1, <2>2
<1>7. AllIssued'
  BY <1>6 DEF AllIssued, Issued
<1>8. HandlesUnique'
  BY <1>0, <1>4 DEF HandlesUnique
<1> QED
  BY <1>1, <1>7, <1>8 DEF HandleInv, TableInv

\* Creating an object keeps the invariant.
LEMMA CreateHandle ==
    ASSUME HandleInv, SlotInv', NEW o \in Objects, Create(o), taskFamily' = taskFamily
    PROVE  HandleInv'
<1>0. /\ SlotInv /\ AllGood(slots) /\ Backs /\ TableTypes(slots, free)
      /\ Frees(slots, free) /\ ObjTypes
  BY Zenon DEF HandleInv, TableInv, SlotInv
<1>1. PICK m \in Multipliers, a \in Addends :
        LET r == Reserve(slots, free, o, m, a)
            g == r.slots[r.slot].generation
            b == obj[o].birth + 1
        IN  /\ slots' = r.slots
            /\ IF r.ok
                 THEN /\ obj' = [obj EXCEPT ![o] =
                           [live |-> TRUE, birth |-> b, activeOps |-> 0,
                            held |-> FALSE, slot |-> r.slot, generation |-> g,
                            wrapped |-> obj[o].wrapped]]
                      /\ handles' = handles \cup
                           {[raw |-> EncodeHandle(r.slot, g), object |-> o,
                             birth |-> b]}
                 ELSE UNCHANGED <<obj, handles>>
  BY Zenon DEF Create
<1> DEFINE r == Reserve(slots, free, o, m, a)
           y == r.slot
           b == obj[o].birth + 1
           v == [live |-> TRUE, birth |-> b, activeOps |-> 0, held |-> FALSE,
                 slot |-> y, generation |-> r.slots[y].generation,
                 wrapped |-> obj[o].wrapped]
           g == [raw |-> EncodeHandle(y, r.slots[y].generation), object |-> o,
                 birth |-> b]
<1>2. /\ slots' = r.slots
      /\ r.ok => obj' = [obj EXCEPT ![o] = v] /\ handles' = handles \cup {g}
      /\ ~r.ok => obj' = obj /\ handles' = handles
  BY <1>1
<1>a. r = Reserve(slots, free, o, m, a)
  OBVIOUS
<1> HIDE DEF r
<1>3. /\ TableTypes(r.slots, r.free) /\ Frees(r.slots, r.free)
      /\ Len(slots) <= Len(r.slots) /\ r.slot \in Int
      /\ \A x \in 1 .. Len(r.slots) : x \in 1 .. Len(slots) \/ x = r.slot
      /\ \A x \in 1 .. Len(slots) : x # r.slot => r.slots[x] = slots[x]
      /\ r.ok => r.slot \in 1 .. Len(r.slots) /\ r.slots[r.slot].object = o
      /\ r.ok /\ r.slot \in 1 .. Len(slots) => slots[r.slot].object = None
      /\ ~r.ok => r.slot = 0
  <2>1. Reserved(slots, r, o)
    BY <1>0, <1>a, ReserveTable, Zenon
  <2> QED
    BY <2>1, Zenon DEF Reserved
<1>4. /\ AllGood(r.slots)
      /\ \A x \in 1 .. Len(slots) :
           /\ Advanced(slots[x], r.slots[x])
           /\ x = r.slot => r.slots[x].epoch > slots[x].epoch
  BY <1>0, <1>a, ReserveEntries, Zenon
<1>5. AllGood(slots)' /\ Len(slots) \in Nat /\ Len(slots') \in Nat
  BY <1>0, <1>2, <1>3, <1>4, LenProperties, Zenon DEF AllGood, TableTypes
<1>6. /\ ~obj[o].live /\ (taskFamily => obj[o].slot = 0)
      /\ \A x \in 1 .. Len(slots) : slots[x].object # o
  <2>1. ~obj[o].live /\ (taskFamily => obj[o].slot = 0)
    BY Zenon DEF Create
  <2>2. ASSUME NEW x \in 1 .. Len(slots), slots[x].object = o PROVE FALSE
    <3>1. o # None /\ x # 0
      BY SlotConstants
    <3>2. obj[o].slot = x /\ (obj[o].live \/ taskFamily)
      BY <1>0, <2>2, <3>1, Zenon DEF Backs
    <3> QED
      BY <2>1, <3>1, <3>2, Zenon
  <2> QED
    BY <2>1, <2>2, Zenon
<1>7. ASSUME NEW x \in 1 .. Len(slots)
      PROVE  /\ x \in 1 .. Len(slots') /\ Advanced(slots[x], slots'[x])
             /\ slots[x].object \notin {o, None} => slots'[x] = slots[x]
  <2>1. x \in 1 .. Len(slots') /\ Advanced(slots[x], slots'[x])
    BY <1>2, <1>3, <1>4, <1>5
  <2>2. ASSUME slots[x].object \notin {o, None} PROVE slots'[x] = slots[x]
    <3>1. x # r.slot
      BY <1>3, <2>2
    <3> QED
      BY <1>2, <1>3, <3>1
  <2> QED
    BY <2>1, <2>2
<1>8. CASE r.ok
  <2>1. /\ v.live /\ v.slot = y /\ v.generation = slots'[y].generation /\ v.birth = b
    BY <1>2
  <2>2. g.raw = EncodeHandle(y, slots'[y].generation) /\ g.object = o /\ g.birth = b
    BY <1>2
  <2> HIDE DEF v, g, b
  <2>3. \A p \in Objects : obj'[p] = IF p = o THEN v ELSE obj[p]
    BY <1>0, <1>2, <1>8, Zenon DEF ObjTypes
  <2>4. y \in 1 .. Len(slots') /\ slots'[y].object = o /\ obj'[o].live
    BY <1>2, <1>3, <1>8, <2>1, <2>3, Zenon
  <2>5. ASSUME NEW x \in 1 .. Len(slots')
        PROVE  \/ x \in 1 .. Len(slots) /\ slots'[x] = slots[x] /\ slots[x].object # o
               \/ /\ slots'[x].object = o /\ obj'[o].slot = x /\ obj'[o].live
                  /\ ~(x \in 1 .. Len(slots) /\ slots'[x].epoch <= slots[x].epoch)
    <3>1. CASE x = y
      <4>1. ASSUME x \in 1 .. Len(slots), slots'[x].epoch <= slots[x].epoch PROVE FALSE
        <5>1. slots'[x].epoch > slots[x].epoch
          BY <1>2, <1>4, <3>1, <4>1, Zenon
        <5>2. slots[x].epoch \in Int /\ slots'[x].epoch \in Int
          BY <1>0, <4>1, Entries, EntryFields, ElementOfSeq, Zenon DEF SlotInv, TableTypes
        <5> QED
          BY <4>1, <5>1, <5>2
      <4> QED
        BY <2>1, <2>3, <2>4, <3>1, <4>1, Zenon
    <3>2. CASE x # y
      BY <1>2, <1>3, <1>6, <3>2, Zenon
    <3> QED
      BY <3>1, <3>2
  <2>6. Moved(o)
    BY <1>7, <2>1, <2>3, <2>5, Zenon DEF Moved
  <2> QED
    <3>1. handles' = handles \cup {g} /\ g.birth = obj'[o].birth
      BY <1>2, <1>8, <2>1, <2>2, <2>3, Zenon
    <3> QED
      BY <1>5, <1>6, <2>2, <2>4, <2>6, <3>1, NewHandle, Zenon
<1>9. CASE ~r.ok
  <2>1. ASSUME NEW x \in 1 .. Len(slots')
        PROVE  x \in 1 .. Len(slots) /\ slots'[x] = slots[x] /\ slots[x].object # o
    <3>1. x # r.slot
      BY <1>3, <1>9
    <3> QED
      BY <1>2, <1>3, <1>6, <3>1, Zenon
  <2>2. Moved(o)
    BY <1>2, <1>6, <1>7, <1>9, <2>1 DEF Moved
  <2> QED
    BY <1>2, <1>5, <1>9, <2>2, NoNewHandle, Zenon
<1> QED
  BY <1>8, <1>9

\* Releasing a slot leaves its epoch and its seal.
LEMMA ReleaseEntries ==
    ASSUME NEW tbl, NEW list, NEW s \in 1 .. Len(tbl),
           TableTypes(tbl, list), AllGood(tbl),
           NEW new, new = Released(tbl, s)
    PROVE  /\ Len(new) = Len(tbl) /\ AllGood(new) /\ new[s].object = None
           /\ \A x \in 1 .. Len(tbl) :
                Advanced(tbl[x], new[x]) /\ new[x].epoch = tbl[x].epoch
<1>0. tbl \in Seq(SlotEntry)
  BY Zenon DEF TableTypes
<1>a. \A x \in 1 .. Len(tbl) : tbl[x].epoch \in Int /\ Good(tbl[x])
  BY <1>0, ElementOfSeq, EntryFields DEF AllGood
<1> DEFINE e == [tbl[s] EXCEPT !.object = None]
<1>1. /\ e \in SlotEntry /\ e.object = None /\ e.epoch = tbl[s].epoch
      /\ e.generation = tbl[s].generation
      /\ e.multiplier = tbl[s].multiplier /\ e.addend = tbl[s].addend
  <2>1. tbl[s] \in SlotEntry
    BY <1>0, ElementOfSeq
  <2> QED
    BY <2>1 DEF SlotEntry
<1>2. new = [tbl EXCEPT ![s] = e]
  BY DEF Released
<1> HIDE DEF e
<1>3. /\ Len(new) = Len(tbl)
      /\ \A x \in 1 .. Len(tbl) : new[x] = IF x = s THEN e ELSE tbl[x]
  BY <1>0, <1>1, <1>2, ExceptSeq
<1>4. Good(e)
  BY <1>1, <1>a DEF Good, Generation, Token
<1>5. AllGood(new)
  BY <1>3, <1>4, <1>a, Zenon DEF AllGood
<1>6. \A x \in 1 .. Len(tbl) : Advanced(tbl[x], new[x]) /\ new[x].epoch = tbl[x].epoch
  BY <1>1, <1>3, <1>a DEF Advanced
<1> QED
  BY <1>1, <1>3, <1>5, <1>6

\* Advancing the generation of a slot changes that slot only.
LEMMA RefreshEntries ==
    ASSUME NEW tbl, NEW list, NEW s \in 1 .. Len(tbl),
           TableTypes(tbl, list), AllGood(tbl),
           ~Exhausted(tbl[s]), NEW new, new = Refreshed(tbl, s)
    PROVE  /\ Len(new) = Len(tbl) /\ AllGood(new)
           /\ new[s].object = tbl[s].object /\ new[s].epoch > tbl[s].epoch
           /\ \A x \in 1 .. Len(tbl) :
                Advanced(tbl[x], new[x]) /\ (x # s => new[x] = tbl[x])
<1>0. tbl \in Seq(SlotEntry)
  BY DEF TableTypes
<1>a. \A x \in 1 .. Len(tbl) : tbl[x].epoch \in Int /\ Good(tbl[x])
  BY <1>0, ElementOfSeq, EntryFields DEF AllGood
<1> DEFINE e == RefreshFamilyGeneration(tbl[s])
<1>1. tbl[s] \in SlotEntry /\ Good(tbl[s]) /\ tbl[s].epoch < MaxEpoch
  BY <1>0, <1>a, ElementOfSeq, HandleConstants DEF Exhausted
<1>2. /\ Good(e) /\ e.epoch = tbl[s].epoch + 1 /\ e \in SlotEntry
      /\ e.multiplier = tbl[s].multiplier /\ e.addend = tbl[s].addend
      /\ e.object = tbl[s].object
  BY <1>1, RefreshGood, RefreshEntry
<1>3. new = [tbl EXCEPT ![s] = e]
  BY DEF Refreshed
<1> HIDE DEF e
<1>4. /\ Len(new) = Len(tbl)
      /\ \A x \in 1 .. Len(tbl) : new[x] = IF x = s THEN e ELSE tbl[x]
  BY <1>0, <1>2, <1>3, ExceptSeq
<1>5. AllGood(new)
  BY <1>2, <1>4, <1>a, Zenon DEF AllGood
<1>6. ASSUME NEW x \in 1 .. Len(tbl)
      PROVE  Advanced(tbl[x], new[x]) /\ (x # s => new[x] = tbl[x])
  BY <1>2, <1>4, <1>a DEF Advanced
<1>7. new[s].epoch > tbl[s].epoch
  BY <1>2, <1>4, <1>a
<1> QED
  BY <1>2, <1>4, <1>5, <1>6, <1>7

\* The table after the handle of task o, in slot s, is consumed.
Renewed(tbl, list, o, s, m, a) ==
    IF ~Exhausted(tbl[s])
      THEN [ok |-> TRUE, slot |-> s, free |-> list, slots |-> Refreshed(tbl, s)]
      ELSE Reserve(Released(tbl, s), <<s>> \o list, o, m, a)

\* The task that was in slot s is in a new epoch of slot r.slot, and the slots
\* of the other tasks are as they were.
OnlyMoved(tbl, r, o, s) ==
    /\ AllGood(r.slots) /\ Len(tbl) <= Len(r.slots)
    /\ r.ok => r.slot \in 1 .. Len(r.slots) /\ r.slots[r.slot].object = o
    /\ ~r.ok => r.slot = 0
    /\ \A x \in 1 .. Len(tbl) :
         /\ Advanced(tbl[x], r.slots[x])
         /\ x = r.slot => r.slots[x].epoch > tbl[x].epoch
         /\ x \notin {r.slot, s} => r.slots[x] = tbl[x]
         /\ x = s /\ x # r.slot => r.slots[x].object = None
         /\ x = r.slot => tbl[x].object \in {o, None}
    /\ \A x \in 1 .. Len(r.slots) : x \in 1 .. Len(tbl) \/ x = r.slot

\* Consuming the handle of the task in slot s moves that task only.
LEMMA InvalidateEntries ==
    ASSUME NEW tbl, NEW list, NEW o \in Objects, NEW s \in 1 .. Len(tbl),
           tbl[s].object = o,
           TableTypes(tbl, list), Frees(tbl, list), AllGood(tbl),
           NEW m \in Multipliers, NEW a \in Addends,
           NEW r, r = Renewed(tbl, list, o, s, m, a)
    PROVE  OnlyMoved(tbl, r, o, s)
<1>0. Len(tbl) \in Nat /\ o # None
  BY LenProperties, SlotConstants, Zenon DEF TableTypes
<1>1. CASE ~Exhausted(tbl[s])
  <2> DEFINE new == Refreshed(tbl, s)
  <2>1. r.ok /\ r.slot = s /\ r.slots = new
    BY <1>1 DEF Renewed
  <2>a. new = Refreshed(tbl, s)
    BY Zenon
  <2> HIDE DEF new
  <2>2. /\ Len(new) = Len(tbl) /\ AllGood(new)
        /\ new[s].object = tbl[s].object /\ new[s].epoch > tbl[s].epoch
        /\ \A x \in 1 .. Len(tbl) :
             Advanced(tbl[x], new[x]) /\ (x # s => new[x] = tbl[x])
    BY <1>1, <2>a, RefreshEntries, Zenon
  <2>3. ASSUME NEW x \in 1 .. Len(tbl)
        PROVE  /\ Advanced(tbl[x], new[x])
               /\ x = s => new[x].epoch > tbl[x].epoch
               /\ x # s => new[x] = tbl[x]
               /\ x = s => tbl[x].object = o
    BY <2>2
  <2>4. s \in 1 .. Len(new) /\ new[s].object = o /\ Len(tbl) <= Len(new)
    BY <1>0, <2>2
  <2>5. \A x \in 1 .. Len(new) : x \in 1 .. Len(tbl)
    BY <2>2, Zenon
  <2> QED
    BY <2>1, <2>2, <2>3, <2>4, <2>5, Zenon DEF OnlyMoved
<1>2. CASE Exhausted(tbl[s])
  <2> DEFINE mid == Released(tbl, s)
             more == <<s>> \o list
  <2>1. r = Reserve(mid, more, o, m, a)
    BY <1>2 DEF Renewed
  <2>2. /\ TableTypes(mid, more) /\ Frees(mid, more) /\ Len(mid) = Len(tbl)
        /\ \A x \in 1 .. Len(tbl) : x # s => mid[x] = tbl[x]
    BY <1>0, ReleaseTable, Zenon
  <2>3. /\ AllGood(mid) /\ mid[s].object = None
        /\ \A x \in 1 .. Len(tbl) :
             Advanced(tbl[x], mid[x]) /\ mid[x].epoch = tbl[x].epoch
    BY ReleaseEntries, Zenon
  <2> HIDE DEF mid, more
  <2>4. /\ TableTypes(r.slots, r.free) /\ Frees(r.slots, r.free)
        /\ Len(mid) <= Len(r.slots) /\ r.slot \in Int
        /\ \A x \in 1 .. Len(r.slots) : x \in 1 .. Len(mid) \/ x = r.slot
        /\ \A x \in 1 .. Len(mid) : x # r.slot => r.slots[x] = mid[x]
        /\ r.ok => r.slot \in 1 .. Len(r.slots) /\ r.slots[r.slot].object = o
        /\ r.ok /\ r.slot \in 1 .. Len(mid) => mid[r.slot].object = None
        /\ ~r.ok => r.slot = 0
    <3>1. Reserved(mid, r, o)
      BY <2>1, <2>2, ReserveTable, Zenon
    <3> QED
      BY <3>1 DEF Reserved
  <2>5. /\ AllGood(r.slots)
        /\ \A x \in 1 .. Len(mid) :
             /\ Advanced(mid[x], r.slots[x])
             /\ x = r.slot => r.slots[x].epoch > mid[x].epoch
    BY <2>1, <2>2, <2>3, ReserveEntries
  <2>6. ASSUME NEW x \in 1 .. Len(tbl)
        PROVE  /\ Advanced(tbl[x], r.slots[x])
               /\ x = r.slot => r.slots[x].epoch > tbl[x].epoch
               /\ x \notin {r.slot, s} => r.slots[x] = tbl[x]
               /\ x = s /\ x # r.slot => r.slots[x].object = None
               /\ x = r.slot => tbl[x].object \in {o, None}
    <3>1. /\ Advanced(tbl[x], mid[x]) /\ mid[x].epoch = tbl[x].epoch
          /\ Advanced(mid[x], r.slots[x])
          /\ x = r.slot => r.slots[x].epoch > mid[x].epoch
          /\ x # r.slot => r.slots[x] = mid[x]
          /\ x # s => mid[x] = tbl[x]
      BY <2>2, <2>3, <2>4, <2>5, Zenon
    <3>2. Advanced(tbl[x], r.slots[x])
      BY <3>1 DEF Advanced
    <3>3. x = r.slot => tbl[x].object \in {o, None}
      <4>1. ASSUME x = r.slot, x # s PROVE tbl[x].object = None
        BY <1>0, <2>2, <2>4, <3>1, <4>1
      <4> QED
        BY <4>1, Zenon
    <3> QED
      BY <2>3, <3>1, <3>2, <3>3, Zenon
  <2> QED
    BY <2>2, <2>4, <2>5, <2>6, Zenon DEF OnlyMoved
<1> QED
  BY <1>1, <1>2

\* Consuming a task's handle keeps the invariant.
LEMMA InvalidateHandle ==
    ASSUME HandleInv, SlotInv', NEW o \in Objects, InvalidateTask(o),
           taskFamily' = taskFamily
    PROVE  HandleInv'
<1>0. /\ SlotInv /\ AllGood(slots) /\ Backs /\ TableTypes(slots, free)
      /\ Frees(slots, free) /\ ObjTypes /\ Owns
  BY Zenon DEF HandleInv, TableInv, SlotInv
<1> DEFINE s == obj[o].slot
<1>1. /\ taskFamily /\ obj[o].live /\ s \in 1 .. Len(slots) /\ slots[s].object = o
      /\ handles' = handles /\ o # None
  BY <1>0, SlotConstants DEF InvalidateTask, Owns
<1>2. PICK m \in Multipliers, a \in Addends :
        LET r == Renewed(slots, free, o, s, m, a)
        IN  /\ slots' = r.slots
            /\ obj' = [obj EXCEPT ![o] =
                 [obj[o] EXCEPT !.live = FALSE, !.slot = r.slot,
                    !.generation = IF r.ok THEN r.slots[r.slot].generation ELSE 0]]
  BY Zenon DEF InvalidateTask, Renewed, Refreshed
<1> DEFINE r == Renewed(slots, free, o, s, m, a)
           g == IF r.ok THEN r.slots[r.slot].generation ELSE 0
           v == [obj[o] EXCEPT !.live = FALSE, !.slot = r.slot, !.generation = g]
<1>3. slots' = r.slots
  BY <1>2
<1>4. obj' = [obj EXCEPT ![o] = v]
  BY <1>2
<1>a. r = Renewed(slots, free, o, s, m, a)
  BY Zenon
<1> HIDE DEF r, s
<1>5. /\ AllGood(r.slots) /\ Len(slots) <= Len(r.slots)
      /\ r.ok => r.slot \in 1 .. Len(r.slots) /\ r.slots[r.slot].object = o
      /\ ~r.ok => r.slot = 0
      /\ \A x \in 1 .. Len(slots) :
           /\ Advanced(slots[x], r.slots[x])
           /\ x = r.slot => r.slots[x].epoch > slots[x].epoch
           /\ x \notin {r.slot, s} => r.slots[x] = slots[x]
           /\ x = s /\ x # r.slot => r.slots[x].object = None
           /\ x = r.slot => slots[x].object \in {o, None}
      /\ \A x \in 1 .. Len(r.slots) : x \in 1 .. Len(slots) \/ x = r.slot
  <2>1. OnlyMoved(slots, r, o, s)
    BY <1>0, <1>1, <1>a, InvalidateEntries, Zenon
  <2> QED
    BY <2>1 DEF OnlyMoved
<1>6. AllGood(slots)' /\ Len(slots) \in Nat /\ Len(slots') \in Nat
  BY <1>0, <1>3, <1>5, LenProperties, Zenon DEF AllGood, SlotInv, TableTypes
<1>7. v.slot = r.slot /\ v.generation = g
  <2>1. obj[o] \in Object
    BY <1>0 DEF ObjTypes
  <2> HIDE DEF g
  <2> QED
    BY <2>1 DEF Object
<1> HIDE DEF v
<1>8. \A p \in Objects : obj'[p] = IF p = o THEN v ELSE obj[p]
  BY <1>0, <1>4, Zenon DEF ObjTypes
<1>9. ASSUME NEW x \in 1 .. Len(slots)
      PROVE  /\ x \in 1 .. Len(slots') /\ Advanced(slots[x], slots'[x])
             /\ slots[x].object \notin {o, None} => slots'[x] = slots[x]
  <2>1. x \in 1 .. Len(slots') /\ Advanced(slots[x], slots'[x])
    BY <1>3, <1>5, <1>6
  <2>2. ASSUME slots[x].object \notin {o, None} PROVE slots'[x] = slots[x]
    <3>1. x \notin {r.slot, s}
      BY <1>1, <1>5, <2>2, Zenon
    <3> QED
      BY <1>3, <1>5, <3>1, Zenon
  <2> QED
    BY <2>1, <2>2
<1>10. ASSUME NEW x \in 1 .. Len(slots'), slots'[x].object # None
       PROVE  \/ x \in 1 .. Len(slots) /\ slots'[x] = slots[x] /\ slots[x].object # o
              \/ /\ slots'[x].object = o /\ obj'[o].slot = x
                 /\ ~(x \in 1 .. Len(slots) /\ slots'[x].epoch <= slots[x].epoch)
  <2>1. CASE x = r.slot
    <3>1. ASSUME x \in 1 .. Len(slots), slots'[x].epoch <= slots[x].epoch PROVE FALSE
      <4>1. slots'[x].epoch > slots[x].epoch
        BY <1>3, <1>5, <2>1, <3>1, Zenon
      <4>2. slots[x].epoch \in Int /\ slots'[x].epoch \in Int
        BY <1>0, <3>1, Entries, EntryFields, ElementOfSeq, Zenon DEF SlotInv, TableTypes
      <4> QED
        BY <3>1, <4>1, <4>2
    <3>2. r.ok
      BY <1>5, <2>1
    <3>3. slots'[x].object = o /\ obj'[o].slot = x
      BY <1>3, <1>5, <1>7, <1>8, <2>1, <3>2, Zenon
    <3> QED
      BY <3>1, <3>3, Zenon
  <2>2. CASE x # r.slot
    <3>1. x \in 1 .. Len(slots) /\ x # s
      BY <1>3, <1>5, <1>10, <2>2, Zenon
    <3>2. slots'[x] = slots[x]
      BY <1>3, <1>5, <2>2, <3>1, Zenon
    <3>3. slots[x].object # o
      BY <1>0, <1>1, <3>1, Zenon DEF Backs, s
    <3> QED
      BY <3>1, <3>2, <3>3, Zenon
  <2> QED
    BY <2>1, <2>2, Zenon
<1>11. obj'[o].slot # 0 => obj'[o].generation = slots'[obj'[o].slot].generation
  <2>1. obj'[o].slot = r.slot /\ obj'[o].generation = g
    BY <1>7, <1>8
  <2>2. r.slot # 0 => g = r.slots[r.slot].generation
    BY <1>5, Zenon
  <2> HIDE DEF g
  <2> QED
    BY <1>3, <2>1, <2>2, Zenon
<1>12. Moved(o)
  BY <1>1, <1>8, <1>9, <1>10, <1>11 DEF Moved
<1> QED
  BY <1>1, <1>6, <1>12, NoNewHandle

\* Spawning a recycled task keeps the invariant.
LEMMA ActivateHandle ==
    ASSUME HandleInv, SlotInv', NEW o \in Objects, ActivateTask(o),
           taskFamily' = taskFamily
    PROVE  HandleInv'
<1>0. SlotInv /\ AllGood(slots) /\ Backs /\ Prepared /\ ObjTypes /\ Owns
  BY DEF HandleInv, TableInv, SlotInv
<1> DEFINE y == obj[o].slot
           n == obj[o].birth + 1
           v == [obj[o] EXCEPT !.live = TRUE, !.birth = n]
           g == [raw |-> EncodeHandle(y, obj[o].generation), object |-> o, birth |-> n]
<1>1. /\ slots' = slots /\ taskFamily /\ ~obj[o].live /\ y # 0
      /\ obj' = [obj EXCEPT ![o] = v]
      /\ handles' = handles \cup {g}
  BY DEF ActivateTask
<1>2. obj[o] \in Object
  BY <1>0 DEF ObjTypes
<1>3. y \in 1 .. Len(slots) /\ slots[y].object = o /\ obj[o].generation = slots[y].generation
  BY <1>0, <1>1 DEF Owns, Prepared
<1>4. g.raw = EncodeHandle(y, slots'[y].generation) /\ g.object = o /\ g.birth = n
  BY <1>1, <1>3
<1> HIDE DEF n, g
<1>5. obj' = [obj EXCEPT ![o] = v]
  BY <1>0, <1>1, Zenon DEF ObjTypes, Object
<1>6. v.live /\ v.slot = y /\ v.birth = n /\ v.generation = obj[o].generation
  BY <1>2 DEF Object
<1> HIDE DEF v, y
<1>7. \A p \in Objects : obj'[p] = IF p = o THEN v ELSE obj[p]
  BY <1>0, <1>5 DEF ObjTypes
<1>8. \A x \in 1 .. Len(slots) : slots[x].epoch \in Int
  BY <1>0, Entries
<1>9. \A x \in 1 .. Len(slots) : Advanced(slots[x], slots'[x])
  BY <1>1, <1>8 DEF Advanced
<1>10. \A x \in 1 .. Len(slots) : slots[x].object = o => x = y
  BY <1>0, SlotConstants DEF Backs, y
<1>11. Moved(o)
  <2>1. ASSUME NEW x \in 1 .. Len(slots'), slots'[x].object # None
        PROVE  \/ x \in 1 .. Len(slots) /\ slots'[x] = slots[x] /\ slots[x].object # o
               \/ /\ slots'[x].object = o /\ obj'[o].slot = x
                  /\ slots'[x].object = slots[x].object /\ ~obj[o].live
    BY <1>1, <1>6, <1>7, <1>10, Zenon
  <2>2. obj'[o].generation = slots'[obj'[o].slot].generation
    BY <1>1, <1>3, <1>6, <1>7, Zenon
  <2> QED
    BY <1>1, <1>7, <1>9, <2>1, <2>2, Zenon DEF Moved
<1>12. AllGood(slots)'
  BY <1>0, <1>1 DEF AllGood
<1>13. /\ y \in 1 .. Len(slots') /\ slots'[y].object = o /\ obj'[o].live
       /\ g.birth = obj'[o].birth
  BY <1>1, <1>3, <1>4, <1>6, <1>7, Zenon
<1> QED
  BY <1>1, <1>4, <1>11, <1>12, <1>13, NewHandle, Zenon

\* Destroying an object keeps the invariant.
LEMMA DestroyHandle ==
    ASSUME HandleInv, SlotInv', NEW h, Destroy(h), taskFamily' = taskFamily
    PROVE  HandleInv'
<1>0. /\ SlotInv /\ AllGood(slots) /\ Backs /\ TableTypes(slots, free) /\ ObjTypes
      /\ Frees(slots, free)
  BY DEF HandleInv, TableInv, SlotInv
<1> DEFINE o == Resolve(h.raw)
           s == DecodeHandle(h.raw).slot
           v == [obj[o] EXCEPT !.live = FALSE]
<1>1. /\ ~taskFamily /\ slots' = Released(slots, s) /\ obj[o].slot = s
      /\ obj' = [obj EXCEPT ![o] = v] /\ handles' = handles
  BY DEF Destroy
<1>2. o \in Objects /\ s \in 1 .. Len(slots) /\ slots[s].object = o /\ o # None
  BY <1>0, ResolveObject, SlotConstants DEF Destroy
<1> HIDE DEF o, s
<1>3. ~v.live
  <2>1. obj[o] \in Object
    BY <1>0, <1>2 DEF ObjTypes
  <2> QED
    BY <2>1 DEF Object
<1> HIDE DEF v
<1>4. \A p \in Objects : obj'[p] = IF p = o THEN v ELSE obj[p]
  BY <1>0, <1>1 DEF ObjTypes
<1>5. /\ Len(slots') = Len(slots) /\ AllGood(slots') /\ slots'[s].object = None
      /\ \A x \in 1 .. Len(slots) : Advanced(slots[x], slots'[x])
  BY <1>0, <1>1, <1>2, ReleaseEntries
<1>6. \A x \in 1 .. Len(slots) : x # s => slots'[x] = slots[x]
  BY <1>0, <1>1, <1>2, ReleaseTable, Zenon
<1>7. \A x \in 1 .. Len(slots) : slots[x].object = o => x = s
  BY <1>0, <1>1, <1>2, Zenon DEF Backs
<1>8. Moved(o)
  BY <1>1, <1>2, <1>3, <1>4, <1>5, <1>6, <1>7, Zenon DEF Moved
<1>9. AllGood(slots)'
  BY <1>5, Zenon DEF AllGood
<1> QED
  BY <1>1, <1>2, <1>8, <1>9, NoNewHandle

\* A step of a thread keeps the invariant.
LEMMA ThreadHandle ==
    ASSUME HandleInv, SlotInv', taskFamily' = taskFamily, handles' = handles,
           slots' = slots,
           \A o \in Objects : /\ obj'[o].live = obj[o].live /\ obj'[o].slot = obj[o].slot
                              /\ obj'[o].birth = obj[o].birth
                              /\ obj'[o].generation = obj[o].generation
    PROVE  HandleInv'
<1>0. SlotInv /\ AllGood(slots) /\ Backs /\ Prepared /\ AllIssued /\ HandlesUnique
  BY Zenon DEF HandleInv, TableInv
<1>1. \A x \in 1 .. Len(slots) : slots[x].object \in Objects \cup {None}
  BY <1>0, Entries
<1>2. Backs'
  BY <1>0, <1>1, Zenon DEF Backs
<1>3. Prepared'
  BY <1>0 DEF Prepared
<1>4. ASSUME NEW h \in handles
      PROVE  h.object \in Objects /\ \E x \in 1 .. Len(slots), n \in Int : IssuedFor(h, x, n)'
  <2>1. h.object \in Objects
    BY <1>0 DEF AllIssued, Issued
  <2>2. PICK x \in 1 .. Len(slots), n \in Int : IssuedFor(h, x, n)
    BY <1>0, Zenon DEF AllIssued, Issued
  <2>3. IssuedFor(h, x, n)'
    BY <2>1, <2>2, Zenon DEF IssuedFor
  <2> QED
    BY <2>1, <2>3
<1>5. AllIssued'
  BY <1>4 DEF AllIssued, Issued
<1>6. AllGood(slots)' /\ HandlesUnique'
  BY <1>0 DEF AllGood, HandlesUnique
<1> QED
  BY <1>2, <1>3, <1>5, <1>6 DEF HandleInv, TableInv

-------------------------------------------------------------------------------
\* Every step keeps the invariant.
LEMMA HandleStep ==
    ASSUME HandleInv, [Next]_vars
    PROVE  HandleInv'
<1>0. SlotInv /\ SlotInv'
  BY SlotStep DEF HandleInv, TableInv
<1>1. CASE UNCHANGED vars
  BY <1>0, <1>1, ThreadHandle DEF vars
<1>2. CASE Next
  <2>0. taskFamily' = taskFamily
    BY <1>2 DEF Next
  <2>1. ASSUME NEW t \in Threads, ThreadStep(t) PROVE HandleInv'
    <3>1. ObjectsKept /\ slots' = slots
      BY <1>0, <2>1, ThreadKeeps
    <3>2. handles' = handles
      BY <2>1, Zenon DEF ThreadStep, BeginOp, SetHeld, EndOp, TimerLoad, TimerAdd,
                  TimerStore, TimerRelease
    <3> QED
      BY <1>0, <2>0, <3>1, <3>2, ThreadHandle DEF ObjectsKept, Kept
  <2>2. ASSUME NEW o \in Objects, Create(o) \/ InvalidateTask(o) \/ ActivateTask(o)
        PROVE  HandleInv'
    BY <1>0, <2>0, <2>2, CreateHandle, InvalidateHandle, ActivateHandle, Zenon
  <2>3. ASSUME NEW h \in handles, Destroy(h) PROVE HandleInv'
    BY <1>0, <2>0, <2>3, DestroyHandle
  <2> QED
    BY <1>2, <2>1, <2>2, <2>3 DEF Next
<1> QED
  BY <1>1, <1>2

\* The empty table satisfies the invariant.
LEMMA HandleBegins == ASSUME Init PROVE HandleInv
<1>1. Len(slots) = 0 /\ handles = {}
  BY EmptySeq DEF Init
<1>2. AllGood(slots) /\ Backs /\ AllIssued /\ HandlesUnique
  BY <1>1 DEF AllGood, Backs, AllIssued, HandlesUnique
<1>3. Prepared
  BY DEF Init, Prepared
<1> QED
  BY <1>2, <1>3, SlotBegins, Zenon DEF HandleInv, TableInv

\* Every handle that was returned names an epoch of a slot, and the slot's
\* present epoch only while its object is in the use it was returned for.
THEOREM HandleInvariant == Spec => []HandleInv
<1>1. Init => HandleInv
  BY HandleBegins
<1>2. HandleInv /\ [Next]_vars => HandleInv'
  BY HandleStep
<1> QED
  BY <1>1, <1>2, PTL DEF Spec

\* No handle word is returned twice, by llam_public_slot_reserve_impl, by the
\* refresh of a consumed task handle or by llam_task_activate_public_handle, up
\* to the last epoch of every slot.
THEOREM HandlesNeverRepeat == Spec => []HandlesUnique
<1>1. HandleInv => HandlesUnique
  BY Zenon DEF HandleInv
<1> QED
  BY <1>1, HandleInvariant, PTL

\* llam_public_slot_resolve gives for a handle the object it was returned for,
\* in the use it was returned for, or nothing, whatever was reused meanwhile.
THEOREM StaleHandlesFail == Spec => []StaleNeverResolves
<1>1. ASSUME HandleInv, NEW h \in handles, Resolve(h.raw) # None
      PROVE  /\ Resolve(h.raw) = h.object
             /\ obj[h.object].live /\ obj[h.object].birth = h.birth
  <2>0. SlotInv /\ AllGood(slots) /\ Issued(h)
    BY <1>1 DEF HandleInv, TableInv, AllIssued
  <2>1. PICK x \in 1 .. Len(slots), n \in Int : IssuedFor(h, x, n)
    BY <2>0 DEF Issued
  <2> DEFINE g == Generation(slots[x], n)
             w == EncodeHandle(x, g)
  <2>2. /\ slots[x] \in SlotEntry /\ x \in Int /\ slots[x].epoch \in 1 .. MaxEpoch
        /\ slots[x].generation = Generation(slots[x], slots[x].epoch)
    BY <2>0, Entries
  <2>3. n \in 1 .. MaxEpoch /\ h.raw = w
    BY <2>1 DEF IssuedFor
  <2>4. g \in 0 .. ShiftSpan - 1
    <3>1. Token(slots[x], n) \in 1 .. MaxEpoch
      BY <2>2, TokenRange, Zenon
    <3>2. g = FamilyGeneration(Token(slots[x], n))
      BY DEF Generation
    <3> HIDE DEF g
    <3> QED
      BY <3>1, <3>2, GenerationRange, HandleConstants
  <2>5. DecodeHandle(w).slot = x /\ DecodeHandle(w).generation = g
    <3> HIDE DEF g
    <3> QED
      BY <2>2, <2>4, DecodeEncode, Zenon
  <2>6. slots[x].generation = g /\ Resolve(h.raw) = slots[x].object
    <3> HIDE DEF g, w
    <3> QED
      BY <1>1, <2>3, <2>5 DEF Resolve
  <2>7. n = slots[x].epoch
    BY <2>2, <2>3, <2>6, GenerationInjective, Zenon
  <2>8. n = slots[x].epoch /\ slots[x].object # None =>
          /\ slots[x].object = h.object
          /\ obj[h.object].live /\ obj[h.object].birth = h.birth
    BY <2>1 DEF IssuedFor
  <2> HIDE DEF g
  <2> QED
    BY <1>1, <2>6, <2>7, <2>8
<1>2. HandleInv => StaleNeverResolves
  BY <1>1 DEF StaleNeverResolves
<1> QED
  BY <1>2, HandleInvariant, PTL
====
