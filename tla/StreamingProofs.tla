---------------------------- MODULE StreamingProofs ----------------------------
(***************************************************************************)
(* Proofs about Streaming for every content, block size, range and name:   *)
(* adjustIV adds the blocks skipped to the counter; the length announced   *)
(* is the length sent; the bytes sent are those asked for; and a zip has   *)
(* distinct names, an exact manifest and every object that could be read.  *)
(***************************************************************************)
EXTENDS Streaming, TLAPS, FiniteSetTheorems, WellFoundedInduction

Rows == [revs : Seq(Stored) \ {<<>>}, deleted : BOOLEAN, access : BOOLEAN]

RowInv == row \in [Objs -> Rows]

(* What other requests make of a row: revisions are added, none goes, and  *)
(* neither the trash nor a withdrawn right gives the object back.          *)
Grows(a, b) ==
    /\ DOMAIN a.revs \subseteq DOMAIN b.revs /\ \A i \in DOMAIN a.revs : b.revs[i] = a.revs[i]
    /\ b.access => a.access
    /\ a.deleted => b.deleted

--------------------------------------------------------------------------------
(* Downloads *)

AnyRange == [start : Nat, stop : Nat \cup {Open}, given : BOOLEAN]
Counters == {<<>>} \cup {AdjustIV(v, k) : v \in [1 .. IVLen -> 0 .. Base - 1], k \in Nat}
Bytes == Seq(Int)
States == {"idle", "headers", "sending", "done", "failed"}
Gets == [st : States, obj : Objs, rev : Nat,
         range : AnyRange, status : {0, 200, 204, 206, 304}, length : Int,
         iv : Counters,
         n : Nat, sent : Bytes]

(* Where the range begins: the block's first byte, and the place in it. *)
FirstRead(g) == BlockSize * (g.range.start \div BlockSize)
Skipped(g) == g.range.start % BlockSize

(* How far a download of a content has come that has read n bytes. *)
Progress(g, size) ==
    /\ g.n <= Skipped(g) => g.sent = <<>>
    /\ g.n > Skipped(g) =>
          /\ Len(g.sent) = g.n - Skipped(g)
          /\ FirstRead(g) + g.n <= size
          /\ Taken(g.range).stop = Open \/ FirstRead(g) + g.n <= Taken(g.range).stop + 1
    /\ g.st = "done" =>
          \/ FirstRead(g) + g.n >= size
          \/ /\ g.n >= Skipped(g) /\ Taken(g.range).stop # Open
             /\ FirstRead(g) + g.n > Taken(g.range).stop

GetOk(g, rows) ==
    /\ g \in Gets
    /\ g.st = "headers" => g.n = 0 /\ g.sent = <<>>
    /\ g.st \in {"headers", "sending"} => g.status \in {200, 206}
    /\ g.st # "idle" => g.rev \in DOMAIN rows[g.obj].revs
    /\ g.status \in {200, 206} =>
          /\ g.st # "idle" /\ (g.range.given \/ g.range = NoRange)
          /\ g.length = ContentLength(rows[g.obj].revs[g.rev].size, g.range)
          /\ Progress(g, rows[g.obj].revs[g.rev].size)

GetInv == RowInv /\ GetOk(get, row)

(* A byte sent is the byte of the content it stands for, and the counter   *)
(* is that of the block the range begins in.                               *)
BytesOk(g, rows) ==
    /\ \A i \in DOMAIN g.sent : g.sent[i] = g.range.start + i - 1
    /\ g.st = "sending" => g.iv = AdjustIV(rows[g.obj].revs[g.rev].iv, g.range.start)

BytesInv == GetInv /\ BytesOk(get, row)

--------------------------------------------------------------------------------
(* Zips *)

Letters == {"classification_manifest.txt"} \cup Nat \cup UNION {{Named[o][i] : i \in DOMAIN Named[o]} : o \in Objs}
Names == Seq(Letters)
Files == [obj : Objs, name : Names, whole : BOOLEAN]
FileLists == Seq(Files)

ZipFields == {"st", "todo", "asked", "used", "obj", "name", "files", "manifest", "rollup", "denied"}

(* An object with content that may be read. *)
Wholly(r) == ~r.deleted /\ r.access /\ \A i \in DOMAIN r.revs : r.revs[i].size > 0

NamesOf(files) == [i \in DOMAIN files |-> files[i].name]
ObjsOf(files) == {files[i].obj : i \in DOMAIN files}

(* The files of an archive have names of their own out of the used ones. *)
NamesOk(files, used) ==
    /\ \A i \in DOMAIN files : files[i].name \in used /\ files[i].name # ManifestName
    /\ \A i, j \in DOMAIN files : i # j => files[i].name # files[j].name

ZipOk(z, rows) ==
    /\ z = [x \in ZipFields |-> z[x]]
    /\ z.files \in FileLists /\ z.obj \in Objs /\ z.name \in Names
    /\ IsFiniteSet(z.used) /\ ManifestName \in z.used /\ NamesOk(z.files, z.used)
    /\ z.rollup = {Portion[o] : o \in ObjsOf(z.files)}
    /\ z.st = "write" =>
          /\ z.name \in z.used /\ z.name # ManifestName
          /\ \A i \in DOMAIN z.files : z.files[i].name # z.name
          /\ z.manifest = Append(NamesOf(z.files), z.name)
          /\ \A o \in z.asked \ z.todo : o \in Objs /\ (Wholly(rows[o]) => o \in ObjsOf(z.files) \cup {z.obj} \cup z.denied)
    /\ z.st \in {"fetch", "done"} =>
          /\ z.manifest = NamesOf(z.files)
          /\ \A o \in z.asked \ z.todo : o \in Objs /\ (Wholly(rows[o]) => o \in ObjsOf(z.files) \cup z.denied)
    /\ z.st = "done" => z.todo = {}

(***************************************************************************)
(* While a zip is written, every object asked for and fetched that can     *)
(* still be read is in it, is the one being written, or was denied.        *)
(***************************************************************************)
ZipInv == RowInv /\ ZipOk(zip, row)

--------------------------------------------------------------------------------
(* Blocks *)

LEMMA Blocks ==
    ASSUME NEW k \in Nat
    PROVE  /\ k \div BlockSize \in Nat /\ k % BlockSize \in Nat
           /\ BlockSize * (k \div BlockSize) \in Nat
           /\ k = BlockSize * (k \div BlockSize) + (k % BlockSize)
  <1>1. PICK b \in Nat : b = BlockSize /\ b > 0
      BY StreamingAssumption
  <1>2. k \div b \in Nat /\ k % b \in Nat
      BY <1>1
  <1>3. b * (k \div b) \in Nat
      BY <1>2
  <1>4. k = b * (k \div b) + (k % b)
      BY <1>1
  <1> QED BY <1>1, <1>2, <1>3, <1>4

LEMMA LaterBlocks ==
    ASSUME NEW q \in Nat, NEW n \in Nat
    PROVE  /\ (BlockSize * q + n) \div BlockSize = q + (n \div BlockSize)
           /\ (BlockSize * q + n) % BlockSize = n % BlockSize
  <1>1. PICK b \in Nat : b = BlockSize /\ b > 0
      BY StreamingAssumption
  <1>2. (b * q + n) \div b = q + (n \div b)
      BY <1>1
  <1>3. PICK m, r \in Nat : n = b * m + r /\ r < b /\ r = n % b
    <2>1. n \div b \in Nat /\ n % b \in Nat /\ n % b < b /\ n = b * (n \div b) + (n % b)
        BY <1>1
    <2> QED BY <2>1
  <1>4. PICK k \in Nat : k = q + m
      OBVIOUS
  <1>5. b * q + n = b * k + r
      BY <1>3, <1>4
  <1>6. (b * k + r) % b = r
      BY <1>1, <1>3
  <1> QED BY <1>1, <1>2, <1>3, <1>5, <1>6

(* The least of some numbers, and induction over the numbers, for sets. *)
LEMMA Least ==
    ASSUME NEW T \in SUBSET Nat, T # {}
    PROVE  \E k \in T : \A j \in T : k <= j
  <1>1. PICK k \in T : \A j \in T : <<j, k>> \notin OpToRel(<, Nat)
    <2>1. IsWellFoundedOn(OpToRel(<, Nat), Nat)
        BY NatLessThanWellFounded
    <2> QED BY <2>1, WFMin
  <1>2. \A j \in T : ~(j < k)
      BY <1>1 DEF OpToRel
  <1> QED BY <1>2

LEMMA Induction ==
    ASSUME NEW X \in SUBSET Nat, 0 \in X, \A n \in X : n + 1 \in X
    PROVE  X = Nat
  <1> SUFFICES ASSUME Nat \ X # {} PROVE FALSE
      OBVIOUS
  <1>1. PICK k \in Nat \ X : \A j \in Nat \ X : k <= j
      BY Least
  <1>2. k - 1 \in X
      BY <1>1
  <1> QED BY <1>1, <1>2

(* A recursion whose step is a function has values up to any number. *)
Recurs(f, a, h, n) == f[0] = a /\ \A i \in 1 .. n : f[i] = h[<<f[i - 1], i>>]

LEMMA Recursion ==
    ASSUME NEW V, NEW a \in V, NEW h \in [V \X Nat -> V], NEW n \in Nat
    PROVE  \E f \in [0 .. n -> V] : Recurs(f, a, h, n)
  <1> DEFINE N == {m \in Nat : \E f \in [0 .. m -> V] : Recurs(f, a, h, m)}
  <1>1. 0 \in N
    <2>1. [i \in 0 .. 0 |-> a] \in [0 .. 0 -> V] /\ Recurs([i \in 0 .. 0 |-> a], a, h, 0)
        BY DEF Recurs
    <2> QED BY <2>1
  <1>2. ASSUME NEW m \in N PROVE m + 1 \in N
    <2>1. PICK f \in [0 .. m -> V] : Recurs(f, a, h, m)
        OBVIOUS
    <2> DEFINE g == [i \in 0 .. m + 1 |-> IF i = m + 1 THEN h[<<f[m], m + 1>>] ELSE f[i]]
    <2>2. m \in Nat /\ m \in 0 .. m /\ h[<<f[m], m + 1>>] \in V
        OBVIOUS
    <2>3. g \in [0 .. m + 1 -> V] /\ g[m + 1] = h[<<f[m], m + 1>>] /\ \A i \in 0 .. m : g[i] = f[i]
        BY <2>2
    <2> HIDE DEF g
    <2>4. ASSUME NEW i \in 1 .. m + 1 PROVE g[i] = h[<<g[i - 1], i>>]
      <3>1. CASE i = m + 1
        <4>1. g[i - 1] = f[m] /\ i - 1 = m
            BY <2>2, <2>3, <3>1
        <4> QED BY <2>3, <3>1, <4>1
      <3>2. CASE i \in 1 .. m
        <4>1. g[i] = f[i] /\ g[i - 1] = f[i - 1]
            BY <2>2, <2>3, <3>2
        <4> QED BY <2>1, <3>2, <4>1 DEF Recurs
      <3> QED BY <2>2, <3>1, <3>2
    <2>5. Recurs(g, a, h, m + 1)
        BY <2>1, <2>2, <2>3, <2>4 DEF Recurs
    <2> QED BY <2>2, <2>3, <2>5
  <1>3. N = Nat
    <2> HIDE DEF N
    <2>1. N \in SUBSET Nat
        BY DEF N
    <2> QED BY <1>1, <1>2, <2>1, Induction
  <1> QED BY <1>3
--------------------------------------------------------------------------------
(* Counters *)

Digits == 0 .. Base - 1
IVs == [1 .. IVLen -> Digits]
Loops == [iv : IVs, left : Nat]

IsPower(f) == f = [n \in 0 .. IVLen |-> IF n = 0 THEN 1 ELSE Base * f[n - 1]]
IsValue(f, iv) == f = [i \in 0 .. IVLen |-> IF i = 0 THEN 0 ELSE f[i - 1] * Base + iv[i]]
IsLoop(f, iv, blocks) ==
    f = [i \in 0 .. IVLen - 1 |->
            IF i = 0 THEN [iv |-> iv, left |-> blocks] ELSE AddByte(f[i - 1], i)]

LEMMA Sizes == Base \in Nat /\ Base > 0 /\ IVLen \in Nat /\ Zeros \in Nat /\ 0 < Zeros /\ Zeros < IVLen
               /\ BlockSize \in Nat /\ BlockSize > 0
  BY StreamingAssumption

LEMMA Powers ==
    /\ Power[0] = 1
    /\ \A n \in 1 .. IVLen : Power[n] = Base * Power[n - 1]
    /\ \A n \in 0 .. IVLen : Power[n] \in Nat
  <1> DEFINE h == [x \in Nat \X Nat |-> Base * x[1]]
  <1>1. h \in [Nat \X Nat -> Nat] /\ \A v, i \in Nat : h[<<v, i>>] = Base * v
      BY Sizes
  <1>2. \E f : IsPower(f)
    <2> HIDE DEF h
    <2>0. IVLen \in Nat /\ 1 \in Nat
        BY Sizes
    <2>1. PICK f \in [0 .. IVLen -> Nat] : Recurs(f, 1, h, IVLen)
        BY <1>1, <2>0, Recursion
    <2>2. ASSUME NEW i \in 1 .. IVLen PROVE f[i] = Base * f[i - 1]
      <3>1. i \in Nat /\ i - 1 \in 0 .. IVLen
          BY <2>0
      <3>2. f[i - 1] \in Nat /\ f[i] = h[<<f[i - 1], i>>]
          BY <2>1, <3>1 DEF Recurs
      <3> QED BY <1>1, <3>1, <3>2
    <2>3. \A i \in 0 .. IVLen : f[i] = IF i = 0 THEN 1 ELSE Base * f[i - 1]
        BY <2>1, <2>2, Sizes DEF Recurs
    <2>4. IsPower(f)
        BY <2>1, <2>3 DEF IsPower
    <2> QED BY <2>4
  <1>3. IsPower(Power)
      BY <1>2, Zenon DEF Power, IsPower
  <1>4. ASSUME NEW f, NEW p, p = [n \in 0 .. IVLen |-> IF n = 0 THEN 1 ELSE Base * f[n - 1]]
        PROVE  p[0] = 1 /\ \A n \in 1 .. IVLen : p[n] = Base * f[n - 1]
      BY <1>4, Sizes
  <1>5. Power[0] = 1 /\ \A n \in 1 .. IVLen : Power[n] = Base * Power[n - 1]
      BY <1>3, <1>4, Zenon DEF IsPower
  <1> DEFINE N == {n \in Nat : n <= IVLen => Power[n] \in Nat}
  <1>6. 0 \in N
      BY <1>5
  <1>7. ASSUME NEW n \in N PROVE n + 1 \in N
    <2> SUFFICES ASSUME n + 1 <= IVLen PROVE Power[n + 1] \in Nat
        OBVIOUS
    <2>1. n \in Nat /\ Power[n] \in Nat /\ n + 1 \in 1 .. IVLen /\ (n + 1) - 1 = n
        BY Sizes
    <2>2. Power[n + 1] = Base * Power[n]
      <3> HIDE DEF N
      <3> QED BY <1>5, <2>1
    <2> QED BY <2>1, <2>2, Sizes
  <1>8. N = Nat
    <2> HIDE DEF N
    <2>1. N \in SUBSET Nat
        BY DEF N
    <2> QED BY <1>6, <1>7, <2>1, Induction
  <1> QED BY <1>5, <1>8, Sizes

(* The value of a counter is that of its digits, from the left. *)
LEMMA Values ==
    ASSUME NEW iv \in IVs
    PROVE  \E f \in [0 .. IVLen -> Nat] :
              /\ f[0] = 0 /\ Value(iv) = f[IVLen]
              /\ \A i \in 1 .. IVLen : f[i] = f[i - 1] * Base + iv[i]
  <1> DEFINE h == [x \in Nat \X Nat |-> IF x[2] \in 1 .. IVLen THEN x[1] * Base + iv[x[2]] ELSE 0]
             c == CHOOSE f : IsValue(f, iv)
  <1>0. \A i \in 1 .. IVLen : iv[i] \in Nat
      BY Sizes DEF IVs, Digits
  <1>1. /\ h \in [Nat \X Nat -> Nat]
        /\ \A v \in Nat, i \in 1 .. IVLen : h[<<v, i>>] = v * Base + iv[i]
      BY <1>0, Sizes
  <1>2. \E f : IsValue(f, iv)
    <2> HIDE DEF h
    <2>0. IVLen \in Nat /\ 0 \in Nat
        BY Sizes
    <2>1. PICK f \in [0 .. IVLen -> Nat] : Recurs(f, 0, h, IVLen)
        BY <1>1, <2>0, Recursion
    <2>2. ASSUME NEW i \in 1 .. IVLen PROVE f[i] = f[i - 1] * Base + iv[i]
      <3>1. i \in Nat /\ i - 1 \in 0 .. IVLen
          BY <2>0
      <3>2. f[i - 1] \in Nat /\ f[i] = h[<<f[i - 1], i>>]
          BY <2>1, <3>1 DEF Recurs
      <3> QED BY <1>1, <3>1, <3>2
    <2>3. \A i \in 0 .. IVLen : f[i] = IF i = 0 THEN 0 ELSE f[i - 1] * Base + iv[i]
        BY <2>1, <2>2, Sizes DEF Recurs
    <2>4. IsValue(f, iv)
        BY <2>1, <2>3 DEF IsValue
    <2> QED BY <2>4
  <1>3. IsValue(c, iv)
      BY <1>2, Zenon
  <1>4. Value(iv) = c[IVLen]
      BY Zenon DEF Value, IsValue
  <1> HIDE DEF c, h
  <1>5. ASSUME NEW f, NEW p, p = [i \in 0 .. IVLen |-> IF i = 0 THEN 0 ELSE f[i - 1] * Base + iv[i]]
        PROVE  /\ p[0] = 0 /\ DOMAIN p = 0 .. IVLen /\ p = [i \in 0 .. IVLen |-> p[i]]
               /\ \A i \in 1 .. IVLen : p[i] = f[i - 1] * Base + iv[i]
      BY <1>5, Sizes
  <1>6. /\ c[0] = 0 /\ c = [i \in 0 .. IVLen |-> c[i]]
        /\ \A i \in 1 .. IVLen : c[i] = c[i - 1] * Base + iv[i]
      BY <1>3, <1>5, Zenon DEF IsValue
  <1> DEFINE N == {n \in Nat : n <= IVLen => c[n] \in Nat}
  <1>7. 0 \in N
      BY <1>6
  <1>8. ASSUME NEW n \in N PROVE n + 1 \in N
    <2> SUFFICES ASSUME n + 1 <= IVLen PROVE c[n + 1] \in Nat
        OBVIOUS
    <2>1. n \in Nat /\ c[n] \in Nat /\ n + 1 \in 1 .. IVLen /\ (n + 1) - 1 = n
        BY Sizes
    <2>2. c[n + 1] = c[n] * Base + iv[n + 1]
      <3> HIDE DEF N
      <3> QED BY <1>6, <2>1
    <2> QED BY <1>0, <2>1, <2>2, Sizes
  <1>9. N = Nat
    <2> HIDE DEF N
    <2>1. N \in SUBSET Nat
        BY DEF N
    <2> QED BY <1>7, <1>8, <2>1, Induction
  <1>10. \A i \in 0 .. IVLen : c[i] \in Nat
      BY <1>9, Sizes
  <1> HIDE DEF N
  <1>11. c \in [0 .. IVLen -> Nat]
      BY <1>6, <1>10
  <1> QED BY <1>4, <1>6, <1>11

LEMMA Divides ==
    ASSUME NEW b \in Nat \ {0}, NEW x \in Nat
    PROVE  /\ x \div b \in Nat /\ x % b \in 0 .. b - 1 /\ x = (x \div b) * b + (x % b)
           /\ \A p \in Nat : x < b * p => x \div b < p
           /\ x < b => x \div b = 0 /\ x % b = x
  <1>1. PICK q, r \in Nat : q = x \div b /\ r = x % b
      OBVIOUS
  <1>2. r < b /\ x = q * b + r
      BY <1>1
  <1>3. ASSUME NEW p \in Nat, x < b * p PROVE q < p
    <2> SUFFICES ASSUME q >= p PROVE FALSE
        OBVIOUS
    <2>1. PICK d \in Nat : q = p + d
      <3>1. q - p \in Nat /\ q = p + (q - p)
          OBVIOUS
      <3> QED BY <3>1
    <2>2. q * b = b * p + d * b /\ d * b \in Nat
        BY <2>1
    <2> QED BY <1>2, <1>3, <2>2
  <1>4. x < b => q = 0 /\ r = x
    <2>1. ASSUME x < b PROVE q < 1
      <3>1. x < b * 1
          BY <2>1
      <3> QED BY <1>3, <3>1
    <2>2. q < 1 => q = 0 /\ q * b = 0
        OBVIOUS
    <2> QED BY <1>2, <2>1, <2>2
  <1> QED BY <1>1, <1>2, <1>3, <1>4

LEMMA DigitAdded ==
    ASSUME NEW b \in Nat \ {0}, NEW x \in Nat, NEW y \in Nat
    PROVE  (y + (x \div b)) * b + (x % b) = y * b + x
  <1>1. x \div b \in Nat /\ x % b \in Nat /\ x = (x \div b) * b + (x % b)
      BY Divides
  <1>2. PICK d \in Nat, r \in Nat : d = x \div b /\ r = x % b
      BY <1>1
  <1>3. (y + d) * b = y * b + d * b /\ y * b \in Nat /\ d * b \in Nat
      OBVIOUS
  <1> QED BY <1>1, <1>2, <1>3

(* One round of the loop: a byte that is zero becomes the digit to be added, *)
(* and there is no carry.                                                    *)
LEMMA RoundAdds ==
    ASSUME NEW v \in Loops, NEW i \in 1 .. IVLen - 1
    PROVE  LET w == AddByte(v, i)
           IN  /\ w \in Loops /\ w.left = v.left \div Base
               /\ v.iv[IVLen - i + 1] = 0 =>
                     /\ w.iv[IVLen - i + 1] = v.left % Base
                     /\ \A j \in 1 .. IVLen : j # IVLen - i + 1 => w.iv[j] = v.iv[j]
  <1>0. PICK iv \in IVs, left \in Nat : iv = v.iv /\ left = v.left /\ v = [iv |-> iv, left |-> left]
      BY DEF Loops
  <1>1. PICK p \in 1 .. IVLen, q \in 1 .. IVLen : p = IVLen - i + 1 /\ q = IVLen - i
      BY Sizes
  <1>2. p # q /\ iv[p] \in Digits /\ iv[q] \in Digits
      BY <1>1, Sizes DEF IVs
  <1>3. PICK b \in Nat \ {0} : b = Base
      BY Sizes
  <1>4. /\ left \div b \in Nat /\ left % b \in 0 .. b - 1
      BY Divides
  <1>5. CASE left = 0
    <2>1. AddByte(v, i) = v
        BY <1>0, <1>5 DEF AddByte
    <2>2. left \div b = 0 /\ left % b = 0
        BY <1>5, Divides
    <2> QED BY <1>0, <1>1, <1>3, <1>5, <2>1, <2>2
  <1>6. CASE left # 0
    <2>1. PICK sum \in Nat : sum = (left % b) + iv[p]
        BY <1>2, <1>3, <1>4 DEF Digits
    <2>2. PICK x : x = [iv EXCEPT ![p] = sum % b, ![q] = (iv[q] + (sum \div b)) % b]
        OBVIOUS
    <2>3. AddByte(v, i) = [iv |-> x, left |-> left \div b]
      <3>1. x = [iv EXCEPT ![p] = sum % b, ![q] = (@ + (sum \div b)) % b]
          BY <1>2, <2>2 DEF IVs
      <3> QED BY <1>0, <1>1, <1>3, <1>6, <2>1, <3>1 DEF AddByte
    <2>4. sum % b \in 0 .. b - 1 /\ sum \div b \in Nat
        BY <2>1, Divides
    <2>5. (iv[q] + (sum \div b)) % b \in 0 .. b - 1
      <3>1. PICK y \in Nat : y = iv[q] + (sum \div b)
          BY <1>2, <1>3, <2>4 DEF Digits
      <3> QED BY <3>1, Divides
    <2>6. x \in IVs /\ x[p] = sum % b /\ x[q] = (iv[q] + (sum \div b)) % b
          /\ \A j \in 1 .. IVLen : j # p /\ j # q => x[j] = iv[j]
        BY <1>2, <1>3, <2>2, <2>4, <2>5 DEF IVs, Digits
    <2>7. ASSUME iv[p] = 0 PROVE x[p] = left % b /\ x[q] = iv[q]
      <3>1. sum = left % b /\ sum < b
          BY <1>4, <2>1, <2>7
      <3>2. sum \div b = 0 /\ sum % b = sum
          BY <2>1, <3>1, Divides
      <3>3. PICK y \in Nat : y = iv[q] /\ y < b
          BY <1>2, <1>3 DEF Digits
      <3>4. y % b = y
          BY <3>3, Divides
      <3>5. x[q] = (y + 0) % b /\ y + 0 = y
          BY <2>6, <3>2, <3>3
      <3> QED BY <2>6, <3>1, <3>2, <3>3, <3>4, <3>5
    <2> QED BY <1>0, <1>1, <1>3, <1>4, <2>3, <2>6, <2>7 DEF Loops
  <1> QED BY <1>5, <1>6

(* The rounds of the loop of adjustIV. *)
LEMMA Rounds ==
    ASSUME NEW iv \in IVs, NEW start \in Nat
    PROVE  \E f \in [0 .. IVLen - 1 -> Loops] :
              /\ f[0].iv = iv /\ f[0].left = start \div BlockSize
              /\ AdjustIV(iv, start) = f[IVLen - 1].iv
              /\ \A i \in 1 .. IVLen - 1 : f[i] = AddByte(f[i - 1], i)
  <1> DEFINE h == [x \in Loops \X Nat |-> IF x[2] \in 1 .. IVLen - 1 THEN AddByte(x[1], x[2]) ELSE x[1]]
  <1>0. PICK blocks \in Nat, last \in Nat : blocks = start \div BlockSize /\ last = IVLen - 1
      BY Blocks, Sizes
  <1>1. PICK a \in Loops : a = [iv |-> iv, left |-> blocks]
      BY DEF Loops
  <1>2. h \in [Loops \X Nat -> Loops] /\ \A v \in Loops, i \in 1 .. last : h[<<v, i>>] = AddByte(v, i)
      BY <1>0, Sizes, RoundAdds
  <1>3. \E f : IsLoop(f, iv, blocks)
    <2> HIDE DEF h
    <2>1. PICK f \in [0 .. last -> Loops] : Recurs(f, a, h, last)
        BY <1>2, Recursion
    <2>2. ASSUME NEW i \in 1 .. last PROVE f[i] = AddByte(f[i - 1], i)
      <3>1. i - 1 \in 0 .. last
          OBVIOUS
      <3>2. f[i - 1] \in Loops /\ f[i] = h[<<f[i - 1], i>>]
          BY <2>1, <3>1 DEF Recurs
      <3> QED BY <1>2, <3>2
    <2>3. \A i \in 0 .. last : f[i] = IF i = 0 THEN [iv |-> iv, left |-> blocks] ELSE AddByte(f[i - 1], i)
        BY <1>1, <2>1, <2>2 DEF Recurs
    <2>4. f = [i \in 0 .. last |-> IF i = 0 THEN [iv |-> iv, left |-> blocks] ELSE AddByte(f[i - 1], i)]
        BY <2>1, <2>3
    <2>5. IsLoop(f, iv, blocks)
        BY <1>0, <2>4 DEF IsLoop
    <2> QED BY <2>5
  <1> HIDE DEF h
  <1>4. PICK c : c = CHOOSE f : IsLoop(f, iv, start \div BlockSize)
      OBVIOUS
  <1>5. IsLoop(c, iv, blocks)
      BY <1>0, <1>3, <1>4, Zenon
  <1>6. AdjustIV(iv, start) = c[last].iv
    <2>1. AdjustIV(iv, start) = (CHOOSE f : IsLoop(f, iv, start \div BlockSize))[IVLen - 1].iv
        BY Zenon DEF AdjustIV, IsLoop
    <2> QED BY <1>0, <1>4, <2>1
  <1>7. ASSUME NEW f, NEW p,
               p = [i \in 0 .. last |-> IF i = 0 THEN [iv |-> iv, left |-> blocks] ELSE AddByte(f[i - 1], i)]
        PROVE  /\ p[0] = [iv |-> iv, left |-> blocks] /\ p = [i \in 0 .. last |-> p[i]]
               /\ \A i \in 1 .. last : p[i] = AddByte(f[i - 1], i)
      BY <1>7
  <1>8. c = [i \in 0 .. last |-> IF i = 0 THEN [iv |-> iv, left |-> blocks] ELSE AddByte(c[i - 1], i)]
      BY <1>0, <1>5, Zenon DEF IsLoop
  <1>9. /\ c[0] = a /\ c = [i \in 0 .. last |-> c[i]]
        /\ \A i \in 1 .. last : c[i] = AddByte(c[i - 1], i)
      BY <1>1, <1>7, <1>8, Zenon
  <1> DEFINE N == {n \in Nat : n <= last => c[n] \in Loops}
  <1>10. 0 \in N
      BY <1>9
  <1>11. ASSUME NEW n \in N PROVE n + 1 \in N
    <2> SUFFICES ASSUME n + 1 <= last PROVE c[n + 1] \in Loops
        OBVIOUS
    <2>1. n \in Nat /\ c[n] \in Loops /\ n + 1 \in 1 .. last /\ (n + 1) - 1 = n
        OBVIOUS
    <2>2. c[n + 1] = AddByte(c[n], n + 1)
      <3> HIDE DEF N
      <3> QED BY <1>9, <2>1
    <2> QED BY <1>0, <2>1, <2>2, RoundAdds
  <1>12. N = Nat
    <2> HIDE DEF N
    <2>1. N \in SUBSET Nat
        BY DEF N
    <2> QED BY <1>10, <1>11, <2>1, Induction
  <1>a. \A i \in 0 .. last : c[i] \in Loops
      BY <1>12
  <1> HIDE DEF N
  <1>13. c \in [0 .. last -> Loops]
      BY <1>9, <1>a
  <1>14. c[0].iv = iv /\ c[0].left = blocks
      BY <1>1, <1>9
  <1> QED BY <1>0, <1>6, <1>9, <1>13, <1>14

(***************************************************************************)
(* After i rounds the last i bytes are digits of the number of blocks, the *)
(* others those of the counter, and what is left are the other digits.     *)
(***************************************************************************)
LEMMA Rounded ==
    ASSUME NEW iv \in IVs, \A j \in IVLen - Zeros + 1 .. IVLen : iv[j] = 0,
           NEW f \in [0 .. IVLen - 1 -> Loops], f[0].iv = iv, f[0].left < Power[Zeros],
           \A i \in 1 .. IVLen - 1 : f[i] = AddByte(f[i - 1], i)
    PROVE  /\ f[Zeros].left = 0
           /\ \A i \in 1 .. Zeros : f[i].left = f[i - 1].left \div Base
           /\ \A j \in 1 .. IVLen : f[IVLen - 1].iv[j] = IF j > IVLen - Zeros THEN f[IVLen - j].left % Base
                                                         ELSE iv[j]
  <1> DEFINE Done(i) ==
               /\ f[i].left < Power[Zeros - i]
               /\ \A j \in 1 .. IVLen : f[i].iv[j] = IF j > IVLen - i THEN f[IVLen - j].left % Base ELSE iv[j]
             N == {i \in Nat : i <= Zeros => Done(i)}
             M == {i \in Nat : Zeros + i <= IVLen - 1 => f[Zeros + i] = f[Zeros]}
  <1>0. PICK b \in Nat \ {0} : b = Base
      BY Sizes
  <1>1. ASSUME NEW i \in 1 .. IVLen - 1
        PROVE  /\ i - 1 \in 0 .. IVLen - 1 /\ i \in 0 .. IVLen - 1
               /\ f[i - 1] \in Loops /\ f[i] \in Loops /\ f[i - 1].left \in Nat
               /\ f[i].left = f[i - 1].left \div Base
               /\ f[i - 1].iv[IVLen - i + 1] = 0 =>
                     /\ f[i].iv[IVLen - i + 1] = f[i - 1].left % Base
                     /\ \A j \in 1 .. IVLen : j # IVLen - i + 1 => f[i].iv[j] = f[i - 1].iv[j]
    <2>1. i - 1 \in 0 .. IVLen - 1 /\ i \in 0 .. IVLen - 1
        BY Sizes
    <2>2. f[i - 1] \in Loops /\ f[i] \in Loops /\ f[i - 1].left \in Nat
        BY <2>1 DEF Loops
    <2> QED BY <2>1, <2>2, RoundAdds
  <1>2. 0 \in N
    <2>1. Zeros - 0 = Zeros /\ \A j \in 1 .. IVLen : ~(j > IVLen - 0)
        BY Sizes
    <2> QED BY <2>1
  <1>3. ASSUME NEW k \in N PROVE k + 1 \in N
    <2> SUFFICES ASSUME k + 1 <= Zeros PROVE Done(k + 1)
        OBVIOUS
    <2>2. Done(k) /\ k \in Nat /\ k < Zeros
        BY Sizes
    <2>c. k \in Nat /\ k < Zeros
        BY <2>2
    <2> HIDE DEF N, Done
    <2>a. k + 1 \in 1 .. IVLen - 1 /\ (k + 1) - 1 = k
        BY <2>c, Sizes
    <2>1. PICK i \in 1 .. IVLen - 1 : i = k + 1 /\ i - 1 = k /\ i <= Zeros
        BY <2>a
    <2>3. f[k].left < Power[Zeros - k] /\ f[k].left \in Nat /\ f[i].left = f[k].left \div b
        BY <1>0, <1>1, <2>1, <2>2 DEF Done
    <2>4. f[i].left < Power[Zeros - i]
      <3>1. Zeros - k \in 1 .. IVLen /\ (Zeros - k) - 1 = Zeros - i /\ Zeros - i \in 0 .. IVLen
          BY <2>1, <2>2, Sizes
      <3>2. Power[Zeros - k] = b * Power[Zeros - i] /\ Power[Zeros - i] \in Nat
          BY <1>0, <3>1, Powers
      <3>3. PICK x \in Nat, p \in Nat : x = f[k].left /\ p = Power[Zeros - i] /\ x < b * p
          BY <2>3, <3>2
      <3>4. x \div b < p
          BY <3>3, Divides
      <3> QED BY <2>3, <3>3, <3>4
    <2>b. /\ IVLen - i + 1 \in 1 .. IVLen /\ IVLen - (IVLen - i + 1) = k
          /\ IVLen - i + 1 \in IVLen - Zeros + 1 .. IVLen
        BY <2>1, <2>2, Sizes
    <2>5. PICK p \in 1 .. IVLen : p = IVLen - i + 1 /\ IVLen - p = k /\ p \in IVLen - Zeros + 1 .. IVLen
        BY <2>b
    <2>6. f[k].iv[p] = 0
      <3>1. ~(p > IVLen - k)
          BY <2>1, <2>2, <2>5, Sizes
      <3>2. f[k].iv[p] = iv[p]
          BY <2>2, <3>1 DEF Done
      <3> QED BY <2>5, <3>2
    <2>7. f[i].iv[p] = f[k].left % Base /\ \A j \in 1 .. IVLen : j # p => f[i].iv[j] = f[k].iv[j]
        BY <1>1, <2>1, <2>5, <2>6
    <2>8. ASSUME NEW j \in 1 .. IVLen
          PROVE  f[i].iv[j] = IF j > IVLen - i THEN f[IVLen - j].left % Base ELSE iv[j]
      <3>1. CASE j = p
        <4>1. j > IVLen - i /\ IVLen - j = k
            BY <2>5, <3>1, Sizes
        <4> QED BY <2>7, <3>1, <4>1
      <3>2. CASE j # p
        <4>1. f[i].iv[j] = f[k].iv[j]
            BY <2>7, <3>2
        <4>2. j > IVLen - i <=> j > IVLen - k
            BY <2>1, <2>2, <2>5, <3>2, Sizes
        <4> QED BY <2>2, <4>1, <4>2 DEF Done
      <3> QED BY <3>1, <3>2
    <2> QED BY <2>1, <2>4, <2>8 DEF Done
  <1>4. N = Nat
    <2> HIDE DEF N
    <2>1. N \in SUBSET Nat
        BY DEF N
    <2> QED BY <1>2, <1>3, <2>1, Induction
  <1>5. Done(Zeros)
    <2> HIDE DEF Done
    <2>1. Zeros \in N /\ Zeros <= Zeros
        BY <1>4, Sizes
    <2> QED BY <2>1
  <1>6. f[Zeros].left = 0
    <2>1. Zeros - Zeros = 0 /\ Zeros \in 1 .. IVLen - 1
        BY Sizes
    <2>2. f[Zeros].left < 1
        BY <1>5, <2>1, Powers
    <2>3. f[Zeros].left \in Nat
        BY <1>1, <2>1 DEF Loops
    <2> QED BY <2>2, <2>3
  <1>7. 0 \in M
    <2>1. Zeros + 0 = Zeros
        BY Sizes
    <2> QED BY <2>1
  <1>8. ASSUME NEW k \in M PROVE k + 1 \in M
    <2> SUFFICES ASSUME Zeros + (k + 1) <= IVLen - 1 PROVE f[Zeros + (k + 1)] = f[Zeros]
        OBVIOUS
    <2>1. PICK i \in 1 .. IVLen - 1 : i = Zeros + (k + 1) /\ i - 1 = Zeros + k
        BY Sizes
    <2>2. f[i - 1] = f[Zeros]
        BY <2>1, Sizes
    <2>3. f[i] = AddByte(f[i - 1], i) /\ f[i - 1].left = 0
      <3> HIDE DEF M
      <3> QED BY <1>6, <2>1, <2>2
    <2>4. f[i] = f[i - 1]
      <3> HIDE DEF M
      <3> QED BY <2>3 DEF AddByte
    <2> QED BY <2>1, <2>2, <2>4
  <1>9. M = Nat
    <2> HIDE DEF M
    <2>1. M \in SUBSET Nat
        BY DEF M
    <2> QED BY <1>7, <1>8, <2>1, Induction
  <1>10. f[IVLen - 1] = f[Zeros]
    <2>1. PICK k \in Nat : Zeros + k = IVLen - 1
      <3>1. IVLen - 1 - Zeros \in Nat /\ Zeros + (IVLen - 1 - Zeros) = IVLen - 1
          BY Sizes
      <3> QED BY <3>1
    <2>2. k \in M
        BY <1>9
    <2>3. Zeros + k <= IVLen - 1
        BY <2>1, Sizes
    <2>4. f[Zeros + k] = f[Zeros]
        BY <2>2, <2>3
    <2> QED BY <2>1, <2>4
  <1> HIDE DEF N, M
  <1>11. \A i \in 1 .. Zeros : f[i].left = f[i - 1].left \div Base
    <2>1. \A i \in 1 .. Zeros : i \in 1 .. IVLen - 1
        BY Sizes
    <2> QED BY <1>1, <2>1
  <1> QED BY <1>5, <1>6, <1>10, <1>11

(***************************************************************************)
(* adjustIV adds the blocks that a range skips to the counter, for every   *)
(* counter that CreateIV makes and every byte of the content, whatever the *)
(* number of bytes that the sum runs through.                              *)
(***************************************************************************)
THEOREM BlocksAreCounted ==
    ASSUME NEW rev \in Stored, NEW start \in 0 .. rev.size - 1
    PROVE  /\ Value(rev.iv) \in Nat
           /\ Value(AdjustIV(rev.iv, start)) = Value(rev.iv) + (start \div BlockSize)
  <1>0. /\ rev.iv \in IVs /\ rev.size \in Nat /\ rev.size <= BlockSize * Power[Zeros]
        /\ \A j \in IVLen - Zeros + 1 .. IVLen : rev.iv[j] = 0
      BY DEF Stored, IVs, Digits
  <1>a. start \in Nat
      BY <1>0
  <1>b. start \div BlockSize \in Nat
      BY <1>a, Blocks
  <1>1. PICK iv \in IVs, blocks \in Nat : iv = rev.iv /\ blocks = start \div BlockSize /\ start \in Nat
      BY <1>0, <1>a, <1>b
  <1>2. blocks < Power[Zeros]
    <2>1. PICK p \in Nat, b \in Nat \ {0} : p = Power[Zeros] /\ b = BlockSize
        BY Powers, Sizes
    <2>2. start < b * p
        BY <1>0, <1>1, <2>1
    <2> QED BY <1>1, <2>1, <2>2, Divides
  <1>3. PICK f \in [0 .. IVLen - 1 -> Loops] :
              /\ f[0].iv = iv /\ f[0].left = blocks
              /\ AdjustIV(iv, start) = f[IVLen - 1].iv
              /\ \A i \in 1 .. IVLen - 1 : f[i] = AddByte(f[i - 1], i)
      BY <1>1, Rounds
  <1>4. PICK w \in IVs : w = f[IVLen - 1].iv
      BY <1>3, Sizes DEF Loops
  <1>5. /\ f[Zeros].left = 0
        /\ \A i \in 1 .. Zeros : f[i].left = f[i - 1].left \div Base
        /\ \A j \in 1 .. IVLen : w[j] = IF j > IVLen - Zeros THEN f[IVLen - j].left % Base ELSE iv[j]
      BY <1>0, <1>1, <1>2, <1>3, <1>4, Rounded
  <1>6. PICK g \in [0 .. IVLen -> Nat] : /\ g[0] = 0 /\ Value(iv) = g[IVLen]
                                         /\ \A i \in 1 .. IVLen : g[i] = g[i - 1] * Base + iv[i]
      BY Values
  <1>7. PICK h \in [0 .. IVLen -> Nat] : /\ h[0] = 0 /\ Value(w) = h[IVLen]
                                         /\ \A i \in 1 .. IVLen : h[i] = h[i - 1] * Base + w[i]
      BY Values
  <1> DEFINE N == {n \in Nat : n <= IVLen - Zeros => h[n] = g[n]}
             M == {m \in Nat : m <= Zeros => h[IVLen - Zeros + m] = g[IVLen - Zeros + m] + f[Zeros - m].left}
  <1>8. 0 \in N
      BY <1>6, <1>7
  <1>9. ASSUME NEW n \in N PROVE n + 1 \in N
    <2> SUFFICES ASSUME n + 1 <= IVLen - Zeros PROVE h[n + 1] = g[n + 1]
        OBVIOUS
    <2>1. h[n] = g[n] /\ n + 1 \in 1 .. IVLen /\ (n + 1) - 1 = n /\ ~(n + 1 > IVLen - Zeros)
        BY Sizes
    <2> HIDE DEF N
    <2>2. w[n + 1] = iv[n + 1]
        BY <1>5, <2>1
    <2> QED BY <1>6, <1>7, <2>1, <2>2
  <1>10. N = Nat
    <2> HIDE DEF N
    <2>1. N \in SUBSET Nat
        BY DEF N
    <2> QED BY <1>8, <1>9, <2>1, Induction
  <1>11. 0 \in M
    <2>1. PICK k \in Nat : k = IVLen - Zeros /\ IVLen - Zeros + 0 = k /\ k \in 0 .. IVLen /\ Zeros - 0 = Zeros
        BY Sizes
    <2>2. h[k] = g[k]
        BY <1>10, <2>1
    <2> QED BY <1>5, <2>1, <2>2
  <1>12. ASSUME NEW m \in M PROVE m + 1 \in M
    <2> SUFFICES ASSUME m + 1 <= Zeros
                 PROVE  h[IVLen - Zeros + (m + 1)] = g[IVLen - Zeros + (m + 1)] + f[Zeros - (m + 1)].left
        OBVIOUS
    <2>1. m \in Nat /\ h[IVLen - Zeros + m] = g[IVLen - Zeros + m] + f[Zeros - m].left
        BY Sizes
    <2> HIDE DEF M, N
    <2>2. PICK j \in 1 .. IVLen, i \in 1 .. Zeros :
             /\ j = IVLen - Zeros + (m + 1) /\ j - 1 = IVLen - Zeros + m /\ j > IVLen - Zeros
             /\ i = Zeros - m /\ i - 1 = Zeros - (m + 1) /\ IVLen - j = i - 1
             /\ j \in IVLen - Zeros + 1 .. IVLen /\ i - 1 \in 0 .. IVLen - 1 /\ j - 1 \in 0 .. IVLen
        BY <2>1, Sizes
    <2>3. Base \in Nat \ {0} /\ f[i - 1].left \in Nat /\ g[j - 1] \in Nat
      <3>1. f[i - 1] \in Loops
          BY <2>2
      <3>2. g[j - 1] \in Nat
          BY <2>2
      <3>3. f[i - 1].left \in Nat
          BY <3>1 DEF Loops
      <3>4. Base \in Nat \ {0}
          BY Sizes
      <3> QED BY <3>2, <3>3, <3>4
    <2>4. iv[j] = 0 /\ w[j] = f[i - 1].left % Base /\ f[i].left = f[i - 1].left \div Base
        BY <1>0, <1>1, <1>5, <2>2
    <2>5. h[j - 1] = g[j - 1] + (f[i - 1].left \div Base)
        BY <2>1, <2>2, <2>4
    <2>6. h[j] = h[j - 1] * Base + w[j] /\ g[j] = g[j - 1] * Base + iv[j]
        BY <1>6, <1>7, <2>2
    <2>7. h[j] = (g[j - 1] + (f[i - 1].left \div Base)) * Base + (f[i - 1].left % Base)
        BY <2>4, <2>5, <2>6
    <2>8. h[j] = g[j - 1] * Base + f[i - 1].left
        BY <2>3, <2>7, DigitAdded
    <2>9. g[j] = g[j - 1] * Base
      <3>1. PICK y \in Nat, b \in Nat : y = g[j - 1] /\ b = Base
          BY <2>3
      <3>2. y * b + 0 = y * b
          OBVIOUS
      <3> QED BY <2>4, <2>6, <3>1, <3>2
    <2> QED BY <2>2, <2>8, <2>9
  <1>13. M = Nat
    <2> HIDE DEF M
    <2>1. M \in SUBSET Nat
        BY DEF M
    <2> QED BY <1>11, <1>12, <2>1, Induction
  <1>14. h[IVLen] = g[IVLen] + blocks
    <2>1. Zeros \in M
        BY <1>13, Sizes
    <2>2. IVLen - Zeros + Zeros = IVLen /\ Zeros - Zeros = 0
        BY Sizes
    <2> QED BY <1>3, <2>1, <2>2, Sizes
  <1> HIDE DEF M, N
  <1>15. g[IVLen] \in Nat
      BY <1>6, Sizes
  <1> QED BY <1>1, <1>3, <1>4, <1>6, <1>7, <1>14, <1>15
--------------------------------------------------------------------------------
(* The rows *)

LEMMA RowsStart == Init => RowInv
  <1> SUFFICES ASSUME Init PROVE RowInv
      OBVIOUS
  <1>1. \A o \in Objs : Revisions[o] \in Seq(Stored) \ {<<>>}
      BY StreamingAssumption
  <1> QED BY <1>1 DEF Init, Rows, RowInv

LEMMA RowsGrow ==
    ASSUME RowInv, NEW o \in Objs, StoreRevision(o) \/ TrashObject(o) \/ Withdraw(o)
    PROVE  RowInv' /\ \A p \in Objs : Grows(row[p], row'[p])
  <1>1. /\ row[o] \in Rows /\ row \in [Objs -> Rows]
        /\ row[o].revs \in Seq(Stored) /\ row[o].revs # <<>>
      BY DEF RowInv, Rows
  <1>2. PICK t \in Rows : row' = [row EXCEPT ![o] = t] /\ Grows(row[o], t)
    <2>1. CASE StoreRevision(o)
      <3>1. PICK revs : revs = Append(row[o].revs, NewRevision)
          OBVIOUS
      <3>2. NewRevision \in Stored
          BY StreamingAssumption
      <3>3. /\ revs \in Seq(Stored) /\ revs # <<>> /\ DOMAIN row[o].revs \subseteq DOMAIN revs
            /\ \A i \in DOMAIN row[o].revs : revs[i] = row[o].revs[i]
          BY <1>1, <3>1, <3>2
      <3>4. PICK t : t = [row[o] EXCEPT !.revs = revs]
          OBVIOUS
      <3>5. t \in Rows /\ t.revs = revs /\ t.deleted = row[o].deleted /\ t.access = row[o].access
          BY <1>1, <3>3, <3>4 DEF Rows
      <3>6. row' = [row EXCEPT ![o] = t]
          BY <1>1, <2>1, <3>1, <3>4 DEF StoreRevision
      <3> QED BY <3>3, <3>5, <3>6 DEF Grows
    <2>2. CASE TrashObject(o) \/ Withdraw(o)
      <3>1. PICK t : /\ t = [row[o] EXCEPT !.deleted = TRUE] \/ t = [row[o] EXCEPT !.access = FALSE]
                     /\ row' = [row EXCEPT ![o] = t]
          BY <1>1, <2>2 DEF TrashObject, Withdraw
      <3>2. t \in Rows /\ t.revs = row[o].revs /\ (t.access => row[o].access)
            /\ (row[o].deleted => t.deleted)
          BY <1>1, <3>1 DEF Rows
      <3> QED BY <3>1, <3>2 DEF Grows
    <2> QED BY <2>1, <2>2
  <1>3. /\ row' \in [Objs -> Rows] /\ row'[o] = t
        /\ \A p \in Objs : p # o => row'[p] = row[p]
      BY <1>1, <1>2
  <1>4. \A p \in Objs : Grows(row[p], row'[p])
      BY <1>2, <1>3 DEF Grows
  <1> QED BY <1>3, <1>4 DEF RowInv
--------------------------------------------------------------------------------
(* Downloads *)

LEMMA IdleType == Idle \in Gets /\ Idle.st = "idle" /\ Idle.sent = <<>> /\ Idle.n = 0 /\ Idle.status = 0
  <1>1. (CHOOSE o \in Objs : TRUE) \in Objs
      BY StreamingAssumption
  <1>2. NoRange \in AnyRange
      BY DEF NoRange, AnyRange, Open
  <1>3. <<>> \in Seq(Int)
      OBVIOUS
  <1> QED BY <1>1, <1>2, <1>3 DEF Idle, Gets, Counters, States, Bytes

LEMMA IdleOk ==
    ASSUME NEW rows
    PROVE  GetOk(Idle, rows) /\ BytesOk(Idle, rows)
  <1>1. DOMAIN Idle.sent = {}
      BY IdleType
  <1> QED BY <1>1, IdleType DEF GetOk, BytesOk

(* What is known of the revision a download is of. *)
LEMMA RevisionType ==
    ASSUME RowInv, NEW o \in Objs, NEW k \in DOMAIN row[o].revs
    PROVE  /\ k \in Nat /\ row[o].revs[k] \in Stored
           /\ row[o].revs[k].size \in Nat /\ row[o].revs[k].iv \in [1 .. IVLen -> 0 .. Base - 1]
  <1>1. row[o].revs \in Seq(Stored)
      BY DEF RowInv, Rows
  <1>2. k \in Nat /\ row[o].revs[k] \in Stored
      BY <1>1
  <1> QED BY <1>2 DEF Stored, RowInv

LEMMA RangeType ==
    ASSUME NEW range \in AnyRange
    PROVE  /\ range.start \in Nat /\ range.stop \in Int /\ range.given \in BOOLEAN
           /\ range.stop # Open => range.stop \in Nat
    BY DEF AnyRange, Open

(* A range that the server takes for one without an end has none, and any   *)
(* other keeps its end.                                                     *)
LEMMA TakenType ==
    ASSUME NEW range \in AnyRange
    PROVE  /\ Taken(range).start = range.start /\ Taken(range).stop \in Int
           /\ Taken(range).stop # Open => /\ Taken(range).stop \in Nat
                                         /\ StopLeft(range) # Open
                                         /\ StopLeft(range) = Taken(range).stop - BlockSize * (range.start \div BlockSize)
           /\ Taken(range).stop = Open <=> StopLeft(range) = Open
           /\ range.stop # Open /\ range.start <= range.stop => Taken(range) = range
           /\ range.stop = Open => Taken(range).stop = Open
  <1>1. PICK start \in Nat, stop \in Int :
           start = range.start /\ stop = range.stop /\ (stop # Open => stop \in Nat)
      BY RangeType
  <1>2. PICK from \in Nat, skip \in Nat : from = BlockSize * (start \div BlockSize) /\ start = from + skip
      BY Blocks
  <1>3. StopLeft(range) = IF stop = Open THEN Open ELSE stop - from
      BY <1>1, <1>2 DEF StopLeft
  <1>4. Taken(range) = IF stop + 1 = from THEN [range EXCEPT !.stop = Open] ELSE range
      BY <1>1, <1>2 DEF Taken
  <1>5. /\ [range EXCEPT !.stop = Open].stop = Open
        /\ [range EXCEPT !.stop = Open].start = start
      BY <1>1 DEF AnyRange
  <1>6. CASE stop + 1 = from
      BY <1>1, <1>2, <1>3, <1>4, <1>5, <1>6 DEF Open
  <1>7. CASE stop + 1 # from
    <2>1. Taken(range) = range
        BY <1>4, <1>7
    <2>2. CASE stop = Open
        BY <1>1, <1>3, <2>1, <2>2
    <2>3. CASE stop # Open
      <3>1. StopLeft(range) = stop - from /\ stop - from # Open /\ stop \in Nat
          BY <1>1, <1>3, <1>7, <2>3 DEF Open
      <3> QED BY <1>1, <1>2, <2>1, <2>3, <3>1
    <2> QED BY <2>2, <2>3
  <1> QED BY <1>6, <1>7

LEMMA StreamStarts ==
    ASSUME RowInv, NEW o \in Objs, NEW k \in DOMAIN row[o].revs, NEW range \in Ranges,
           NEW cached \in BOOLEAN, GetAndStreamFile(o, k, range, cached)
    PROVE  GetOk(get', row) /\ BytesOk(get', row)
  <1>1. PICK size \in Nat : size = row[o].revs[k].size /\ k \in Nat
      BY RevisionType
  <1>2. range \in AnyRange /\ (range.given \/ range = NoRange)
      BY StreamingAssumption DEF AnyRange
  <1>3. range.start \in Nat /\ range.stop \in Int /\ range.given \in BOOLEAN
      BY <1>2, RangeType
  <1>4. CASE size = 0 \/ cached
    <2>1. PICK status \in {204, 304} : get' = [Idle EXCEPT !.st = "done", !.obj = o, !.rev = k,
                                                          !.status = status]
        BY <1>1, <1>4 DEF GetAndStreamFile
    <2>2. get' = [st |-> "done", obj |-> o, rev |-> k, range |-> NoRange, status |-> status,
                  length |-> 0, iv |-> <<>>, n |-> 0, sent |-> <<>>]
        BY <2>1 DEF Idle
    <2>3. get' \in Gets
      <3>1. <<>> \in Counters /\ <<>> \in Seq(Int) /\ NoRange \in AnyRange
          BY DEF Counters, NoRange, AnyRange, Open
      <3> QED BY <1>1, <2>2, <3>1 DEF Gets, States, Bytes
    <2>4. /\ get'.st = "done" /\ get'.obj = o /\ get'.rev = k /\ get'.status \in {204, 304}
          /\ get'.sent = <<>>
        BY <2>2
    <2> QED BY <2>3, <2>4 DEF GetOk, BytesOk
  <1>5. CASE ~(size = 0 \/ cached)
    <2>1. PICK length : length = ContentLength(size, range)
        OBVIOUS
    <2>2. length \in Int
        BY <1>3, <2>1 DEF ContentLength
    <2>3. PICK status : status = IF range.given THEN 206 ELSE 200
        OBVIOUS
    <2>a. status \in {200, 206}
        BY <2>3
    <2>b. get' = [Idle EXCEPT !.st = "headers", !.obj = o, !.rev = k, !.range = range,
                              !.status = status, !.length = length]
        BY <1>1, <1>5, <2>1, <2>3 DEF GetAndStreamFile
    <2>c. PICK g : g = [st |-> "headers", obj |-> o, rev |-> k, range |-> range, status |-> status,
                        length |-> length, iv |-> <<>>, n |-> 0, sent |-> <<>>]
        OBVIOUS
    <2>d. get' = g
      <3>1. get' = [st |-> "headers", obj |-> o, rev |-> k, range |-> range, status |-> status,
                        length |-> length, iv |-> <<>>, n |-> 0, sent |-> <<>>]
          BY <2>b DEF Idle
      <3> QED BY <2>c, <3>1
    <2>5. /\ g.st = "headers" /\ g.obj = o /\ g.rev = k /\ g.range = range /\ g.n = 0
          /\ g.length = length /\ g.sent = <<>> /\ g.status = status
        BY <2>c
    <2>4. g \in Gets
      <3>1. <<>> \in Counters /\ <<>> \in Seq(Int)
          BY DEF Counters
      <3> QED BY <1>1, <1>2, <2>2, <2>a, <2>c, <3>1 DEF Gets, States, Bytes
    <2>6. Skipped(g) \in Nat
        BY <1>3, <2>5, Blocks DEF Skipped
    <2>7. Progress(g, size)
        BY <2>5, <2>6 DEF Progress
    <2> QED BY <1>1, <1>2, <2>1, <2>a, <2>d, <2>4, <2>5, <2>7 DEF GetOk, BytesOk
  <1> QED BY <1>4, <1>5

(* A download goes on with the rows as they have become meanwhile. *)
LEMMA RowsMayGrow ==
    ASSUME RowInv, GetOk(get, row), NEW rows, \A p \in Objs : Grows(row[p], rows[p])
    PROVE  GetOk(get, rows) /\ (BytesOk(get, row) => BytesOk(get, rows))
  <1>1. get.obj \in Objs /\ get \in Gets
      BY DEF GetOk, Gets
  <1>2. get.st # "idle" => /\ get.rev \in DOMAIN rows[get.obj].revs
                           /\ rows[get.obj].revs[get.rev] = row[get.obj].revs[get.rev]
      BY <1>1 DEF GetOk, Grows
  <1> QED BY <1>1, <1>2 DEF GetOk, BytesOk

LEMMA StateSet ==
    ASSUME NEW h \in Gets, NEW st \in States, NEW g, g = [h EXCEPT !.st = st]
    PROVE  /\ g \in Gets /\ g.st = st /\ g.iv = h.iv /\ g.obj = h.obj /\ g.rev = h.rev
           /\ g.n = h.n /\ g.range = h.range /\ g.status = h.status
           /\ g.length = h.length /\ g.sent = h.sent
    BY DEF Gets

LEMMA CiphertextOpened ==
    ASSUME GetInv, OpenCiphertext
    PROVE  GetOk(get', row) /\ (BytesOk(get, row) => BytesOk(get', row))
  <1>1. get \in Gets /\ get.st = "headers" /\ get.status \in {200, 206} /\ GetOk(get, row)
      BY DEF GetInv, GetOk, OpenCiphertext
  <1>2. get.obj \in Objs /\ get.range \in AnyRange /\ get.rev \in DOMAIN row[get.obj].revs
      BY <1>1 DEF GetOk, Gets
  <1>3. PICK iv : iv = AdjustIV(row[get.obj].revs[get.rev].iv, get.range.start)
      OBVIOUS
  <1>4. iv \in Counters
      BY <1>2, <1>3, RevisionType, RangeType DEF GetInv, Counters
  <1>5. PICK g : g = [get EXCEPT !.st = "sending", !.iv = iv]
      OBVIOUS
  <1>6. PICK h : h = [get EXCEPT !.iv = iv]
      OBVIOUS
  <1>a. /\ h \in Gets /\ h.iv = iv /\ h.st = get.st /\ h.obj = get.obj /\ h.rev = get.rev
        /\ h.n = get.n /\ h.range = get.range /\ h.status = get.status
        /\ h.length = get.length /\ h.sent = get.sent
      BY <1>1, <1>4, <1>6 DEF Gets
  <1>b. g = [h EXCEPT !.st = "sending"]
      BY <1>1, <1>5, <1>6 DEF Gets
  <1>c. "sending" \in States
      BY DEF States
  <1>7. /\ g \in Gets /\ g.st = "sending" /\ g.iv = iv /\ g.obj = get.obj /\ g.rev = get.rev
        /\ g.n = get.n /\ g.range = get.range /\ g.status = get.status
        /\ g.length = get.length /\ g.sent = get.sent
      BY <1>a, <1>b, <1>c, StateSet
  <1>8. get' = g
      BY <1>3, <1>5 DEF OpenCiphertext
  <1>9. \A size : Progress(get, size) => Progress(g, size)
      BY <1>7 DEF Progress, Skipped, FirstRead
  <1>10. GetOk(g, row)
      BY <1>1, <1>7, <1>9 DEF GetOk
  <1>11. BytesOk(get, row) => BytesOk(g, row)
      BY <1>3, <1>7 DEF BytesOk
  <1> QED BY <1>8, <1>10, <1>11

LEMMA DownloadFailed ==
    ASSUME GetInv, DownloadFails
    PROVE  GetOk(get', row) /\ (BytesOk(get, row) => BytesOk(get', row))
  <1>1. get \in Gets /\ get.st # "idle" /\ GetOk(get, row)
      BY DEF GetInv, GetOk, DownloadFails
  <1>2. PICK g : g = [get EXCEPT !.st = "failed"]
      OBVIOUS
  <1>3. /\ g \in Gets /\ g.st = "failed" /\ g.obj = get.obj /\ g.rev = get.rev /\ g.n = get.n
        /\ g.range = get.range /\ g.status = get.status /\ g.length = get.length
        /\ g.sent = get.sent
      BY <1>1, <1>2 DEF Gets, States, Bytes
  <1>4. get' = g
      BY <1>2 DEF DownloadFails
  <1>5. \A size : Progress(get, size) => Progress(g, size)
      BY <1>3 DEF Progress, Skipped, FirstRead
  <1>6. GetOk(g, row)
      BY <1>1, <1>3, <1>5 DEF GetOk
  <1>7. BytesOk(get, row) => BytesOk(g, row)
      BY <1>3 DEF BytesOk
  <1> QED BY <1>4, <1>6, <1>7

(* What a byte decrypts to: with the right counter, its place. *)
LEMMA Deciphered ==
    ASSUME NEW iv, NEW v, NEW q \in Nat, NEW n \in Nat
    PROVE  LET x == Decipher(Cipher(iv, BlockSize * q + n), v, n)
           IN  /\ x \in Int
               /\ Value(iv) \in Nat /\ Value(v) = Value(iv) + q => x = BlockSize * q + n
  <1>1. PICK p : p = BlockSize * q + n
      OBVIOUS
  <1>2. p \in Nat /\ p \div BlockSize = q + (n \div BlockSize) /\ p % BlockSize = n % BlockSize
    <2>1. PICK b \in Nat : b = BlockSize
        BY StreamingAssumption
    <2>2. b * q + n \in Nat
        OBVIOUS
    <2> QED BY <1>1, <2>1, <2>2, LaterBlocks
  <1>3. PICK c : c = [at |-> p, ctr |-> Counter(iv, p \div BlockSize), off |-> p % BlockSize]
      OBVIOUS
  <1>4. c.at = p /\ c.ctr = Counter(iv, q + (n \div BlockSize)) /\ c.off = n % BlockSize
      BY <1>2, <1>3
  <1>5. Decipher(Cipher(iv, BlockSize * q + n), v, n) =
           IF c.ctr = Counter(v, n \div BlockSize) /\ c.off = n % BlockSize THEN p ELSE Garbage
      BY <1>1, <1>3, <1>4 DEF Decipher, Cipher
  <1>6. ASSUME Value(iv) \in Nat, Value(v) = Value(iv) + q
        PROVE  Counter(v, n \div BlockSize) = Counter(iv, q + (n \div BlockSize))
    <2>1. PICK m \in Nat : m = n \div BlockSize
        BY Blocks
    <2>2. Value(v) + m = Value(iv) + (q + m)
        BY <1>6
    <2> QED BY <2>1, <2>2 DEF Counter
  <1> QED BY <1>1, <1>2, <1>4, <1>5, <1>6 DEF Garbage

(* A download that differs in what it has read and sent. *)
Reads(g, h, n, sent) ==
    /\ g \in Gets /\ g.n = n /\ g.sent = sent /\ g.st = h.st /\ g.iv = h.iv
    /\ g.obj = h.obj /\ g.rev = h.rev /\ g.range = h.range /\ g.status = h.status
    /\ g.length = h.length

LEMMA BytesSet ==
    ASSUME NEW h \in Gets, NEW n \in Nat, NEW sent \in Bytes
    PROVE  Reads([h EXCEPT !.n = n, !.sent = sent], h, n, sent)
  <1>1. /\ h.st \in States /\ h.obj \in Objs /\ h.rev \in Nat /\ h.range \in AnyRange
        /\ h.status \in {0, 200, 204, 206, 304} /\ h.length \in Int /\ h.iv \in Counters
      BY DEF Gets
  <1>2. [h EXCEPT !.n = n, !.sent = sent] =
           [st |-> h.st, obj |-> h.obj, rev |-> h.rev, range |-> h.range, status |-> h.status,
            length |-> h.length, iv |-> h.iv, n |-> n, sent |-> sent]
    <2>1. DOMAIN h = {"st", "obj", "rev", "range", "status", "length", "iv", "n", "sent"}
          /\ h = [x \in DOMAIN h |-> h[x]]
        BY DEF Gets
    <2>2. PICK e : e = [h EXCEPT !.n = n, !.sent = sent]
        OBVIOUS
    <2>3. /\ DOMAIN e = DOMAIN h /\ e = [x \in DOMAIN h |-> e[x]]
          /\ \A x \in DOMAIN h : e[x] = IF x = "n" THEN n ELSE IF x = "sent" THEN sent ELSE h[x]
        BY <2>1, <2>2
    <2> QED BY <2>1, <2>2, <2>3
  <1>3. PICK g : g = [st |-> h.st, obj |-> h.obj, rev |-> h.rev, range |-> h.range,
                      status |-> h.status, length |-> h.length, iv |-> h.iv, n |-> n, sent |-> sent]
      OBVIOUS
  <1>4. g \in Gets
      BY <1>1, <1>3 DEF Gets
  <1>5. Reads(g, h, n, sent)
      BY <1>3, <1>4 DEF Reads
  <1> QED BY <1>2, <1>3, <1>5

(* The n-th byte read is skipped, sent or the end. *)
LEMMA ByteSent ==
    ASSUME GetInv, SendByte
    PROVE  /\ GetOk(get', row)
           /\ BytesOk(get, row) => BytesOk(get', row)
  <1>1. get \in Gets /\ get.st = "sending" /\ get.status \in {200, 206} /\ GetOk(get, row)
      BY DEF GetInv, GetOk, SendByte
  <1>2. get.obj \in Objs /\ get.range \in AnyRange /\ get.rev \in DOMAIN row[get.obj].revs
      BY <1>1 DEF GetOk, Gets
  <1>3. PICK rev : rev = row[get.obj].revs[get.rev]
      OBVIOUS
  <1>4. rev.size \in Nat /\ rev \in Stored
      BY <1>2, <1>3, RevisionType DEF GetInv
  <1>5. PICK start \in Nat, stop \in Int, n \in Nat :
           start = get.range.start /\ stop = Taken(get.range).stop /\ n = get.n
      BY <1>1, <1>2, RangeType, TakenType DEF Gets
  <1>6. PICK q \in Nat, from \in Nat, skip \in Nat :
           /\ q = start \div BlockSize /\ from = BlockSize * q /\ skip = start % BlockSize
           /\ start = from + skip
    <2>1. /\ start \div BlockSize \in Nat /\ start % BlockSize \in Nat
          /\ BlockSize * (start \div BlockSize) \in Nat
          /\ start = BlockSize * (start \div BlockSize) + (start % BlockSize)
        BY Blocks
    <2> QED BY <2>1
  <1>a. start = from + skip
      BY <1>6
  <1>7. from = FirstRead(get) /\ skip = Skipped(get)
      BY <1>5, <1>6 DEF FirstRead, Skipped
  <1>8. Progress(get, rev.size) /\ get.length = ContentLength(rev.size, get.range)
        /\ (get.range.given \/ get.range = NoRange)
      BY <1>1, <1>3 DEF GetOk
  <1>9. PICK x : x = Decipher(Cipher(rev.iv, from + n), get.iv, n)
      OBVIOUS
  <1>10. x \in Int
      BY <1>6, <1>9, Deciphered
  <1>11. PICK what : what = IF from + n >= rev.size THEN "end" ELSE RangeCopy(get.range, n)
      OBVIOUS
  <1>12. get' = [get EXCEPT !.st = IF what = "end" THEN "done" ELSE @,
                            !.n = IF what = "end" THEN @ ELSE @ + 1,
                            !.sent = IF what = "copy" THEN Append(@, x) ELSE @]
      BY <1>3, <1>5, <1>6, <1>9, <1>11 DEF SendByte
  <1>13. RangeCopy(get.range, n) =
            CASE n < skip -> "skip"
              [] n >= skip /\ (stop = Open \/ n <= stop - from) -> "copy"
              [] OTHER -> "end"
    <2>1. PICK left : left = StopLeft(get.range)
        OBVIOUS
    <2>2. left = Open <=> stop = Open
        BY <1>2, <1>5, <2>1, TakenType
    <2>3. left # Open => left = stop - from
        BY <1>2, <1>5, <1>6, <2>1, <2>2, TakenType
    <2>4. (left = Open \/ n <= left) <=> (stop = Open \/ n <= stop - from)
        BY <2>2, <2>3
    <2> QED BY <1>5, <1>6, <2>1, <2>4 DEF RangeCopy
  <1>14. \/ what = "end" /\ \/ from + n >= rev.size
                            \/ n >= skip /\ stop # Open /\ n > stop - from
         \/ what = "skip" /\ n < skip
         \/ /\ what = "copy" /\ n >= skip /\ from + n < rev.size
            /\ stop = Open \/ n <= stop - from
    <2>1. CASE from + n >= rev.size
        BY <1>11, <2>1
    <2>2. CASE from + n < rev.size /\ n < skip
        BY <1>11, <1>13, <2>2, <1>4
    <2>3. CASE from + n < rev.size /\ n >= skip /\ (stop = Open \/ n <= stop - from)
        BY <1>11, <1>13, <2>3, <1>4
    <2>4. CASE from + n < rev.size /\ n >= skip /\ stop # Open /\ n > stop - from
        BY <1>11, <1>13, <2>4, <1>4
    <2> QED BY <1>4, <2>1, <2>2, <2>3, <2>4
  <1>15. CASE what = "end"
    <2>1. PICK g : g = [get EXCEPT !.st = "done"]
        OBVIOUS
    <2>2. get' = g
        BY <1>1, <1>12, <1>15, <2>1 DEF Gets
    <2>3. "done" \in States
        BY DEF States
    <2>4. /\ g \in Gets /\ g.st = "done" /\ g.iv = get.iv /\ g.obj = get.obj /\ g.rev = get.rev
          /\ g.n = get.n /\ g.range = get.range /\ g.status = get.status
          /\ g.length = get.length /\ g.sent = get.sent
        BY <1>1, <2>1, <2>3, StateSet
    <2>5. from + n >= rev.size \/ (n >= skip /\ stop # Open /\ from + n > stop)
        BY <1>14, <1>15
    <2>6. Progress(g, rev.size)
        BY <1>5, <1>7, <1>8, <2>4, <2>5 DEF Progress, FirstRead, Skipped
    <2>7. GetOk(g, row)
        BY <1>1, <1>2, <1>3, <1>8, <2>4, <2>6 DEF GetOk
    <2>8. BytesOk(get, row) => BytesOk(g, row)
        BY <2>4 DEF BytesOk
    <2> QED BY <2>2, <2>7, <2>8
  <1>16. CASE what # "end"
    <2>1. PICK sent : sent = IF what = "copy" THEN Append(get.sent, x) ELSE get.sent
        OBVIOUS
    <2>2. get.sent \in Seq(Int) /\ sent \in Seq(Int)
        BY <1>1, <1>10, <2>1 DEF Gets, Bytes
    <2>a. PICK next \in Nat : next = n + 1
        OBVIOUS
    <2>3. PICK g : g = [get EXCEPT !.n = next, !.sent = sent]
        OBVIOUS
    <2>4. get' = g
        BY <1>1, <1>5, <1>12, <1>16, <2>1, <2>a, <2>3 DEF Gets
    <2>5. /\ g \in Gets /\ g.n = n + 1 /\ g.sent = sent /\ g.st = get.st /\ g.iv = get.iv
          /\ g.obj = get.obj /\ g.rev = get.rev /\ g.range = get.range /\ g.status = get.status
          /\ g.length = get.length
      <3>1. /\ g \in Gets /\ g.n = next /\ g.sent = sent /\ g.st = get.st /\ g.iv = get.iv
            /\ g.obj = get.obj /\ g.rev = get.rev /\ g.range = get.range
            /\ g.status = get.status /\ g.length = get.length
        <4>1. get \in Gets /\ sent \in Bytes
            BY <1>1, <2>2 DEF Bytes
        <4>2. Reads([get EXCEPT !.n = next, !.sent = sent], get, next, sent)
            BY <4>1, BytesSet
        <4> QED BY <2>3, <4>2 DEF Reads
      <3> QED BY <2>a, <3>1
    <2>6. FirstRead(g) = from /\ Skipped(g) = skip
        BY <1>7, <2>5 DEF FirstRead, Skipped
    <2>7. /\ n <= skip => get.sent = <<>>
          /\ n > skip => Len(get.sent) = n - skip
        BY <1>5, <1>7, <1>8 DEF Progress
    <2>8. n >= skip => Len(get.sent) = n - skip
      <3>1. Len(<<>>) = 0
          OBVIOUS
      <3> QED BY <2>7, <3>1
    <2>9. CASE what = "skip"
      <3>1. n + 1 <= skip /\ sent = <<>>
          BY <1>14, <2>1, <2>7, <2>9
      <3>2. Progress(g, rev.size)
          BY <1>1, <2>5, <2>6, <3>1 DEF Progress
      <3>3. GetOk(g, row)
          BY <1>1, <1>2, <1>3, <1>8, <2>5, <3>2 DEF GetOk
      <3>4. BytesOk(get, row) => BytesOk(g, row)
          BY <2>1, <2>5, <2>9 DEF BytesOk
      <3> QED BY <2>4, <3>3, <3>4
    <2>10. CASE what = "copy"
      <3>1. /\ n >= skip /\ from + n < rev.size /\ (stop = Open \/ n <= stop - from)
            /\ sent = Append(get.sent, x)
          BY <1>14, <2>1, <2>10
      <3>2. /\ Len(sent) = Len(get.sent) + 1 /\ sent[Len(get.sent) + 1] = x
            /\ Len(get.sent) = n - skip
            /\ \A i \in DOMAIN sent : i \in DOMAIN get.sent \/ i = Len(get.sent) + 1
            /\ \A i \in DOMAIN get.sent : sent[i] = get.sent[i]
          BY <1>10, <2>2, <2>8, <3>1
      <3>3. /\ n + 1 > skip /\ Len(sent) = (n + 1) - skip /\ from + (n + 1) <= rev.size
            /\ stop = Open \/ from + (n + 1) <= stop + 1
          BY <1>4, <3>1, <3>2
      <3>4. Progress(g, rev.size)
          BY <1>1, <1>5, <2>5, <2>6, <3>3 DEF Progress
      <3>5. GetOk(g, row)
          BY <1>1, <1>2, <1>3, <1>8, <2>5, <3>4 DEF GetOk
      <3>6. ASSUME BytesOk(get, row) PROVE BytesOk(g, row)
        <4>1. get.iv = AdjustIV(rev.iv, start)
            BY <1>1, <1>3, <1>5, <3>6 DEF BytesOk
        <4>2. start \in 0 .. rev.size - 1
            BY <1>4, <1>6, <3>1
        <4>3. Value(rev.iv) \in Nat /\ Value(get.iv) = Value(rev.iv) + q
            BY <1>4, <1>6, <4>1, <4>2, BlocksAreCounted
        <4>4. x = from + n
          <5>1. PICK y : y = Decipher(Cipher(rev.iv, BlockSize * q + n), get.iv, n)
              OBVIOUS
          <5>2. y = BlockSize * q + n
              BY <4>3, <5>1, Deciphered
          <5> QED BY <1>6, <1>9, <5>1, <5>2
        <4>5. x = start + (Len(get.sent) + 1) - 1
          <5>1. PICK k \in Int : k = Len(get.sent)
              BY <3>2
          <5>2. k = n - skip
              BY <3>2, <5>1
          <5> QED BY <1>a, <4>4, <5>1, <5>2
        <4>6. \A i \in DOMAIN sent : sent[i] = start + i - 1
            BY <1>5, <3>2, <3>6, <4>5 DEF BytesOk
        <4> QED BY <1>1, <1>3, <1>5, <2>5, <4>1, <4>6 DEF BytesOk
      <3> QED BY <2>4, <3>5, <3>6
    <2> QED BY <1>14, <1>16, <2>9, <2>10
  <1> QED BY <1>15, <1>16

(* A step of Next, by what it may change. *)
ReadSteps ==
    \/ \E o \in Objs, range \in Ranges, cached \in BOOLEAN :
          \/ GetObjectStream(o, range, cached)
          \/ \E k \in DOMAIN row[o].revs : GetObjectStreamForRevision(o, k, range, cached)
    \/ OpenCiphertext \/ SendByte \/ DownloadFails \/ EndDownload
ZipSteps ==
    \/ \E ids \in (SUBSET Objs) \ {{}} : PostZip(ids)
    \/ ZipWriteFile \/ ZipFails \/ ZipWriteManifest \/ EndZip
    \/ \E o \in Objs : ZipFetch(o)
RowSteps == \E o \in Objs : StoreRevision(o) \/ TrashObject(o) \/ Withdraw(o)

LEMMA StepKinds ==
    ASSUME [Next]_vars
    PROVE  \/ ReadSteps /\ UNCHANGED <<row, zip>>
           \/ ZipSteps /\ UNCHANGED <<row, get>>
           \/ RowSteps /\ UNCHANGED <<get, zip>>
           \/ UNCHANGED <<row, get, zip>>
  <1>1. CASE ReadSteps
      BY <1>1 DEF ReadSteps, GetObjectStream, GetObjectStreamForRevision, OpenCiphertext, SendByte,
                  DownloadFails, EndDownload
  <1>2. CASE ZipSteps
      BY <1>2 DEF ZipSteps, PostZip, ZipWriteFile, ZipFails, ZipWriteManifest, EndZip, ZipFetch
  <1>3. CASE RowSteps
      BY <1>3 DEF RowSteps, StoreRevision, TrashObject, Withdraw, Change
  <1>4. CASE UNCHANGED vars
      BY <1>4 DEF vars
  <1> QED BY <1>1, <1>2, <1>3, <1>4 DEF Next, ReadSteps, ZipSteps, RowSteps

LEMMA ReadStep ==
    ASSUME GetInv, ReadSteps
    PROVE  GetOk(get', row) /\ (BytesOk(get, row) => BytesOk(get', row))
  <1>0. RowInv
      BY DEF GetInv
  <1>1. ASSUME NEW o \in Objs, NEW range \in Ranges, NEW cached \in BOOLEAN,
               GetObjectStream(o, range, cached)
        PROVE  GetOk(get', row) /\ BytesOk(get', row)
    <2>1. Len(row[o].revs) \in DOMAIN row[o].revs
      <3>1. row[o].revs \in Seq(Stored) /\ row[o].revs # <<>>
          BY <1>0 DEF RowInv, Rows
      <3> QED BY <3>1
    <2>2. PICK k \in DOMAIN row[o].revs : k = Len(row[o].revs)
        BY <2>1
    <2> QED BY <1>0, <1>1, <2>2, StreamStarts DEF GetObjectStream
  <1>2. ASSUME NEW o \in Objs, NEW range \in Ranges, NEW cached \in BOOLEAN,
               NEW k \in DOMAIN row[o].revs, GetObjectStreamForRevision(o, k, range, cached)
        PROVE  GetOk(get', row) /\ BytesOk(get', row)
      BY <1>0, <1>2, StreamStarts DEF GetObjectStreamForRevision
  <1>3. CASE EndDownload
    <2>1. get' = Idle
        BY <1>3 DEF EndDownload
    <2> QED BY <2>1, IdleOk
  <1>4. CASE OpenCiphertext
      BY <1>4, CiphertextOpened
  <1>5. CASE DownloadFails
      BY <1>5, DownloadFailed
  <1>6. CASE SendByte
      BY <1>6, ByteSent
  <1> QED BY <1>1, <1>2, <1>3, <1>4, <1>5, <1>6 DEF ReadSteps

LEMMA GetStep ==
    ASSUME GetInv, [Next]_vars
    PROVE  GetInv' /\ (BytesOk(get, row) => BytesOk(get, row)')
  <1>0. RowInv /\ GetOk(get, row)
      BY DEF GetInv
  <1>1. CASE ReadSteps /\ UNCHANGED <<row, zip>>
    <2>1. GetOk(get', row) /\ (BytesOk(get, row) => BytesOk(get', row))
        BY <1>1, ReadStep
    <2>2. RowInv' /\ row' = row
        BY <1>0, <1>1 DEF RowInv
    <2> QED BY <2>1, <2>2 DEF GetInv
  <1>2. CASE RowSteps /\ UNCHANGED <<get, zip>>
    <2>1. RowInv' /\ \A p \in Objs : Grows(row[p], row'[p])
        BY <1>0, <1>2, RowsGrow DEF RowSteps
    <2>2. GetOk(get, row') /\ (BytesOk(get, row) => BytesOk(get, row'))
        BY <1>0, <2>1, RowsMayGrow
    <2>3. get' = get
        BY <1>2
    <2> QED BY <2>1, <2>2, <2>3 DEF GetInv
  <1>3. CASE UNCHANGED <<row, get>>
    <2>1. RowInv' /\ row' = row /\ get' = get
        BY <1>0, <1>3 DEF RowInv
    <2> QED BY <1>0, <2>1 DEF GetInv
  <1> QED BY <1>1, <1>2, <1>3, StepKinds

LEMMA GetStart == Init => GetInv /\ BytesOk(get, row)
  <1> SUFFICES ASSUME Init PROVE GetInv /\ BytesOk(get, row)
      OBVIOUS
  <1>1. RowInv
      BY RowsStart
  <1>2. get = Idle
      BY DEF Init
  <1> QED BY <1>1, <1>2, IdleOk DEF GetInv

LEMMA GetInvariant == Spec => []GetInv
  <1>1. GetInv /\ [Next]_vars => GetInv'
      BY GetStep
  <1>2. Init => GetInv
      BY GetStart
  <1> QED BY <1>1, <1>2, PTL DEF Spec

(* How many bytes a range asks for, less than none if it is not inside. *)
HowMany(size, range) ==
    (IF range.stop = Open \/ range.stop >= size THEN size - 1 ELSE range.stop) + 1 - range.start

LEMMA SentLength ==
    ASSUME GetInv, get.status \in {200, 206}, NEW k,
           k = HowMany(row[get.obj].revs[get.rev].size, Taken(get.range))
    PROVE  /\ k \in Int /\ Len(get.sent) \in Nat /\ get.sent \in Seq(Int)
           /\ Len(get.sent) = 0 \/ Len(get.sent) <= k
           /\ get.st = "done" => IF k >= 0 THEN Len(get.sent) = k ELSE Len(get.sent) = 0
  <1>1. get \in Gets /\ get.st # "idle" /\ GetOk(get, row)
      BY DEF GetInv, GetOk
  <1>2. get.obj \in Objs /\ get.range \in AnyRange /\ get.rev \in DOMAIN row[get.obj].revs
      BY <1>1 DEF GetOk, Gets
  <1>3. PICK size \in Nat : size = row[get.obj].revs[get.rev].size
      BY <1>2, RevisionType DEF GetInv
  <1>4. PICK start \in Nat, stop \in Int, n \in Nat :
           start = get.range.start /\ stop = Taken(get.range).stop /\ n = get.n
      BY <1>1, <1>2, RangeType, TakenType DEF Gets
  <1>5. stop # Open => stop \in Nat
      BY <1>2, <1>4, TakenType
  <1>6. PICK from \in Nat, skip \in Nat :
           from = FirstRead(get) /\ skip = Skipped(get) /\ start = from + skip
    <2>1. /\ BlockSize * (start \div BlockSize) \in Nat /\ start % BlockSize \in Nat
          /\ start = BlockSize * (start \div BlockSize) + (start % BlockSize)
        BY Blocks
    <2> QED BY <1>4, <2>1 DEF FirstRead, Skipped
  <1>7. get.sent \in Seq(Int)
      BY <1>1 DEF Gets, Bytes
  <1>8. PICK len \in Nat : len = Len(get.sent)
      BY <1>7
  <1>9. /\ n <= skip => len = 0
        /\ n > skip => /\ len = n - skip /\ from + n <= size
                       /\ stop = Open \/ from + n <= stop + 1
        /\ get.st = "done" => \/ from + n >= size
                              \/ n >= skip /\ stop # Open /\ from + n > stop
    <2>1. Progress(get, size)
        BY <1>1, <1>3 DEF GetOk
    <2>2. Len(<<>>) = 0
        OBVIOUS
    <2> QED BY <1>4, <1>6, <1>8, <2>1, <2>2 DEF Progress
  <1>10. k = (IF stop = Open \/ stop >= size THEN size - 1 ELSE stop) + 1 - start
      BY <1>2, <1>3, <1>4, TakenType DEF HowMany
  <1>11. start = from + skip
      BY <1>6
  <1>12. /\ k \in Int /\ (len = 0 \/ len <= k)
         /\ get.st = "done" => IF k >= 0 THEN len = k ELSE len = 0
    <2>1. CASE stop = Open \/ stop >= size
      <3>1. k = size - start
        <4>1. k = size - 1 + 1 - start
            BY <1>10, <2>1, Zenon
        <4> QED BY <4>1
      <3>2. CASE n > skip
          BY <1>9, <1>11, <2>1, <3>1, <3>2 DEF Open
      <3>3. CASE n <= skip
          BY <1>9, <1>11, <2>1, <3>1, <3>3 DEF Open
      <3> QED BY <3>2, <3>3
    <2>2. CASE stop # Open /\ stop < size
      <3>1. k = stop + 1 - start
          BY <1>10, <2>2
      <3>2. CASE n > skip
          BY <1>9, <1>11, <2>2, <3>1, <3>2
      <3>3. CASE n <= skip
          BY <1>9, <1>11, <2>2, <3>1, <3>3
      <3> QED BY <3>2, <3>3
    <2> QED BY <2>1, <2>2
  <1> QED BY <1>7, <1>8, <1>12

(***************************************************************************)
(* The Content-Length that getAndStreamFile sends before it opens the      *)
(* ciphertext is the number of bytes rangeCopy lets through, for any size, *)
(* block size and range inside the content.                                *)
(***************************************************************************)
THEOREM LengthAnnouncedIsSent == Spec => []LengthHonest
  <1>1. ASSUME GetInv, get.st = "done", get.status \in {200, 206}, NEW size, NEW k,
               size = row[get.obj].revs[get.rev].size, k = HowMany(size, Taken(get.range)),
               get.range.start < size, get.range.stop < size,
               get.range.stop = Open \/ get.range.start <= get.range.stop
        PROVE  get.length = Len(get.sent)
    <2>1. /\ k \in Int /\ (IF k >= 0 THEN Len(get.sent) = k ELSE Len(get.sent) = 0)
        BY <1>1, SentLength
    <2>2. GetOk(get, row) /\ get.range \in AnyRange
        BY <1>1 DEF GetInv, GetOk, Gets
    <2>3. /\ get.length = ContentLength(size, get.range)
          /\ get.range.given \/ get.range = NoRange
        BY <1>1, <2>2 DEF GetOk
    <2>4. get.range.start \in Nat /\ get.range.stop \in Int
        BY <2>2, RangeType
    <2>5. size \in Nat
      <3>1. get.obj \in Objs /\ get.rev \in DOMAIN row[get.obj].revs
          BY <1>1, <2>2 DEF GetOk, Gets
      <3> QED BY <1>1, <3>1, RevisionType DEF GetInv
    <2>6. get.range = NoRange => get.range.start = 0 /\ get.range.stop = Open
        BY DEF NoRange
    <2>8. /\ Taken(get.range).start = get.range.start
          /\ Taken(get.range).stop = get.range.stop
        BY <1>1, <2>2, TakenType
    <2>7. ContentLength(size, get.range) = k /\ k >= 0
        BY <1>1, <2>3, <2>4, <2>5, <2>6, <2>8 DEF ContentLength, HowMany, Open
    <2> QED BY <2>1, <2>3, <2>7
  <1>2. GetInv => LengthHonest
      BY <1>1 DEF LengthHonest
  <1> QED BY <1>2, GetInvariant, PTL

(***************************************************************************)
(* A download of getAndStreamFile sends exactly the bytes of the range,    *)
(* each decrypted with the counter it was encrypted with, for any content, *)
(* block size, counter and range, whatever is stored meanwhile; of a range *)
(* that stops on the byte before the block it starts in, which rangeCopy   *)
(* takes for one without an end, all the rest of the content.              *)
(***************************************************************************)
THEOREM RangesAreExact == Spec => []RangeExact
  <1>1. BytesInv /\ [Next]_vars => BytesInv'
      BY GetStep DEF BytesInv
  <1>2. Init => BytesInv
      BY GetStart DEF BytesInv
  <1>3. ASSUME BytesInv, get.status \in {200, 206}, NEW wanted,
               wanted = Wanted(row[get.obj].revs[get.rev].size, Taken(get.range))
        PROVE  IsPrefix(get.sent, wanted) /\ (get.st = "done" => get.sent = wanted)
    <2>1. PICK k : k = HowMany(row[get.obj].revs[get.rev].size, Taken(get.range))
        OBVIOUS
    <2>2. /\ k \in Int /\ Len(get.sent) \in Nat /\ get.sent \in Seq(Int)
          /\ Len(get.sent) = 0 \/ Len(get.sent) <= k
          /\ get.st = "done" => IF k >= 0 THEN Len(get.sent) = k ELSE Len(get.sent) = 0
        BY <1>3, <2>1, SentLength DEF BytesInv
    <2>3. PICK start \in Nat : start = get.range.start /\ start = Taken(get.range).start
      <3>1. get.range \in AnyRange
          BY <1>3 DEF BytesInv, GetInv, GetOk, Gets
      <3> QED BY <3>1, RangeType, TakenType
    <2>4. wanted = [i \in 1 .. k |-> start + i - 1]
        BY <1>3, <2>1, <2>3 DEF Wanted, HowMany
    <2>5. PICK len \in Nat : len = IF k >= 0 THEN k ELSE 0
        BY <2>2
    <2>6. 1 .. k = 1 .. len
        BY <2>2, <2>5
    <2>7. wanted = [i \in 1 .. len |-> start + i - 1]
        BY <2>4, <2>6
    <2>8. wanted \in Seq(Int) /\ Len(wanted) = len
        BY <2>7
    <2>9. Len(get.sent) <= len /\ (get.st = "done" => Len(get.sent) = len)
        BY <2>2, <2>5
    <2>10. \A i \in 1 .. Len(get.sent) : get.sent[i] = start + i - 1
        BY <1>3, <2>2, <2>3 DEF BytesInv, BytesOk
    <2>11. \A i \in 1 .. Len(get.sent) : get.sent[i] = wanted[i]
      <3>1. \A i \in 1 .. len : wanted[i] = start + i - 1
          BY <2>7
      <3>2. PICK m \in Nat : m = Len(get.sent) /\ m <= len
          BY <2>2, <2>9
      <3>3. \A i \in 1 .. m : i \in 1 .. len
          BY <3>2
      <3> QED BY <2>10, <3>1, <3>2, <3>3
    <2>12. SubSeq(get.sent, 1, Len(get.sent)) = SubSeq(wanted, 1, Len(get.sent))
        BY <2>2, <2>8, <2>9, <2>11
    <2>13. IsPrefix(get.sent, wanted)
        BY <2>8, <2>9, <2>12 DEF IsPrefix
    <2>14. ASSUME get.st = "done" PROVE get.sent = wanted
      <3>1. Len(get.sent) = len
          BY <2>2, <2>5, <2>14
      <3> QED BY <2>2, <2>8, <2>11, <3>1
    <2> QED BY <2>13, <2>14
  <1>4. BytesInv => RangeExact
      BY <1>3 DEF RangeExact
  <1> QED BY <1>1, <1>2, <1>4, PTL DEF Spec
--------------------------------------------------------------------------------
(* Zips *)

(* The search for a number ends, and what it finds is not used. *)
LEMMA SuggestedIsNew ==
    ASSUME NEW used, IsFiniteSet(used), NEW name \in Names
    PROVE  ZipSuggestName(used, name) \in Names /\ ZipSuggestName(used, name) \notin used
  <1>1. CASE name \notin used
      BY <1>1 DEF ZipSuggestName
  <1>2. CASE name \in used
    <2>1. PICK c \in Nat : c = Cardinality(used)
        BY FS_CardinalityType
    <2> DEFINE free == {i \in 1 .. c + 1 : Append(name, i) \notin used}
    <2>2. \A i \in Nat : Append(name, i) \in Names
        BY DEF Names, Letters
    <2>3. \A i, j \in Nat : Append(name, i) = Append(name, j) => i = j
      <3>1. \A i \in Nat : Append(name, i)[Len(name) + 1] = i
          BY DEF Names, Letters
      <3> QED BY <3>1
    <2>4. free # {}
      <3> SUFFICES ASSUME free = {} PROVE FALSE
          OBVIOUS
      <3>1. PICK f : f = [i \in 1 .. c + 1 |-> Append(name, i)]
          OBVIOUS
      <3>2. f \in [1 .. c + 1 -> used]
          BY <3>1
      <3>3. IsFiniteSet(1 .. c + 1) /\ Cardinality(1 .. c + 1) = c + 1
          BY FS_Interval
      <3>4. \E x, y \in 1 .. c + 1 : x # y /\ f[x] = f[y]
          BY <2>1, <3>2, <3>3, FS_PigeonHole
      <3> QED BY <2>3, <3>1, <3>4
    <2>5. free \in SUBSET Nat
        OBVIOUS
    <2>6. \E k \in free : \A j \in free : k <= j
        BY <2>4, <2>5, Least
    <2>7. Min(free) \in free
        BY <2>6 DEF Min
    <2>8. ZipSuggestName(used, name) = Append(name, Min(free))
        BY <1>2, <2>1 DEF ZipSuggestName
    <2> QED BY <2>2, <2>5, <2>7, <2>8
  <1> QED BY <1>1, <1>2

LEMMA NamesAppend ==
    ASSUME NEW files \in FileLists, NEW f \in Files
    PROVE  /\ Append(files, f) \in FileLists
           /\ NamesOf(Append(files, f)) = Append(NamesOf(files), f.name)
           /\ ObjsOf(Append(files, f)) = ObjsOf(files) \cup {f.obj}
           /\ \A i \in DOMAIN Append(files, f) :
                 \/ i \in DOMAIN files /\ Append(files, f)[i] = files[i]
                 \/ i = Len(files) + 1 /\ Append(files, f)[i] = f
  <1>1. PICK n \in Nat : n = Len(files) /\ DOMAIN files = 1 .. n
      BY DEF FileLists
  <1>2. PICK all : all = Append(files, f)
      OBVIOUS
  <1>3. /\ all \in FileLists /\ DOMAIN all = 1 .. n + 1 /\ all[n + 1] = f
        /\ \A i \in 1 .. n : all[i] = files[i]
      BY <1>1, <1>2 DEF FileLists
  <1>4. \A i \in 1 .. n + 1 : i \in 1 .. n \/ i = n + 1
      OBVIOUS
  <1>5. NamesOf(files) \in Seq(Names) /\ Len(NamesOf(files)) = n
    <2>1. \A i \in 1 .. n : files[i].name \in Names
      <3>1. \A i \in 1 .. n : files[i] \in Files
          BY <1>1 DEF FileLists
      <3> QED BY <3>1 DEF Files
    <2>2. NamesOf(files) = [i \in 1 .. n |-> files[i].name]
        BY <1>1 DEF NamesOf
    <2> QED BY <2>1, <2>2
  <1>6. PICK names : names = Append(NamesOf(files), f.name)
      OBVIOUS
  <1>7. /\ names \in Seq(Names) /\ DOMAIN names = 1 .. n + 1 /\ names[n + 1] = f.name
        /\ \A i \in 1 .. n : names[i] = files[i].name
    <2>1. f.name \in Names
        BY DEF Files
    <2>2. \A i \in 1 .. n : NamesOf(files)[i] = files[i].name
        BY <1>1 DEF NamesOf
    <2> QED BY <1>5, <1>6, <2>1, <2>2
  <1>8. NamesOf(all) = [i \in 1 .. n + 1 |-> all[i].name]
      BY <1>3 DEF NamesOf
  <1>9. NamesOf(all) = names
      BY <1>3, <1>4, <1>7, <1>8
  <1>10. ObjsOf(all) = ObjsOf(files) \cup {f.obj}
      BY <1>1, <1>3, <1>4 DEF ObjsOf
  <1> QED BY <1>1, <1>2, <1>3, <1>4, <1>6, <1>9, <1>10

(* An empty archive. *)
LEMMA EmptyZip ==
    ASSUME NEW z, z = [x \in ZipFields |-> z[x]], z.files = <<>>, z.obj \in Objs,
           z.name = <<>>, z.used = {ManifestName}, z.rollup = {}, NEW rows,
           z.st = "idle" \/ (z.st = "fetch" /\ z.manifest = <<>> /\ z.asked = z.todo)
    PROVE  ZipOk(z, rows)
  <1>1. z.files \in FileLists /\ DOMAIN z.files = {} /\ z.name \in Names
    <2>1. << >> \in Seq(Files) /\ << >> \in Seq(Letters) /\ DOMAIN << >> = {}
        OBVIOUS
    <2> QED BY <2>1 DEF FileLists, Names
  <1>2. NamesOf(z.files) = <<>> /\ ObjsOf(z.files) = {}
      BY <1>1 DEF NamesOf, ObjsOf
  <1>3. IsFiniteSet(z.used)
      BY FS_Singleton
  <1>4. NamesOk(z.files, z.used)
      BY <1>1 DEF NamesOk
  <1> QED BY <1>1, <1>2, <1>3, <1>4 DEF ZipOk

LEMMA NoZipIs ==
    /\ NoZip = [x \in ZipFields |-> NoZip[x]] /\ NoZip.files = <<>> /\ NoZip.obj \in Objs
    /\ NoZip.name = <<>> /\ NoZip.used = {ManifestName} /\ NoZip.rollup = {}
    /\ NoZip.st = "idle" /\ NoZip.manifest = <<>> /\ NoZip.todo = {}
  <1>1. (CHOOSE o \in Objs : TRUE) \in Objs
      BY StreamingAssumption
  <1> QED BY <1>1 DEF NoZip, ZipFields

LEMMA ZipStarts ==
    ASSUME RowInv, NEW ids, PostZip(ids)
    PROVE  ZipOk(zip', row)
  <1>1. PICK z : z = [NoZip EXCEPT !.st = "fetch", !.todo = ids, !.asked = ids]
      OBVIOUS
  <1>2. /\ z = [x \in ZipFields |-> z[x]]
        /\ \A x \in ZipFields : z[x] = IF x = "st" THEN "fetch"
                                       ELSE IF x \in {"todo", "asked"} THEN ids ELSE NoZip[x]
    <2>1. NoZip = [x \in ZipFields |-> NoZip[x]]
        BY NoZipIs
    <2> QED BY <1>1, <2>1 DEF ZipFields
  <1>3. /\ z.st = "fetch" /\ z.todo = ids /\ z.asked = ids /\ z.files = NoZip.files
        /\ z.obj = NoZip.obj /\ z.name = NoZip.name /\ z.used = NoZip.used
        /\ z.rollup = NoZip.rollup /\ z.manifest = NoZip.manifest /\ z.denied = NoZip.denied
      BY <1>2 DEF ZipFields
  <1>5. /\ z = [x \in ZipFields |-> z[x]] /\ z.files = <<>> /\ z.obj \in Objs
        /\ z.name = <<>> /\ z.used = {ManifestName} /\ z.rollup = {}
        /\ z.st = "fetch" /\ z.manifest = <<>> /\ z.asked = z.todo
      BY <1>2, <1>3, NoZipIs, Zenon
  <1>4. ZipOk(z, row)
      BY <1>5, EmptyZip
  <1> QED BY <1>1, <1>4 DEF PostZip

LEMMA ZipStops ==
    ASSUME ZipInv, NEW st, st = "failed" \/ (st = "done" /\ zip.st = "fetch" /\ zip.todo = {}),
           zip' = [zip EXCEPT !.st = st]
    PROVE  ZipOk(zip', row)
  <1>1. zip = [x \in ZipFields |-> zip[x]] /\ ZipOk(zip, row)
      BY DEF ZipInv, ZipOk
  <1>2. PICK z : z = [zip EXCEPT !.st = st]
      OBVIOUS
  <1>3. /\ z = [x \in ZipFields |-> z[x]]
        /\ \A x \in ZipFields : z[x] = IF x = "st" THEN st ELSE zip[x]
      BY <1>1, <1>2 DEF ZipFields
  <1>4. /\ z.st = st /\ z.todo = zip.todo /\ z.asked = zip.asked /\ z.files = zip.files
        /\ z.obj = zip.obj /\ z.name = zip.name /\ z.used = zip.used
        /\ z.rollup = zip.rollup /\ z.manifest = zip.manifest /\ z.denied = zip.denied
      BY <1>3 DEF ZipFields
  <1>5. ZipOk(z, row)
      BY <1>1, <1>3, <1>4 DEF ZipOk
  <1> QED BY <1>2, <1>5

LEMMA ObjectFetched ==
    ASSUME ZipInv, NEW o \in Objs, ZipFetch(o)
    PROVE  ZipOk(zip', row)
  <1>1. /\ zip = [x \in ZipFields |-> zip[x]] /\ ZipOk(zip, row) /\ RowInv
        /\ zip.st = "fetch" /\ o \in zip.todo
      BY DEF ZipInv, ZipOk, ZipFetch
  <1>0. PICK answered \in BOOLEAN :
           LET name == ZipSuggestName(zip.used, Named[o])
               in == Last(row[o].revs).size > 0 /\ Readable(o) /\ answered
           IN  zip' = [zip EXCEPT !.todo = @ \ {o}, !.used = @ \cup {name}, !.obj = o, !.name = name,
                                  !.st = IF in THEN "write" ELSE "fetch",
                                  !.manifest = IF in THEN Append(@, name) ELSE @,
                                  !.denied = IF answered THEN @ ELSE @ \cup {o}]
      BY DEF ZipFetch
  <1>2. PICK name, in, denied :
           /\ name = ZipSuggestName(zip.used, Named[o])
           /\ in = (Last(row[o].revs).size > 0 /\ Readable(o) /\ answered)
           /\ denied = IF answered THEN zip.denied ELSE zip.denied \cup {o}
      OBVIOUS
  <1>3. name \in Names /\ name \notin zip.used
    <2>1. Named[o] \in Names
      <3>1. PICK n \in Nat : Named[o] = [i \in 1 .. n |-> Named[o][i]]
          BY StreamingAssumption
      <3>2. \A i \in 1 .. n : Named[o][i] \in Letters
        <4>1. DOMAIN Named[o] = 1 .. n
            BY <3>1
        <4> QED BY <4>1 DEF Letters
      <3>3. Named[o] \in [1 .. n -> Letters]
          BY <3>1, <3>2
      <3> QED BY <3>3 DEF Names
    <2>2. IsFiniteSet(zip.used)
        BY <1>1 DEF ZipOk
    <2> QED BY <1>2, <2>1, <2>2, SuggestedIsNew
  <1>4. PICK st, todo, used, manifest :
           /\ st = (IF in THEN "write" ELSE "fetch") /\ todo = zip.todo \ {o}
           /\ used = zip.used \cup {name}
           /\ manifest = (IF in THEN Append(zip.manifest, name) ELSE zip.manifest)
      OBVIOUS
  <1>5. PICK z : z = [zip EXCEPT !.todo = todo, !.used = used, !.obj = o, !.name = name,
                                 !.st = st, !.manifest = manifest, !.denied = denied]
      OBVIOUS
  <1>6. zip' = z
      BY <1>0, <1>1, <1>2, <1>4, <1>5 DEF ZipFields
  <1>7. /\ z = [x \in ZipFields |-> z[x]]
        /\ \A x \in ZipFields : z[x] = CASE x = "todo" -> todo [] x = "used" -> used
                                         [] x = "obj" -> o [] x = "name" -> name [] x = "st" -> st
                                         [] x = "manifest" -> manifest
                                         [] x = "denied" -> denied [] OTHER -> zip[x]
      BY <1>1, <1>5 DEF ZipFields
  <1>8. /\ z.todo = todo /\ z.used = used /\ z.obj = o /\ z.name = name /\ z.st = st
        /\ z.manifest = manifest /\ z.asked = zip.asked /\ z.files = zip.files
        /\ z.rollup = zip.rollup /\ z.denied = denied
      BY <1>7 DEF ZipFields
  <1>9. IsFiniteSet(used) /\ ManifestName \in used /\ name \in used /\ name # ManifestName
    <2>1. IsFiniteSet(zip.used) /\ ManifestName \in zip.used
        BY <1>1 DEF ZipOk
    <2> QED BY <1>3, <1>4, <2>1, FS_AddElement
  <1>10. /\ NamesOk(zip.files, used)
         /\ \A i \in DOMAIN zip.files : zip.files[i].name # name
    <2>1. NamesOk(zip.files, zip.used)
        BY <1>1 DEF ZipOk
    <2> QED BY <1>3, <1>4, <2>1 DEF NamesOk
  <1>15. zip.denied \subseteq denied
      BY <1>2
  <1>11. Wholly(row[o]) => in \/ o \in denied
    <2>1. row[o].revs \in Seq(Stored) /\ row[o].revs # <<>>
        BY <1>1 DEF RowInv, Rows
    <2>2. Len(row[o].revs) \in DOMAIN row[o].revs
        BY <2>1
    <2> QED BY <1>2, <2>2 DEF Wholly, Readable, Last
  <1>12. /\ zip.manifest = NamesOf(zip.files) /\ zip.files \in FileLists
         /\ zip.rollup = {Portion[p] : p \in ObjsOf(zip.files)}
         /\ \A p \in zip.asked \ zip.todo :
               p \in Objs /\ (Wholly(row[p]) => p \in ObjsOf(zip.files) \cup zip.denied)
      BY <1>1 DEF ZipOk
  <1>13. CASE in
    <2>1. st = "write" /\ manifest = Append(NamesOf(zip.files), name)
        BY <1>4, <1>12, <1>13
    <2>2. \A p \in zip.asked \ todo :
             p \in Objs /\ (Wholly(row[p]) => p \in ObjsOf(zip.files) \cup {o} \cup denied)
        BY <1>4, <1>12, <1>15
    <2> QED BY <1>3, <1>6, <1>7, <1>8, <1>9, <1>10, <1>12, <2>1, <2>2 DEF ZipOk
  <1>14. CASE ~in
    <2>1. st = "fetch" /\ manifest = zip.manifest
        BY <1>4, <1>14
    <2>2. \A p \in zip.asked \ todo :
             p \in Objs /\ (Wholly(row[p]) => p \in ObjsOf(zip.files) \cup denied)
        BY <1>4, <1>11, <1>12, <1>14, <1>15
    <2> QED BY <1>3, <1>6, <1>7, <1>8, <1>9, <1>10, <1>12, <2>1, <2>2 DEF ZipOk
  <1> QED BY <1>13, <1>14

LEMMA FileWritten ==
    ASSUME ZipInv, ZipWriteFile
    PROVE  ZipOk(zip', row)
  <1>1. zip = [x \in ZipFields |-> zip[x]] /\ ZipOk(zip, row) /\ zip.st = "write"
      BY DEF ZipInv, ZipOk, ZipWriteFile
  <1>2. PICK whole \in BOOLEAN :
           zip' = [zip EXCEPT !.st = "fetch", !.rollup = @ \cup {Portion[zip.obj]},
                              !.files = Append(@, [obj |-> zip.obj, name |-> zip.name, whole |-> whole])]
      BY DEF ZipWriteFile
  <1>3. PICK f : f = [obj |-> zip.obj, name |-> zip.name, whole |-> whole]
      OBVIOUS
  <1>4. zip.files \in FileLists /\ zip.obj \in Objs /\ zip.name \in Names
      BY <1>1 DEF ZipOk
  <1>5. f \in Files /\ f.name = zip.name /\ f.obj = zip.obj
      BY <1>3, <1>4 DEF Files
  <1>6. PICK files, rollup : /\ files = Append(zip.files, f)
                             /\ rollup = zip.rollup \cup {Portion[zip.obj]}
      OBVIOUS
  <1>7. /\ files \in FileLists /\ NamesOf(files) = Append(NamesOf(zip.files), zip.name)
        /\ ObjsOf(files) = ObjsOf(zip.files) \cup {zip.obj}
        /\ \A i \in DOMAIN files : \/ i \in DOMAIN zip.files /\ files[i] = zip.files[i]
                                   \/ i = Len(zip.files) + 1 /\ files[i] = f
      BY <1>4, <1>5, <1>6, NamesAppend
  <1>8. PICK z : z = [zip EXCEPT !.st = "fetch", !.rollup = rollup, !.files = files]
      OBVIOUS
  <1>9. zip' = z
      BY <1>1, <1>2, <1>3, <1>6, <1>8 DEF ZipFields
  <1>10. /\ z = [x \in ZipFields |-> z[x]]
         /\ \A x \in ZipFields : z[x] = CASE x = "st" -> "fetch" [] x = "rollup" -> rollup
                                          [] x = "files" -> files [] OTHER -> zip[x]
      BY <1>1, <1>8 DEF ZipFields
  <1>11. /\ z.todo = zip.todo /\ z.used = zip.used /\ z.obj = zip.obj /\ z.name = zip.name
         /\ z.st = "fetch" /\ z.manifest = zip.manifest /\ z.asked = zip.asked
         /\ z.files = files /\ z.rollup = rollup /\ z.denied = zip.denied
      BY <1>10 DEF ZipFields
  <1>12. /\ NamesOk(zip.files, zip.used) /\ zip.name \in zip.used /\ zip.name # ManifestName
         /\ \A i \in DOMAIN zip.files : zip.files[i].name # zip.name
         /\ zip.manifest = Append(NamesOf(zip.files), zip.name)
         /\ zip.rollup = {Portion[p] : p \in ObjsOf(zip.files)}
         /\ \A o \in zip.asked \ zip.todo :
               o \in Objs /\ (Wholly(row[o]) => o \in ObjsOf(zip.files) \cup {zip.obj} \cup zip.denied)
         /\ IsFiniteSet(zip.used) /\ ManifestName \in zip.used
      BY <1>1 DEF ZipOk
  <1>13. NamesOk(files, zip.used)
      BY <1>5, <1>7, <1>12 DEF NamesOk
  <1>14. rollup = {Portion[p] : p \in ObjsOf(files)}
      BY <1>6, <1>7, <1>12
  <1>15. z.manifest = NamesOf(z.files)
      BY <1>7, <1>11, <1>12
  <1> QED BY <1>4, <1>7, <1>9, <1>10, <1>11, <1>12, <1>13, <1>14, <1>15 DEF ZipOk

LEMMA ZipInvStep ==
    ASSUME ZipInv, [Next]_vars
    PROVE  ZipInv'
  <1>0. RowInv /\ ZipOk(zip, row)
      BY DEF ZipInv
  <1>1. CASE ZipSteps /\ UNCHANGED <<row, get>>
    <2>1. ZipOk(zip', row)
      <3>1. ASSUME NEW ids, PostZip(ids) PROVE ZipOk(zip', row)
          BY <1>0, <3>1, ZipStarts
      <3>2. CASE ZipWriteFile
          BY <3>2, FileWritten
      <3>3. CASE ZipFails
          BY <3>3, ZipStops DEF ZipFails
      <3>4. CASE ZipWriteManifest
        <4>1. PICK st : /\ zip' = [zip EXCEPT !.st = st] /\ zip.st = "fetch" /\ zip.todo = {}
                        /\ st = "failed" \/ st = "done"
            BY <3>4 DEF ZipWriteManifest
        <4> QED BY <4>1, ZipStops
      <3>5. CASE EndZip
        <4>1. zip' = NoZip
            BY <3>5 DEF EndZip
        <4> QED BY <4>1, NoZipIs, EmptyZip
      <3>6. CASE \E o \in Objs : ZipFetch(o)
          BY <3>6, ObjectFetched
      <3> QED BY <1>1, <3>1, <3>2, <3>3, <3>4, <3>5, <3>6 DEF ZipSteps
    <2>2. RowInv' /\ row' = row
        BY <1>0, <1>1 DEF RowInv
    <2> QED BY <2>1, <2>2 DEF ZipInv
  <1>2. CASE RowSteps /\ UNCHANGED <<get, zip>>
    <2>1. RowInv' /\ \A p \in Objs : Grows(row[p], row'[p])
        BY <1>0, <1>2, RowsGrow DEF RowSteps
    <2>2. \A p \in Objs : Wholly(row'[p]) => Wholly(row[p])
        BY <2>1 DEF Wholly, Grows
    <2>3. ZipOk(zip, row')
        BY <1>0, <2>2 DEF ZipOk
    <2>4. zip' = zip
        BY <1>2
    <2> QED BY <2>1, <2>3, <2>4 DEF ZipInv
  <1>3. CASE UNCHANGED <<row, zip>>
    <2>1. RowInv' /\ row' = row /\ zip' = zip
        BY <1>0, <1>3 DEF RowInv
    <2> QED BY <1>0, <2>1 DEF ZipInv
  <1> QED BY <1>1, <1>2, <1>3, StepKinds

LEMMA ZipInvariant == Spec => []ZipInv
  <1>1. Init => ZipInv
    <2> SUFFICES ASSUME Init PROVE ZipInv
        OBVIOUS
    <2>1. zip = NoZip /\ RowInv
        BY RowsStart DEF Init
    <2> QED BY <2>1, NoZipIs, EmptyZip DEF ZipInv
  <1>2. ZipInv /\ [Next]_vars => ZipInv'
      BY ZipInvStep
  <1> QED BY <1>1, <1>2, PTL DEF Spec

(***************************************************************************)
(* zipSuggestName finds an unused name for every object of postZip,        *)
(* however many share a name or have one that looks numbered, and no file  *)
(* of the archive has the name of another or of the manifest.              *)
(***************************************************************************)
THEOREM ZipNamesNeverClash == Spec => []ZipNamesDistinct
  <1>1. ZipInv => ZipNamesDistinct
      BY DEF ZipInv, ZipOk, NamesOk, ZipNamesDistinct
  <1> QED BY <1>1, ZipInvariant, PTL

(***************************************************************************)
(* While others store, trash and withdraw, an archive that postZip ends    *)
(* without an error has a manifest of just its files, the classification   *)
(* of all of them, and every object asked for that could be read           *)
(* throughout, but those AAC gave no answer about.                         *)
(***************************************************************************)
THEOREM ZipsAreComplete == Spec => []ZipComplete
  <1>1. ASSUME ZipInv, zip.st = "done", NEW in, in = {zip.files[i].obj : i \in DOMAIN zip.files}
        PROVE  /\ zip.manifest = [i \in DOMAIN zip.files |-> zip.files[i].name]
               /\ zip.rollup = {Portion[o] : o \in in}
               /\ {o \in zip.asked : Readable(o) /\ \A i \in DOMAIN row[o].revs : row[o].revs[i].size > 0} \ zip.denied
                    \subseteq in
    <2>1. /\ zip.manifest = NamesOf(zip.files) /\ zip.rollup = {Portion[o] : o \in ObjsOf(zip.files)}
          /\ \A o \in zip.asked : Wholly(row[o]) => o \in ObjsOf(zip.files) \cup zip.denied
        BY <1>1 DEF ZipInv, ZipOk
    <2> QED BY <1>1, <2>1 DEF NamesOf, ObjsOf, Wholly, Readable
  <1>2. ZipInv => ZipComplete
      BY <1>1 DEF ZipComplete
  <1> QED BY <1>2, ZipInvariant, PTL
================================================================================
