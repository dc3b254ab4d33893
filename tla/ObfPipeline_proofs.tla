------------------------- MODULE ObfPipeline_proofs -------------------------
(***************************************************************************)
(* ObfTypeOK and ObfRetraced for every number of rounds and calls, every   *)
(* seed, key map, S-box and P-box with their inverses, and every array of  *)
(* keys that the caller brings along.                                      *)
(***************************************************************************)
EXTENDS ObfPipeline, TLAPS

-----------------------------------------------------------------------------
(* The layers of a round, one by one.                                      *)

(* Xor of a key is undone by the same xor.                                 *)
LEMMA XorBack ==
  \A x, y \in ObfByte : XorBits(x, y) \in ObfByte /\ XorBits(XorBits(x, y), y) = x
  BY DEF ObfByte, XorBits

(* A turn by k places is undone by a turn by 8 - k.                        *)
LEMMA RolBack ==
  ASSUME NEW x \in ObfByte, NEW k \in 1 .. 7
  PROVE  RolBits(RolBits(x, k), 8 - (k % 8)) = x
<1> DEFINE y == RolBits(x, k)
           z == RolBits(y, 8 - k)
<1>1. k % 8 = k
  OBVIOUS
<1>2. \A c \in Int : c \in y <=> c \in Bit /\ (c - k \in x \/ c + 8 - k \in x)
  BY DEF RolBits, Bit
<1>3. \A b \in Bit : b \in z <=> b - (8 - k) \in y \/ b + 8 - (8 - k) \in y
  BY DEF RolBits
<1> HIDE DEF y
<1>4. \A b \in Bit : b \in z <=> b \in x
  <2> TAKE b \in Bit
  <2>1. b \in Int /\ b >= 0 /\ b <= 7
    BY DEF Bit
  <2>2. \A c \in x : c \in Int /\ c >= 0 /\ c <= 7
    BY DEF ObfByte, Bit
  <2>3. b - (8 - k) \in y <=> b + k >= 8 /\ b \in x
    <3>1. b - (8 - k) - k \notin x
      BY <2>1, <2>2
    <3>2. b - (8 - k) + 8 - k = b
      BY <2>1
    <3>3. b - (8 - k) \in Bit <=> b + k >= 8
      BY <2>1 DEF Bit
    <3> QED
      BY <1>2, <2>1, <3>1, <3>2, <3>3
  <2>4. b + 8 - (8 - k) \in y <=> b + k <= 7 /\ b \in x
    <3>1. b + 8 - (8 - k) + 8 - k \notin x
      BY <2>1, <2>2
    <3>2. b + 8 - (8 - k) - k = b
      BY <2>1
    <3>3. b + 8 - (8 - k) \in Bit <=> b + k <= 7
      BY <2>1 DEF Bit
    <3> QED
      BY <1>2, <2>1, <3>1, <3>2, <3>3
  <2> QED
    BY <1>3, <2>1, <2>3, <2>4
<1>5. z \subseteq Bit /\ x \subseteq Bit
  BY DEF RolBits, ObfByte
<1> HIDE DEF z
<1>6. z = x
  BY <1>4, <1>5
<1> QED
  BY <1>1, <1>6 DEF z, y

(* The wires of a block are its bits, each of one byte.                    *)
LEMMA Wires ==
  /\ \A d \in Pos, b \in Bit : 8 * d + b \in Wire
  /\ \A w \in Wire : \E d \in Pos, b \in Bit : w = 8 * d + b
  /\ \A d, e \in Pos, b, c \in Bit : 8 * d + b = 8 * e + c => d = e /\ b = c
<1>1. \A w \in Wire : w \div 8 \in Pos /\ w % 8 \in Bit /\ w = 8 * (w \div 8) + (w % 8)
  BY DEF Wire, Pos, Bit
<1>2. \A w \in Wire : \E d \in Pos, b \in Bit : w = 8 * d + b
  BY <1>1
<1> QED
  BY <1>2 DEF Wire, Pos, Bit

(* Bit b of byte d of a block that went through a P-box.                   *)
LEMMA Through ==
  ASSUME NEW p \in [Wire -> Wire], NEW s \in Block
  PROVE  /\ ApplyPBox(p, s) \in Block
         /\ \A d \in Pos, b \in Bit :
              b \in ApplyPBox(p, s)[d]
                <=> \E e \in Pos : \E c \in s[e] : p[8 * e + c] = 8 * d + b
<1> DEFINE out == UNION {{p[8 * d + b] : b \in s[d]} : d \in Pos}
<1>1. ApplyPBox(p, s) = [d \in Pos |-> {b \in Bit : 8 * d + b \in out}]
  BY DEF ApplyPBox
<1>2. \A w : w \in out <=> \E e \in Pos : \E c \in s[e] : p[8 * e + c] = w
  OBVIOUS
<1> HIDE DEF out
<1>3. ApplyPBox(p, s) \in Block
  BY <1>1 DEF Block, ObfByte
<1> QED
  BY <1>1, <1>2, <1>3

(* A P-box and its inverse, in a row, leave the block as it was.           *)
LEMMA PBoxBack ==
  ASSUME NEW p \in [Wire -> Wire], NEW q \in [Wire -> Wire], NEW s \in Block,
         \A w \in Wire : q[p[w]] = w
  PROVE  ApplyPBox(q, ApplyPBox(p, s)) = s
<1> DEFINE t == ApplyPBox(p, s)
           u == ApplyPBox(q, t)
<1>1. t \in Block /\ u \in Block
  BY Through
<1>2. \A d \in Pos, b \in Bit :
        b \in t[d] <=> \E e \in Pos : \E c \in s[e] : p[8 * e + c] = 8 * d + b
  BY Through
<1>3. \A d \in Pos, b \in Bit :
        b \in u[d] <=> \E e \in Pos : \E c \in t[e] : q[8 * e + c] = 8 * d + b
  BY <1>1, Through
<1> HIDE DEF t, u
<1>4. \A d \in Pos : t[d] \subseteq Bit /\ s[d] \subseteq Bit /\ u[d] \subseteq Bit
  BY <1>1 DEF Block, ObfByte
<1>5. ASSUME NEW d \in Pos, NEW b \in u[d] PROVE b \in s[d]
  <2>1. PICK e \in Pos : \E c \in t[e] : q[8 * e + c] = 8 * d + b
    BY <1>3, <1>4
  <2>2. PICK c \in t[e] : q[8 * e + c] = 8 * d + b
    BY <2>1
  <2>3. PICK f \in Pos : \E a \in s[f] : p[8 * f + a] = 8 * e + c
    BY <1>2, <1>4
  <2>4. PICK a \in s[f] : p[8 * f + a] = 8 * e + c
    BY <2>3
  <2>5. 8 * f + a = 8 * d + b
    BY <1>4, <2>2, <2>4, Wires
  <2> QED
    BY <1>4, <2>5, Wires
<1>6. ASSUME NEW d \in Pos, NEW b \in s[d] PROVE b \in u[d]
  <2>1. 8 * d + b \in Wire
    BY <1>4, Wires
  <2>2. PICK e \in Pos, c \in Bit : p[8 * d + b] = 8 * e + c
    BY <2>1, Wires
  <2>3. c \in t[e]
    BY <1>2, <2>2
  <2>4. q[8 * e + c] = 8 * d + b
    BY <2>1, <2>2
  <2> QED
    BY <1>3, <1>4, <2>3, <2>4
<1>7. \A d \in Pos : u[d] = s[d]
  BY <1>5, <1>6
<1> QED
  BY <1>1, <1>7 DEF Block, u, t

(* The instructions of a round, and the operands that they take of a key.  *)
LEMMA Operands ==
  ASSUME NEW s \in ObfSeeds, NEW r \in Rows, NEW key \in Block
  PROVE  /\ Control(s, r, key) \in ObfByte
         /\ DynamicXor(r, key) \in ObfByte
         /\ DynamicRol(r, key) \in 1 .. 7
<1>1. 0 \in Pos /\ r % 16 \in Pos /\ (r + 1) % 16 \in Pos
  BY DEF Pos, Rows
<1>2. key[0] \in ObfByte /\ key[r % 16] \in ObfByte
  BY <1>1 DEF Block
<1>3. KeyMap(s, 16 * r) \in ObfByte
  BY ObfAssumption DEF ObfAssumption
<1>4. NumberOf(key[(r + 1) % 16]) \in Nat
  BY DEF NumberOf
<1>5. \A v \in Nat : (v % 7) + 1 \in 1 .. 7
  OBVIOUS
<1> QED
  BY <1>2, <1>3, <1>4, <1>5, XorBack DEF Control, DynamicXor, DynamicRol

(* The bytecode gives bytes, and run backwards takes its bytes back.       *)
LEMMA InterpretedUndone ==
  ASSUME NEW x \in ObfByte, NEW k \in 1 .. 7, NEW b \in Block
  PROVE  /\ Interpreted(x, k, b) \in Block
         /\ InterpretedBack(x, k, Interpreted(x, k, b)) = b
<1>1. \A v \in ObfByte : RolBits(v, k) \in ObfByte
  BY DEF RolBits, ObfByte
<1>2. \A v \in ObfByte : ObfSBox(v) \in ObfByte /\ ObfInvSBox(ObfSBox(v)) = v
  BY ObfAssumption DEF ObfAssumption
<1>3. \A d \in Pos : b[d] \in ObfByte /\ XorBits(b[d], x) \in ObfByte
  BY XorBack DEF Block
<1>4. Interpreted(x, k, b) = [d \in Pos |-> RolBits(ObfSBox(XorBits(b[d], x)), k)]
  BY DEF Interpreted
<1>5. Interpreted(x, k, b) \in Block
  BY <1>1, <1>2, <1>3, <1>4 DEF Block
<1>6. \A d \in Pos : RolBits(Interpreted(x, k, b)[d], 8 - (k % 8)) = ObfSBox(XorBits(b[d], x))
  BY <1>2, <1>3, <1>4, RolBack
<1>7. \A d \in Pos :
        XorBits(ObfInvSBox(RolBits(Interpreted(x, k, b)[d], 8 - (k % 8))), x) = b[d]
  BY <1>2, <1>3, <1>6, XorBack
<1>8. InterpretedBack(x, k, Interpreted(x, k, b)) = [d \in Pos |-> b[d]]
  BY <1>7 DEF InterpretedBack
<1> QED
  BY <1>5, <1>8 DEF Block

(* The injection of a key, its removal, and the key that comes next.       *)
LEMMA KeyInjection ==
  ASSUME NEW b \in Block, NEW key \in Block
  PROVE  /\ AddKey(b, key) \in Block /\ AddKey(AddKey(b, key), key) = b
         /\ NextKey(b, key) \in Block
<1>1. \A d \in Pos : b[d] \in ObfByte /\ key[d] \in ObfByte
  BY DEF Block
<1>2. AddKey(b, key) = [d \in Pos |-> XorBits(b[d], key[d])]
  BY DEF AddKey
<1>3. AddKey(b, key) \in Block
  BY <1>1, <1>2, XorBack DEF Block
<1>4. AddKey(AddKey(b, key), key) = [d \in Pos |-> XorBits(AddKey(b, key)[d], key[d])]
  BY DEF AddKey
<1>5. AddKey(AddKey(b, key), key) = b
  BY <1>1, <1>2, <1>4, XorBack DEF Block
<1>6. Checksum(b, key) \in ObfByte /\ {0, 2, 5, 7} \in ObfByte
  BY DEF Checksum, ObfByte, Bit
<1> DEFINE next == [d \in Pos |-> XorBits(XorBits(key[d], AddKey(b, key)[d]), {0, 2, 5, 7})]
<1>7. \A d \in Pos : XorBits(XorBits(key[d], AddKey(b, key)[d]), {0, 2, 5, 7}) \in ObfByte
  BY <1>1, <1>3, <1>6, XorBack DEF Block
<1>8. next \in [Pos -> ObfByte] /\ 0 \in Pos
  BY <1>7 DEF Pos
<1>9. NextKey(b, key) = [next EXCEPT ![0] = XorBits(@, Checksum(b, key))]
  BY DEF NextKey
<1> HIDE DEF next
<1>10. XorBits(next[0], Checksum(b, key)) \in ObfByte
  BY <1>6, <1>8, XorBack
<1>11. NextKey(b, key) \in Block
  BY <1>8, <1>9, <1>10 DEF Block
<1> QED
  BY <1>3, <1>5, <1>11

(* A round, and its way back.                                              *)
LEMMA RoundUndone ==
  ASSUME NEW s \in ObfSeeds, NEW r \in Rows, NEW key \in Block, NEW b \in Block
  PROVE  /\ Layered(s, r, key, b) \in Block
         /\ RoundBack(s, r, key, AddKey(Layered(s, r, key, b), key)) = b
<1> DEFINE c == Control(s, r, key)
           x == DynamicXor(r, key)
           k == DynamicRol(r, key)
           p == ApplyPBox(PBox(c), b)
<1>1. c \in ObfByte /\ x \in ObfByte /\ k \in 1 .. 7
  BY Operands
<1>2. /\ PBox(c) \in [Wire -> Wire] /\ InvPBox(c) \in [Wire -> Wire]
      /\ \A w \in Wire : InvPBox(c)[PBox(c)[w]] = w
  BY <1>1, ObfAssumption DEF ObfAssumption
<1>3. p \in Block /\ ApplyPBox(InvPBox(c), p) = b
  BY <1>2, Through, PBoxBack
<1>4. Layered(s, r, key, b) = Interpreted(x, k, p)
  BY DEF Layered
<1> HIDE DEF p
<1>5. \A a : RoundBack(s, r, key, a) = ApplyPBox(InvPBox(c), InterpretedBack(x, k, AddKey(a, key)))
  BY DEF RoundBack
<1> HIDE DEF c, x, k
<1>6. Interpreted(x, k, p) \in Block /\ InterpretedBack(x, k, Interpreted(x, k, p)) = p
  BY <1>1, <1>3, InterpretedUndone
<1>7. AddKey(AddKey(Interpreted(x, k, p), key), key) = Interpreted(x, k, p)
  BY <1>6, KeyInjection
<1> QED
  BY <1>3, <1>4, <1>5, <1>6, <1>7

(* A round of decryption gives blocks of bytes, of any block.              *)
LEMMA BackTyped ==
  ASSUME NEW s \in ObfSeeds, NEW r \in Rows, NEW key \in Block, NEW b \in Block
  PROVE  RoundBack(s, r, key, b) \in Block
<1> DEFINE c == Control(s, r, key)
           x == DynamicXor(r, key)
           k == DynamicRol(r, key)
           a == AddKey(b, key)
<1>1. c \in ObfByte /\ x \in ObfByte /\ k \in 1 .. 7 /\ a \in Block
  BY Operands, KeyInjection
<1>2. InvPBox(c) \in [Wire -> Wire]
  BY <1>1, ObfAssumption DEF ObfAssumption
<1>3. RoundBack(s, r, key, b) = ApplyPBox(InvPBox(c), InterpretedBack(x, k, a))
  BY DEF RoundBack
<1> HIDE DEF c, x, k, a
<1>4. \A v \in ObfByte, t \in Int : RolBits(v, t) \in ObfByte
  BY DEF RolBits, ObfByte
<1>5. 8 - (k % 8) \in Int
  BY <1>1
<1>6. \A v \in ObfByte : ObfInvSBox(v) \in ObfByte
  BY ObfAssumption DEF ObfAssumption
<1>7. \A d \in Pos : XorBits(ObfInvSBox(RolBits(a[d], 8 - (k % 8))), x) \in ObfByte
  BY <1>1, <1>4, <1>5, <1>6, XorBack DEF Block
<1>8. InterpretedBack(x, k, a) \in Block
  BY <1>7 DEF InterpretedBack, Block
<1> QED
  BY <1>2, <1>3, <1>8, Through

(* The first key of a seed.                                                *)
LEMMA FirstKeyTyped == \A s \in ObfSeeds : FirstKey(s) \in Block
  BY ObfAssumption DEF ObfAssumption, FirstKey, Block
-----------------------------------------------------------------------------
(***************************************************************************)
(* ObfRetraced is not inductive: it does not say how the path and the keys *)
(* came about.  Traced: k rounds with these keys lead along p; Chained:    *)
(* each of the first k keys gave the next.  A complete encryption leaves   *)
(* both behind in path and used; one that runs has them in path and rows   *)
(* as far as it has come.                                                  *)
(***************************************************************************)
Traced(p, keys, s, k) ==
  /\ keys[0] = FirstKey(s)
  /\ \A l \in 0 .. k - 1 : p[l + 1] = AddKey(Layered(s, l, keys[l], p[l]), keys[l])

Chained(p, keys, s, k) ==
  \A l \in 0 .. k - 1 : keys[l + 1] = NextKey(Layered(s, l, keys[l], p[l]), keys[l])

Encrypting == job \in {"encrypt", "inject"}
Made == made \in ObfSeeds \X (1 .. OBF_MAX_ROUNDS)

ObfShape ==
  /\ ObfTypeOK
  /\ used \in [Rows -> Block] /\ follows \in BOOLEAN
  /\ job # "none" => seed \in ObfSeeds /\ n >= 1
  /\ Encrypting => round < n
  /\ job = "decrypt" => round > 0
  /\ made = <<>> \/ Made
  /\ Made => path \in [0 .. made[2] -> Block]

Finished ==
  Made /\ (follows \/ ~Encrypting) =>
    Traced(path, used, made[1], made[2]) /\ Chained(path, used, made[1], made[2] - 1)

Running ==
  Encrypting =>
    /\ made = <<seed, n>>
    /\ Traced(path, rows, seed, round) /\ Chained(path, rows, seed, round)
    /\ block = IF job = "encrypt" THEN path[round]
               ELSE Layered(seed, round, rows[round], path[round])
    /\ follows => \A l \in 0 .. round : rows[l] = used[l]

Following ==
  follows => /\ Made /\ n = made[2]
             /\ ~Encrypting => block = path[round]
             /\ job = "decrypt" => /\ made = <<seed, n>>
                                   /\ \A r \in 0 .. n - 1 : rows[r] = used[r]

ObfIInv == ObfShape /\ Finished /\ Running /\ Following

(* An empty tuple is not the arguments of a call.                          *)
LEMMA MadePair ==
  /\ <<>> \notin ObfSeeds \X (1 .. OBF_MAX_ROUNDS)
  /\ Made => made = <<made[1], made[2]>> /\ made[1] \in ObfSeeds
             /\ made[2] \in 1 .. OBF_MAX_ROUNDS
  BY DEF Made

(* The invariant holds at first: nothing is made, nothing follows.         *)
LEMMA ObfInitial == ObfInit => ObfIInv
<1> SUFFICES ASSUME ObfInit PROVE ObfIInv
  OBVIOUS
<1>1. block \in Block /\ rows \in [Rows -> Block] /\ used \in [Rows -> Block]
  BY ObfAssumption DEF ObfAssumption, ObfInit
<1>2. ~Made
  BY MadePair DEF ObfInit, Made
<1>3. OBF_MAX_ROUNDS \in Nat \ {0}
  BY ObfAssumption DEF ObfAssumption
<1>4. ObfShape
  <2>1. job = "none" /\ n = 0 /\ round = 0 /\ made = <<>> /\ follows = FALSE
    BY DEF ObfInit
  <2>2. ObfTypeOK
    BY <1>1, <1>3, <2>1 DEF ObfTypeOK
  <2>3. ~Encrypting
    BY <2>1 DEF Encrypting
  <2> QED
    BY <1>1, <1>2, <2>1, <2>2, <2>3 DEF ObfShape
<1>5. Finished /\ Running /\ Following
  BY <1>2 DEF ObfInit, Finished, Running, Following, Encrypting
<1> QED
  BY <1>4, <1>5 DEF ObfIInv

(* Row zero is in the array, and the rest of it stays.                     *)
LEMMA FirstRow ==
  ASSUME rows \in [Rows -> Block], NEW key \in Block
  PROVE  WithRow(0, key) \in [Rows -> Block] /\ WithRow(0, key)[0] = key
<1>1. 0 \in Rows
  BY ObfAssumption DEF ObfAssumption, Rows
<1>2. DOMAIN rows \cup {0} = Rows
  BY <1>1
<1> QED
  BY <1>1, <1>2 DEF WithRow

(* What the caller does between two calls touches no path, and nothing     *)
(* follows a block that the caller put in.                                 *)
LEMMA CallerKeeps ==
  ObfIInv /\ (ObfRefuse \/ ObfInitRoundKeys \/ ObfLoad) => ObfIInv'
<1> SUFFICES ASSUME ObfIInv, ObfRefuse \/ ObfInitRoundKeys \/ ObfLoad PROVE ObfIInv'
  OBVIOUS
<1>1. /\ job = "none" /\ job' = "none"
      /\ UNCHANGED <<seed, n, made, used, path>>
  BY DEF ObfRefuse, ObfInitRoundKeys, ObfLoad, Called
<1>2. rows' \in [Rows -> Block]
  BY FirstRow, FirstKeyTyped DEF ObfIInv, ObfShape, ObfTypeOK, ObfRefuse, ObfInitRoundKeys, ObfLoad
<1>3. \/ UNCHANGED <<block, round, follows>>
      \/ block' \in Block /\ round' = 0 /\ follows' = FALSE
  BY ObfAssumption DEF ObfAssumption, ObfRefuse, ObfInitRoundKeys, ObfLoad
<1>4. ObfShape /\ Finished /\ Following /\ n \in Nat
  BY ObfAssumption DEF ObfAssumption, ObfIInv, ObfShape, ObfTypeOK
<1>5. ObfShape'
  <2>1. block' \in Block /\ round' \in 0 .. n /\ follows' \in BOOLEAN
    <3>1. block \in Block /\ round \in 0 .. n /\ 0 \in 0 .. n /\ follows \in BOOLEAN
      BY <1>4 DEF ObfShape, ObfTypeOK
    <3> QED
      BY <1>3, <3>1
  <2>2. ObfTypeOK'
    BY <1>1, <1>2, <1>4, <2>1 DEF ObfShape, ObfTypeOK
  <2>3. ~Encrypting' /\ Made' = Made
    BY <1>1 DEF Encrypting, Made
  <2> QED
    BY <1>1, <1>4, <2>1, <2>2, <2>3 DEF ObfShape
<1>6. Finished'
  BY <1>1, <1>4 DEF Finished, Encrypting, Made, Traced, Chained
<1>7. Running'
  BY <1>1 DEF Running, Encrypting
<1>8. Following'
  BY <1>1, <1>3, <1>4 DEF Following, Encrypting, Made
<1> QED
  BY <1>5, <1>6, <1>7, <1>8 DEF ObfIInv

(* An encryption begins, on the path of the last one or on a new one.      *)
LEMMA EncryptCallKeeps == ObfIInv /\ ObfEncryptCall => ObfIInv'
<1> SUFFICES ASSUME ObfIInv, ObfEncryptCall PROVE ObfIInv'
  OBVIOUS
<1>1. PICK s \in ObfSeeds, m \in RoundCounts :
        /\ job = "none" /\ m > 0 /\ m <= OBF_MAX_ROUNDS
        /\ job' = "encrypt" /\ seed' = s /\ n' = m /\ round' = 0
        /\ rows' = StartRows(s)
        /\ follows' = (made = <<s, m>> /\ block = path[0])
        /\ made' = <<s, m>>
        /\ path' = IF follows' THEN path ELSE [l \in 0 .. m |-> block]
        /\ UNCHANGED <<block, used>>
  BY DEF ObfEncryptCall, Called
<1>2. OBF_MAX_ROUNDS \in Nat \ {0} /\ m \in 1 .. OBF_MAX_ROUNDS
  BY <1>1, ObfAssumption DEF ObfAssumption
<1>3. ObfShape /\ Finished /\ block \in Block
  BY DEF ObfIInv, ObfShape, ObfTypeOK
<1>4. rows' \in [Rows -> Block] /\ rows'[0] = FirstKey(s)
  BY <1>1, <1>3, FirstRow, FirstKeyTyped DEF StartRows, ObfShape, ObfTypeOK
<1>5. Made' /\ made'[1] = s /\ made'[2] = m
  BY <1>1, <1>2 DEF Made
<1>6. ASSUME follows' PROVE /\ Made /\ made[1] = s /\ made[2] = m
                            /\ path' = path /\ block = path[0]
                            /\ path \in [0 .. m -> Block]
                            /\ Traced(path, used, s, m) /\ Chained(path, used, s, m - 1)
  <2>1. made = <<s, m>> /\ block = path[0] /\ path' = path
    BY <1>1, <1>6
  <2>2. Made /\ made[1] = s /\ made[2] = m
    BY <1>2, <2>1 DEF Made
  <2> QED
    BY <1>1, <1>3, <2>1, <2>2 DEF Finished, Encrypting, ObfShape
<1>7. path' \in [0 .. m -> Block] /\ path'[0] = block
  <2>1. CASE follows'
    BY <1>6, <2>1
  <2>2. CASE ~follows'
    <3>1. path' = [l \in 0 .. m |-> block]
      BY <1>1, <2>2
    <3> QED
      BY <1>2, <1>3, <3>1
  <2> QED
    BY <2>1, <2>2
<1>8. follows' \in BOOLEAN
  BY <1>1
<1>9. ObfShape'
  <2>1. ObfTypeOK'
    BY <1>1, <1>2, <1>3, <1>4 DEF ObfTypeOK
  <2>2. (job' # "none" => seed' \in ObfSeeds /\ n' >= 1) /\ (Encrypting => round < n)'
        /\ job' # "decrypt"
    BY <1>1, <1>2 DEF Encrypting
  <2>3. used' \in [Rows -> Block]
    BY <1>1, <1>3 DEF ObfShape
  <2> QED
    BY <1>5, <1>7, <1>8, <2>1, <2>2, <2>3 DEF ObfShape
<1>10. Finished'
  BY <1>1, <1>5, <1>6 DEF Finished, Encrypting
<1>11. Running'
  <2>1. made' = <<seed, n>>' /\ job' = "encrypt" /\ round' = 0
    BY <1>1
  <2>2. Traced(path, rows, seed, round)' /\ Chained(path, rows, seed, round)'
    BY <1>1, <1>4 DEF Traced, Chained
  <2>3. block' = path'[round']
    BY <1>1, <1>7
  <2>4. follows' => rows'[0] = used'[0]
    BY <1>1, <1>4, <1>6 DEF Traced
  <2> QED
    BY <2>1, <2>2, <2>3, <2>4 DEF Running
<1>12. Following'
  BY <1>1, <1>5 DEF Following, Encrypting
<1> QED
  BY <1>9, <1>10, <1>11, <1>12 DEF ObfIInv

(* A decryption begins, at the end of the path or off it.                  *)
LEMMA DecryptCallKeeps == ObfIInv /\ ObfDecryptCall => ObfIInv'
<1> SUFFICES ASSUME ObfIInv, ObfDecryptCall PROVE ObfIInv'
  OBVIOUS
<1>1. PICK s \in ObfSeeds, m \in RoundCounts :
        /\ job = "none" /\ m > 0 /\ m <= OBF_MAX_ROUNDS
        /\ job' = "decrypt" /\ seed' = s /\ n' = m /\ round' = m
        /\ follows' = (/\ made = <<s, m>> /\ block = path[m]
                       /\ \A r \in 0 .. m - 1 : rows[r] = used[r])
        /\ UNCHANGED <<block, rows, made, used, path>>
  BY DEF ObfDecryptCall, Called
<1>2. OBF_MAX_ROUNDS \in Nat \ {0} /\ m \in 1 .. OBF_MAX_ROUNDS
  BY <1>1, ObfAssumption DEF ObfAssumption
<1>3. ObfShape /\ Finished
  BY DEF ObfIInv
<1>4. follows' \in BOOLEAN
  BY <1>1
<1>5. ObfShape'
  BY <1>1, <1>2, <1>3, <1>4 DEF ObfShape, ObfTypeOK, Encrypting, Made
<1>6. Finished'
  BY <1>1, <1>3 DEF Finished, Encrypting, Made, Traced, Chained
<1>7. Running'
  BY <1>1 DEF Running, Encrypting
<1>8. Following'
  <2> SUFFICES ASSUME follows' PROVE Following'
    BY DEF Following
  <2>1. made = <<s, m>> /\ block = path[m] /\ \A r \in 0 .. m - 1 : rows[r] = used[r]
    BY <1>1
  <2>2. Made /\ made[2] = m
    BY <1>2, <2>1 DEF Made
  <2> QED
    BY <1>1, <2>1, <2>2 DEF Following, Encrypting, Made
<1> QED
  BY <1>5, <1>6, <1>7, <1>8 DEF ObfIInv

(* The layers of a round of encryption.                                    *)
LEMMA EncryptRoundKeeps == ObfIInv /\ ObfEncryptRound => ObfIInv'
<1> SUFFICES ASSUME ObfIInv, ObfEncryptRound PROVE ObfIInv'
  OBVIOUS
<1>1. /\ job = "encrypt" /\ job' = "inject"
      /\ block' = Layered(seed, round, rows[round], block)
      /\ UNCHANGED <<rows, seed, n, round, made, used, path, follows>>
  BY DEF ObfEncryptRound
<1>2. ObfShape /\ Finished /\ Running /\ Following
  BY DEF ObfIInv
<1>3. Encrypting /\ Encrypting'
  BY <1>1 DEF Encrypting
<1>4. /\ block \in Block /\ rows \in [Rows -> Block] /\ seed \in ObfSeeds
      /\ round \in Rows /\ round < n
  BY <1>1, <1>2, <1>3, ObfAssumption DEF ObfAssumption, ObfShape, ObfTypeOK, Rows
<1>5. block' \in Block
  BY <1>1, <1>4, RoundUndone
<1>6. ObfShape'
  <2>1. ObfTypeOK'
    BY <1>1, <1>2, <1>5 DEF ObfShape, ObfTypeOK
  <2> QED
    BY <1>1, <1>2, <1>3, <2>1 DEF ObfShape, Made
<1>7. Finished'
  BY <1>1, <1>2, <1>3 DEF Finished, Made, Traced, Chained
<1>8. Running'
  BY <1>1, <1>2, <1>3 DEF Running, Traced, Chained
<1>9. Following'
  BY <1>1, <1>2, <1>3 DEF Following, Made
<1> QED
  BY <1>6, <1>7, <1>8, <1>9 DEF ObfIInv

(* Along a finished path the next block and the next key are those that    *)
(* an encryption with the same keys comes to.                              *)
LEMMA InjectKeeps == ObfIInv /\ ObfInject => ObfIInv'
<1> SUFFICES ASSUME ObfIInv, ObfInject PROVE ObfIInv'
  OBVIOUS
<1> DEFINE key  == rows[round]
           out  == AddKey(block, key)
           next == NextKey(block, key)
<1>1. /\ job = "inject" /\ block' = out /\ round' = round + 1
      /\ rows' = RowsAfter(round, next)
      /\ path' = IF follows THEN path ELSE [path EXCEPT ![round + 1] = out]
      /\ job' = IF round + 1 = n THEN "none" ELSE "encrypt"
      /\ used' = IF round + 1 = n THEN rows' ELSE used
      /\ UNCHANGED <<seed, n, made, follows>>
  BY DEF ObfInject
<1>2. ObfShape /\ Finished /\ Running /\ Following
  BY DEF ObfIInv
<1>3. Encrypting
  BY <1>1 DEF Encrypting
<1>4. /\ block \in Block /\ rows \in [Rows -> Block] /\ seed \in ObfSeeds
      /\ round \in Nat /\ n \in 1 .. OBF_MAX_ROUNDS /\ round < n
      /\ OBF_MAX_ROUNDS \in Nat
      /\ used \in [Rows -> Block] /\ follows \in BOOLEAN
  BY <1>1, <1>2, <1>3, ObfAssumption DEF ObfAssumption, ObfShape, ObfTypeOK
<1>5. round \in Rows /\ key \in Block
  BY <1>4 DEF Rows
<1>6. /\ made = <<seed, n>> /\ made[1] = seed /\ made[2] = n
      /\ Traced(path, rows, seed, round) /\ Chained(path, rows, seed, round)
      /\ block = Layered(seed, round, key, path[round])
      /\ follows => \A l \in 0 .. round : rows[l] = used[l]
  BY <1>1, <1>2, <1>3 DEF Running
<1>7. Made /\ Made' /\ path \in [0 .. n -> Block]
  BY <1>1, <1>2, <1>4, <1>6 DEF Made, ObfShape
<1>8. out \in Block /\ next \in Block
  BY <1>4, <1>5, KeyInjection
<1>9. follows => Traced(path, used, seed, n) /\ Chained(path, used, seed, n - 1)
  BY <1>2, <1>6, <1>7 DEF Finished
<1> HIDE DEF key, out, next
<1>10. /\ rows' \in [Rows -> Block]
       /\ \A l \in 0 .. round : rows'[l] = rows[l]
       /\ round + 1 < n => rows'[round + 1] = next
  <2>1. CASE round + 1 < n
    <3>1. rows' = WithRow(round + 1, next)
      BY <1>1, <2>1 DEF RowsAfter
    <3>2. round + 1 \in Rows /\ DOMAIN rows \cup {round + 1} = Rows
      BY <1>4, <2>1 DEF Rows
    <3>3. rows' = [q \in Rows |-> IF q = round + 1 THEN next ELSE rows[q]]
      BY <3>1, <3>2 DEF WithRow
    <3>4. \A l \in 0 .. round : l \in Rows /\ l # round + 1
      BY <1>4 DEF Rows
    <3> QED
      BY <1>4, <1>8, <3>2, <3>3, <3>4
  <2>2. CASE ~(round + 1 < n)
    BY <1>1, <1>4, <2>2 DEF RowsAfter
  <2> QED
    BY <2>1, <2>2
<1>11. /\ path' \in [0 .. n -> Block]
       /\ \A l \in 0 .. round : path'[l] = path[l]
       /\ path'[round + 1] = out
  <2>1. CASE follows
    <3>1. rows[round] = used[round] /\ round \in 0 .. n - 1
      BY <1>4, <1>6, <2>1
    <3>2. path[round + 1] = AddKey(Layered(seed, round, key, path[round]), key)
      BY <1>9, <2>1, <3>1 DEF Traced, key
    <3> QED
      BY <1>1, <1>6, <1>7, <2>1, <3>2 DEF out
  <2>2. CASE ~follows
    <3>1. path' = [path EXCEPT ![round + 1] = out]
      BY <1>1, <2>2
    <3>2. round + 1 \in 0 .. n /\ \A l \in 0 .. round : l \in 0 .. n /\ l # round + 1
      BY <1>4
    <3> QED
      BY <1>7, <1>8, <3>1, <3>2
  <2> QED
    BY <2>1, <2>2
<1>12. Traced(path', rows', seed, round + 1)
  <2>1. rows'[0] = FirstKey(seed)
    BY <1>4, <1>6, <1>10 DEF Traced
  <2>2. ASSUME NEW l \in 0 .. (round + 1) - 1
        PROVE  path'[l + 1] = AddKey(Layered(seed, l, rows'[l], path'[l]), rows'[l])
    <3>1. l \in 0 .. round /\ rows'[l] = rows[l] /\ path'[l] = path[l]
      BY <1>4, <1>10, <1>11
    <3>2. CASE l = round
      BY <1>6, <1>11, <3>1, <3>2 DEF out, key
    <3>3. CASE l # round
      <4>1. l \in 0 .. round - 1 /\ l + 1 \in 0 .. round
        BY <1>4, <3>1, <3>3
      <4>2. path[l + 1] = AddKey(Layered(seed, l, rows[l], path[l]), rows[l])
        BY <1>6, <4>1 DEF Traced
      <4> QED
        BY <1>11, <3>1, <4>1, <4>2
    <3> QED
      BY <3>2, <3>3
  <2> QED
    BY <2>1, <2>2 DEF Traced
<1>13. ASSUME NEW l \in 0 .. round, l + 1 < n
       PROVE  rows'[l + 1] = NextKey(Layered(seed, l, rows'[l], path'[l]), rows'[l])
  <2>1. rows'[l] = rows[l] /\ path'[l] = path[l]
    BY <1>10, <1>11
  <2>2. CASE l = round
    BY <1>6, <1>10, <1>13, <2>1, <2>2 DEF next, key
  <2>3. CASE l # round
    <3>1. l \in 0 .. round - 1 /\ l + 1 \in 0 .. round
      BY <1>4, <2>3
    <3>2. rows[l + 1] = NextKey(Layered(seed, l, rows[l], path[l]), rows[l])
      BY <1>6, <3>1 DEF Chained
    <3> QED
      BY <1>10, <2>1, <3>1, <3>2
  <2> QED
    BY <2>2, <2>3
<1>14. ObfShape'
  <2>1. ObfTypeOK'
    BY <1>1, <1>4, <1>8, <1>10 DEF ObfTypeOK
  <2>2. used' \in [Rows -> Block] /\ follows' \in BOOLEAN /\ seed' \in ObfSeeds /\ n' >= 1
    BY <1>1, <1>4, <1>10
  <2>3. (Encrypting => round < n)' /\ job' # "decrypt"
    BY <1>1, <1>4 DEF Encrypting
  <2>4. made' = made /\ n' = n
    BY <1>1
  <2> QED
    BY <1>6, <1>7, <1>11, <2>1, <2>2, <2>3, <2>4 DEF ObfShape
<1>15. CASE round + 1 = n
  <2>1. /\ job' = "none" /\ used' = rows' /\ round' = n
        /\ UNCHANGED <<seed, n, made, follows>>
    BY <1>1, <1>15
  <2>2. Traced(path', used', seed, n)
    BY <1>12, <1>15, <2>1
  <2>3. Chained(path', used', seed, n - 1)
    <3>1. \A l \in 0 .. (n - 1) - 1 : l \in 0 .. round /\ l + 1 < n
      BY <1>4, <1>15
    <3> QED
      BY <1>13, <2>1, <3>1 DEF Chained
  <2>4. Finished'
    BY <1>6, <2>1, <2>2, <2>3 DEF Finished
  <2>5. Running'
    BY <2>1 DEF Running, Encrypting
  <2>6. Following'
    BY <1>1, <1>6, <1>7, <1>11, <1>15, <2>1 DEF Following, Encrypting
  <2> QED
    BY <1>14, <2>4, <2>5, <2>6 DEF ObfIInv
<1>16. CASE round + 1 # n
  <2>1. /\ job' = "encrypt" /\ used' = used /\ round' = round + 1 /\ round + 1 < n
        /\ UNCHANGED <<seed, n, made, follows>>
    BY <1>1, <1>4, <1>16
  <2>2. Encrypting'
    BY <2>1 DEF Encrypting
  <2>3. ASSUME follows PROVE path' = path
    BY <1>1, <2>3
  <2>4. Finished'
    BY <1>6, <1>9, <2>1, <2>2, <2>3 DEF Finished
  <2>5. Chained(path', rows', seed, round + 1)
    <3>1. \A l \in 0 .. (round + 1) - 1 : l \in 0 .. round /\ l + 1 < n
      BY <1>4, <2>1
    <3> QED
      BY <1>13, <3>1 DEF Chained
  <2>6. ASSUME follows, NEW l \in 0 .. round + 1 PROVE rows'[l] = used[l]
    <3>1. CASE l \in 0 .. round
      BY <1>6, <1>10, <2>6, <3>1
    <3>2. CASE l = round + 1
      <4>1. round \in 0 .. (n - 1) - 1 /\ rows[round] = used[round]
        BY <1>4, <1>6, <2>1, <2>6
      <4>2. used[round + 1] = NextKey(Layered(seed, round, key, path[round]), key)
        BY <1>9, <2>6, <4>1 DEF Chained, key
      <4> QED
        BY <1>6, <1>10, <2>1, <3>2, <4>2 DEF next
    <3> QED
      BY <1>4, <3>1, <3>2
  <2>7. Running'
    <3>1. made' = <<seed', n'>> /\ job' = "encrypt"
      BY <1>6, <2>1
    <3>2. Traced(path, rows, seed, round)' /\ Chained(path, rows, seed, round)'
      BY <1>12, <2>1, <2>5
    <3>3. block' = path'[round']
      BY <1>1, <1>11, <2>1
    <3>4. follows' => \A l \in 0 .. round' : rows'[l] = used'[l]
      BY <2>1, <2>6
    <3> QED
      BY <3>1, <3>2, <3>3, <3>4 DEF Running
  <2>8. Following'
    BY <1>6, <1>7, <2>1, <2>2 DEF Following, Encrypting
  <2> QED
    BY <1>14, <2>4, <2>7, <2>8 DEF ObfIInv
<1> QED
  BY <1>15, <1>16

(* A round of decryption goes one block back along the path.               *)
LEMMA DecryptRoundKeeps == ObfIInv /\ ObfDecryptRound => ObfIInv'
<1> SUFFICES ASSUME ObfIInv, ObfDecryptRound PROVE ObfIInv'
  OBVIOUS
<1> DEFINE r   == round - 1
           key == rows[r]
<1>1. /\ job = "decrypt" /\ block' = RoundBack(seed, r, key, block) /\ round' = r
      /\ job' = IF round = 1 THEN "none" ELSE job
      /\ UNCHANGED <<rows, seed, n, made, used, path, follows>>
  BY DEF ObfDecryptRound
<1>2. ObfShape /\ Finished /\ Following
  BY DEF ObfIInv
<1>3. ~Encrypting /\ ~Encrypting'
  BY <1>1 DEF Encrypting
<1>4. /\ block \in Block /\ rows \in [Rows -> Block] /\ seed \in ObfSeeds
      /\ round \in 1 .. n /\ n \in 1 .. OBF_MAX_ROUNDS /\ OBF_MAX_ROUNDS \in Nat
  BY <1>1, <1>2, ObfAssumption DEF ObfAssumption, ObfShape, ObfTypeOK
<1>5. r \in 0 .. n - 1 /\ r \in Rows /\ round = r + 1 /\ key \in Block
  BY <1>4 DEF Rows
<1> HIDE DEF r, key
<1>6. block' \in Block
  BY <1>1, <1>4, <1>5, BackTyped
<1>7. ObfShape'
  <2>1. ObfTypeOK'
    BY <1>1, <1>2, <1>4, <1>5, <1>6 DEF ObfShape, ObfTypeOK
  <2>2. job' = "decrypt" => round' > 0
    BY <1>1, <1>4, <1>5
  <2> QED
    BY <1>1, <1>2, <1>3, <2>1, <2>2 DEF ObfShape, Made
<1>8. Finished'
  BY <1>1, <1>2, <1>3 DEF Finished, Made, Traced, Chained
<1>9. Running'
  BY <1>3 DEF Running
<1>10. ASSUME follows PROVE block' = path[r]
  <2>1. /\ Made /\ made = <<seed, n>> /\ block = path[r + 1]
        /\ \A q \in 0 .. n - 1 : rows[q] = used[q]
    BY <1>1, <1>2, <1>3, <1>5, <1>10 DEF Following
  <2>2. path \in [0 .. n -> Block] /\ Traced(path, used, seed, n)
    BY <1>2, <1>10, <2>1 DEF ObfShape, Finished
  <2>3. used[r] = key /\ path[r] \in Block
    <3>1. r \in 0 .. n
      BY <1>4, <1>5
    <3> QED
      BY <1>5, <2>1, <2>2, <3>1 DEF key
  <2>4. block = AddKey(Layered(seed, r, key, path[r]), key)
    BY <1>5, <2>1, <2>2, <2>3 DEF Traced
  <2> QED
    BY <1>1, <1>4, <1>5, <2>3, <2>4, RoundUndone
<1>11. Following'
  BY <1>1, <1>2, <1>3, <1>10 DEF Following, Made
<1> QED
  BY <1>7, <1>8, <1>9, <1>11 DEF ObfIInv

(* Every step keeps the invariant.                                         *)
LEMMA ObfStep == ObfIInv /\ [ObfNext]_obfVars => ObfIInv'
<1> SUFFICES ASSUME ObfIInv, [ObfNext]_obfVars PROVE ObfIInv'
  OBVIOUS
<1>1. CASE UNCHANGED obfVars
  BY <1>1 DEF obfVars, ObfIInv, ObfShape, ObfTypeOK, Finished, Running, Following,
              Made, Encrypting, Traced, Chained
<1> QED
  BY <1>1, CallerKeeps, EncryptCallKeeps, DecryptCallKeeps, EncryptRoundKeeps,
     InjectKeeps, DecryptRoundKeeps DEF ObfNext
-----------------------------------------------------------------------------
(* Blocks and keys of the pipeline stay blocks of bytes in an array of     *)
(* OBF_MAX_ROUNDS rows: round_key_injection writes no row behind it.       *)
THEOREM ObfTypeCorrect == ObfSpec => []ObfTypeOK
<1>1. ObfIInv => ObfTypeOK
  BY DEF ObfIInv, ObfShape
<1> QED
  BY ObfInitial, ObfStep, <1>1, PTL DEF ObfSpec

(* obf_pipeline_decrypt goes back through every block of the encryption    *)
(* whose keys the array holds, and an encryption repeated takes the same   *)
(* path and leaves the same keys, whatever was in the array before.        *)
THEOREM ObfUndone == ObfSpec => []ObfRetraced
<1>1. ObfIInv => ObfRetraced
  BY DEF ObfIInv, Running, Following, ObfRetraced, Encrypting
<1> QED
  BY ObfInitial, ObfStep, <1>1, PTL DEF ObfSpec
=============================================================================
