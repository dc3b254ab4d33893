----------------------------- MODULE ByteTables -----------------------------
(* Tables that TLC makes once, before it evaluates anything that uses them: *)
(* f @@ <<>> is f, with every value worked out.                             *)
EXTENDS Integers, TLC, AesSBox

Nibble == 0 .. 15

XorNibbles ==
  LET bit(a, k) == (a \div 2 ^ k) % 2
      turn(a, b, k) == 2 ^ k * ((bit(a, k) + bit(b, k)) % 2)
  IN  [p \in Nibble \X Nibble |->
         turn(p[1], p[2], 0) + turn(p[1], p[2], 1) + turn(p[1], p[2], 2) + turn(p[1], p[2], 3)]
      @@ <<>>

XorNumbers(a, b) == 16 * XorNibbles[a \div 16, b \div 16] + XorNibbles[a % 16, b % 16]

Sub    == [v \in 0 .. 255 |-> AesTable[v + 1]] @@ <<>>
InvSub == [w \in 0 .. 255 |-> CHOOSE v \in 0 .. 255 : Sub[v] = w] @@ <<>>

BitsOf == [v \in 0 .. 255 |-> {b \in 0 .. 7 : (v \div 2 ^ b) % 2 = 1} \cup {}] @@ <<>>
=============================================================================
