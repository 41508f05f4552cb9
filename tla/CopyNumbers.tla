---------------------------- MODULE CopyNumbers -----------------------------
(***************************************************************************)
(* How copy.Copy (numberToNumber in copy/struct.go) makes one number of    *)
(* another: by way of a float64, whatever the two types are.               *)
(*                                                                         *)
(* Numbers are counted in halves, so that integers are even.               *)
(***************************************************************************)
EXTENDS Integers, FiniteSetsExt

CONSTANTS
    IntTop,         \* the first integer above int and int64
    ByteTop,        \* the first above int8; half of the first above uint8
    FloatBits,      \* significant bits of a float64
    MaxExponent     \* bound: binary exponents of a float64

ASSUME NumbersAssumption ==
    /\ IntTop \in Nat \ {0} /\ ByteTop \in 1 .. IntTop
    /\ FloatBits \in Nat \ {0} /\ MaxExponent \in Nat

IntKinds == {"int", "int64", "int8"}
NumberKinds == IntKinds \cup {"uint8", "float64"}
Architectures == {"amd64", "arm64"}

Abs(n) == IF n < 0 THEN -n ELSE n
(* The distance of the floats around a number. *)
Gap(n) == 2 ^ Min({i \in 0 .. MaxExponent : Abs(n) < 2 ^ (FloatBits + i)})
(* Rounded to the significant bits of a float, halfway cases to even. *)
Rounded(n) ==
    LET b == Gap(n)
        q == Abs(n) \div b
        r == Abs(n) % b
        m == IF 2 * r > b \/ (2 * r = b /\ q % 2 = 1) THEN q + 1 ELSE q
    IN  IF n < 0 THEN -(m * b) ELSE m * b

Truncated(n) == IF n < 0 THEN -(Abs(n) \div 2) ELSE n \div 2

(* What is left of an integer in a type of size values from low on. *)
Wrapped(i, low, size) == low + ((i - low) % size)

(* A float beyond int64 becomes what the processor makes of it. *)
ToInt64(arch, f) ==
    LET i == Truncated(f) IN
    CASE i \in -IntTop .. IntTop - 1 -> i
      [] i >= IntTop                 -> IF arch = "arm64" THEN IntTop - 1 ELSE -IntTop
      [] i < -IntTop                 -> -IntTop

Top(kind) == IF kind = "int8" THEN ByteTop ELSE IntTop

(* Fault: a negative number becomes 0 in any integer. *)
FloatToNumberNoSign(arch, kind, f) ==
    LET g == IF f < 0 THEN 0 ELSE f IN
    CASE kind = "float64"   -> f
      [] kind \in IntKinds  -> 2 * Wrapped(ToInt64(arch, g), -Top(kind), 2 * Top(kind))
      [] kind = "uint8"     -> 2 * Wrapped(Truncated(g), 0, 2 * ByteTop)
FloatToNumber(arch, kind, f) ==
    CASE kind = "float64"   -> f
      [] kind \in IntKinds  -> 2 * Wrapped(ToInt64(arch, f), -Top(kind), 2 * Top(kind))
      [] kind = "uint8"     -> 2 * Wrapped(Truncated(IF f < 0 THEN 0 ELSE f), 0, 2 * ByteTop)

(* The number n of one kind as a number of another; digits are a kind too. *)
NumberToNumber(arch, kind, from, n) ==
    FloatToNumber(arch, kind, IF from = "float64" THEN n ELSE Rounded(n))

(* Whether a number is a value of this kind. *)
Fits(n, kind) ==
    CASE kind \in IntKinds -> n % 2 = 0 /\ n \div 2 \in -Top(kind) .. Top(kind) - 1
      [] kind = "uint8"    -> n % 2 = 0 /\ n \div 2 \in 0 .. 2 * ByteTop - 1
      [] kind = "float64"  -> Rounded(n) = n
      [] OTHER             -> FALSE
=============================================================================
