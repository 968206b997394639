----------------------------- MODULE DataNumbers -----------------------------
(***************************************************************************)
(* The numbers of the station protocol's frames (net/Iec103): 16 bits on   *)
(* the wire, compared with a window at the wrap-around.                    *)
(***************************************************************************)
EXTENDS Integers

CONSTANTS Modulus,   \* 65536
          LowMark,   \* 10000
          HighMark   \* 60000

ASSUME DataNumbersAssumption ==
    /\ Modulus \in Nat /\ LowMark \in Nat /\ HighMark \in Nat
    /\ LowMark <= HighMark /\ HighMark < Modulus

Number == 0 .. Modulus - 1

(* ControlClient::PackHead counts in an int; the header keeps 16 bits.     *)
Next16(n) == (n + 1) % Modulus

(* Iec103::DataComparison: does number1 come after number2?                *)
DataComparison_OrEqual(number1, number2) ==  \* mutant: >= for >
    \/ number1 < LowMark /\ number2 > HighMark
    \/ number1 >= number2

DataComparison(number1, number2) ==
    \/ number1 < LowMark /\ number2 > HighMark
    \/ number1 > number2
==============================================================================
