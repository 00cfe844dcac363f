--------------------------- MODULE MCTenantCache ---------------------------
(* A small instance of TenantCache for TLC.  The id "x:y" embeds the       *)
(* separator, so that x with key y:z and x:y with key z have the same      *)
(* bytes but for the length.                                               *)
EXTENDS TenantCache, TLC

CONSTANTS c1, c2

MCDigits == {"0", "1", "2", "3", "4", "5", "6", "7", "8", "9"}

MCBytes == {":", "tenant:", "x", "y", "z"} \cup MCDigits

MCLengths == 0..30

MCDecimal ==
    [n \in MCLengths |->
       IF n < 10 THEN <<ToString(n)>> ELSE <<ToString(n \div 10), ToString(n % 10)>>]

MCIds == {<<"x">>, <<"x", ":", "y">>}

MCPartLists == {<<<<"z">>>>, <<<<"y">>, <<"z">>>>}
=============================================================================
