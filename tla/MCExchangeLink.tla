--------------------------- MODULE MCExchangeLink ---------------------------
(* Two threads at one end, or one, and one at the other; one kind used often, one once. *)
EXTENDS ExchangeLink

CONSTANTS a, b, often, once

TwoAndOne == {<<a, 1>>, <<a, 2>>, <<b, 1>>}

Uses == [k \in {often, once} |-> IF k = often THEN 3 ELSE 1]
=============================================================================
