------------------------------ MODULE MCSlowRf ------------------------------
(***************************************************************************)
(* An instance of SlowRf: a high pulse, a long low one that is also a gap, *)
(* and two databases of one protocol each that can be told apart with      *)
(* them.  The second has a shorter sync and a bit0 that does not fit.      *)
(***************************************************************************)
EXTENDS SlowRf

TwoPulses == {<<500, 1>>, <<9000, 0>>}

High == <<<<1, 1>>>>
Low  == <<<<18, 0>>>>
Both == <<<<1, 1>>, <<18, 0>>>>

Switch ==
    [short |-> 500, tol |-> 200, min |-> 0, max |-> 1,
     sync |-> <<Both>>, bit0 |-> <<High>>, bit1 |-> <<Low, Low>>]

Sensor ==
    [short |-> 500, tol |-> 200, min |-> 1, max |-> 1,
     sync |-> <<High>>, bit0 |-> <<Both, Both>>, bit1 |-> <<Low>>]

TwoDatabases == {<<Switch>>, <<Sensor>>}

=============================================================================
