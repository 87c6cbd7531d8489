----------------------------- MODULE MCPresets -----------------------------
EXTENDS Presets

TwoTablets == {[series |-> "UD", actual |-> 2, hackintosh |-> FALSE],
               [series |-> "Intuos", actual |-> 4, hackintosh |-> FALSE]}

\* A machine that is taken for one of another make is asked for a digitizer first.
TwoMachines == {[series |-> "Intuos", actual |-> 2, hackintosh |-> FALSE],
                [series |-> "UD", actual |-> 2, hackintosh |-> TRUE]}
=============================================================================
