----------------------------- MODULE MCDecoders -----------------------------
(***************************************************************************)
(* Instances of Decoders for TLC: the tablets of each series with the      *)
(* settings that its decoders look at.                                     *)
(***************************************************************************)
EXTENDS Decoders

\* A tablet as InitFor* leaves it: binary, suppressed, absolute, origin above.
Plain(series, set) ==
  [series |-> series, set |-> set, old |-> FALSE, tilt |-> FALSE, ascii |-> FALSE,
   suppressed |-> TRUE, relative |-> FALSE, lowerLeft |-> FALSE, pressure |-> FALSE]

IIS == Plain("Other", "WacomIIS")
IV  == Plain("Other", "WacomIV")
SD  == Plain("SD", "WacomIIS")

AllTablets ==
  {Plain("Intuos", "WacomV"), Plain("FujitsuP", "WacomIIS"), Plain("TabletPC", "TabletPC"),
   Plain("Graphire", "WacomIV"), Plain("Other", "BitpadII")} \union
  {[IIS EXCEPT !.ascii = a, !.pressure = p, !.suppressed = s] :
     a \in BOOLEAN, p \in BOOLEAN, s \in BOOLEAN} \union
  {[IIS EXCEPT !.relative = TRUE, !.lowerLeft = l] : l \in BOOLEAN} \union
  {[IV EXCEPT !.tilt = t, !.suppressed = s, !.lowerLeft = TRUE] : t \in BOOLEAN, s \in BOOLEAN} \union
  {[IV EXCEPT !.old = TRUE, !.tilt = t] : t \in BOOLEAN} \union
  {[SD EXCEPT !.ascii = a, !.pressure = p] : a \in BOOLEAN, p \in BOOLEAN}

\* All of them can be set up.
ASSUME TabletsUsual == \A t \in AllTablets : Usual(t)

AllEvents == Event
ActiveRows == {1}
=============================================================================
