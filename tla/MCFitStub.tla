----------------------------- MODULE MCFitStub -----------------------------
(* Boot entries for FitStub: one that boots, and one for each reason not   *)
(* to; BootOrder lists some of them, one of them twice.                    *)
EXTENDS FitStub

Option(attributes, path, optional) ==
  [exists |-> TRUE, attributes |-> attributes, path |-> path, optional |-> optional]

MCOptions ==
  {Option({"ACTIVE"}, "path", 0), Option({"ACTIVE"}, "path", 2),
   Option({"HIDDEN"}, "path", 0), Option({}, "path", 0),
   Option({"ACTIVE"}, "end", 0), Option({"ACTIVE"}, "short", 0),
   [Option({}, "end", 0) EXCEPT !.exists = FALSE]}

MCOrders == {<<>>, <<2, 1>>, <<1, 2, 1>>}
=============================================================================
